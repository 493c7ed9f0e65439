---------------------- MODULE EditorAndWorkspaceProofs ----------------------
(***************************************************************************)
(* Theorems about EditorRun and ResultBuffer, for every number of runs,    *)
(* every cap, capacity and size of batches. The invariant of a run says    *)
(* what its buffer holds (BufferOK), which events are on their way and     *)
(* that the rows in them follow one another from the last row stored       *)
(* (LineOK), and what an entry of the history says (HistoryOK).            *)
(*                                                                         *)
(* And, below, theorems about Workspace: the context is the one the        *)
(* pointer names, a folder that is marked is whole, imports keep what was  *)
(* in force, and no switch goes unseen; for any folders, picks, requests   *)
(* and faults.                                                             *)
(***************************************************************************)
EXTENDS EditorRun, Workspace, WellFoundedInduction, FiniteSetTheorems, SequenceTheorems, TLAPS

-----------------------------------------------------------------------------
(* The result buffer: what its offsets, slots, files and cache have to do  *)
(* with one another.                                                       *)

(* The rows of the server's stream after the first `from`, n of them.      *)
Stretch(from, n) == [k \in 1 .. n |-> from + k]

(* What slot i must hold: the rows its two offsets enclose.                *)
Enclosed(b, i) == Stretch(b.offsets[i], b.offsets[i + 1] - b.offsets[i])

(* The types of a slot, a file, a buffer.                                  *)
SlotSet == [mem : BOOLEAN, batch : Seq(Nat), file : Nat]
FileSet == [whole : BOOLEAN, batch : Seq(Nat)]
Buffers ==
    [slots : Seq(SlotSet), offsets : Seq(Nat), memRows : Nat, spillFiles : Nat,
     dir : BOOLEAN, files : Seq(FileSet), cache : [slot : Nat, batch : Seq(Nat)]]

(* The offsets rise from 0, one for each slot and one more.                *)
OffsetsOK(b) ==
    /\ Len(b.offsets) = Len(b.slots) + 1
    /\ b.offsets[1] = 0
    /\ \A i, j \in 1 .. Len(b.offsets) : i < j => b.offsets[i] < b.offsets[j]

(* A slot holds its rows, or names a whole file that does.                 *)
SlotsOK(b) ==
    \A i \in 1 .. Len(b.slots) :
        IF b.slots[i].mem
        THEN b.slots[i].batch = Enclosed(b, i)
        ELSE /\ b.slots[i].file < b.spillFiles
             /\ b.files[b.slots[i].file + 1] = Whole(Enclosed(b, i))

(* One file at most is not committed; the cache answers for one slot.      *)
FilesOK(b) ==
    /\ Len(b.files) \in {b.spillFiles, b.spillFiles + 1}
    /\ \/ b.cache = NoCache
       \/ /\ b.cache.slot \in 1 .. Len(b.slots)
          /\ b.cache.batch = Enclosed(b, b.cache.slot)

(* What holds of a buffer at every moment.                                 *)
BufferOK(b) == b \in Buffers /\ OffsetsOK(b) /\ SlotsOK(b) /\ FilesOK(b)

(* A set of naturals has a least member: the one induction needed here.    *)
LEMMA LeastMember ==
    ASSUME NEW T, T \subseteq Nat, T # {}
    PROVE  \E m \in T : \A n \in T : m <= n
<1> DEFINE R == OpToRel(<, Nat)
<1>1. IsWellFoundedOn(R, Nat)
  BY NatLessThanWellFounded
<1>2. \A n, m \in T : n < m => <<n, m>> \in R
  BY DEF OpToRel
<1> HIDE DEF R
<1>3. PICK m \in T : \A n \in T : <<n, m>> \notin R
  BY <1>1, WFMin
<1>4. \A n \in T : ~ (n < m)
  BY <1>2, <1>3
<1> QED
  BY <1>4

(* A stretch of the stream is a sequence of as many rows as it is long.    *)
LEMMA StretchType ==
    ASSUME NEW from \in Nat, NEW n \in Nat
    PROVE  /\ Stretch(from, n) \in Seq(Nat)
           /\ Len(Stretch(from, n)) = n
           /\ \A k \in 1 .. n : Stretch(from, n)[k] = from + k
BY DEF Stretch

(* A new buffer, with no slot and no row, satisfies what is asked of one.  *)
LEMMA NewBufferIsOK == BufferOK(NewBuffer) /\ RowCount(NewBuffer) = 0
<1>1. NewBuffer \in Buffers
  BY DEF NewBuffer, Buffers, NoCache
<1>2. /\ NewBuffer.slots = <<>> /\ NewBuffer.offsets = <<0>> /\ NewBuffer.files = <<>>
      /\ NewBuffer.spillFiles = 0 /\ NewBuffer.cache = NoCache
  BY DEF NewBuffer
<1>3. Len(NewBuffer.slots) = 0 /\ Len(NewBuffer.offsets) = 1 /\ Len(NewBuffer.files) = 0
  BY <1>2
<1> QED
  BY <1>1, <1>2, <1>3 DEF BufferOK, OffsetsOK, SlotsOK, FilesOK, RowCount

(* The last offset is the number of rows, and no offset is beyond it.      *)
LEMMA RowCountType ==
    ASSUME NEW b, BufferOK(b)
    PROVE  /\ RowCount(b) \in Nat
           /\ Len(b.offsets) \in Nat \ {0} /\ Len(b.slots) \in Nat /\ Len(b.files) \in Nat
           /\ b.spillFiles \in Nat
           /\ \A i \in 1 .. Len(b.offsets) : b.offsets[i] \in Nat /\ b.offsets[i] <= RowCount(b)
<1>1. b \in Buffers /\ OffsetsOK(b)
  BY DEF BufferOK
<1>2. /\ b.slots \in Seq(SlotSet) /\ b.offsets \in Seq(Nat) /\ b.files \in Seq(FileSet)
      /\ b.spillFiles \in Nat
  BY <1>1 DEF Buffers
<1>3. Len(b.offsets) \in Nat \ {0} /\ Len(b.slots) \in Nat /\ Len(b.files) \in Nat
  BY <1>1, <1>2 DEF OffsetsOK
<1>4. \A i \in 1 .. Len(b.offsets) : b.offsets[i] \in Nat
  BY <1>2
<1>5. ASSUME NEW i \in 1 .. Len(b.offsets) PROVE b.offsets[i] <= RowCount(b)
  <2>1. i < Len(b.offsets) \/ i = Len(b.offsets)
    BY <1>3
  <2> QED
    BY <2>1, <1>1, <1>3, <1>4 DEF OffsetsOK, RowCount
<1> QED
  BY <1>2, <1>3, <1>4, <1>5 DEF RowCount

(* The slot found for a row is the one whose offsets enclose it.           *)
LEMMA SlotEncloses ==
    ASSUME NEW b, BufferOK(b), NEW row \in Nat, row < RowCount(b)
    PROVE  /\ SlotOf(b, row) \in 1 .. Len(b.slots)
           /\ b.offsets[SlotOf(b, row)] <= row
           /\ row < b.offsets[SlotOf(b, row) + 1]
<1>1. /\ OffsetsOK(b) /\ b.offsets \in Seq(Nat) /\ Len(b.slots) \in Nat
      /\ Len(b.offsets) \in Nat \ {0}
      /\ \A i \in 1 .. Len(b.offsets) : b.offsets[i] \in Nat
  BY RowCountType DEF BufferOK, Buffers
<1> DEFINE T == {i \in 1 .. Len(b.offsets) : b.offsets[i] > row}
<1>2. T \subseteq Nat /\ T # {}
  BY <1>1 DEF RowCount
<1>3. PICK m \in T : \A n \in T : m <= n
  BY <1>2, LeastMember
<1>4. m \in 1 .. Len(b.offsets) /\ m # 1
  BY <1>1 DEF OffsetsOK
<1>5. {i \in DOMAIN b.offsets : b.offsets[i] <= row} = 1 .. (m - 1)
  <2>1. DOMAIN b.offsets = 1 .. Len(b.offsets)
    BY <1>1
  <2>2. ASSUME NEW i \in 1 .. Len(b.offsets) PROVE b.offsets[i] <= row <=> i < m
    <3>1. CASE i < m
      BY <3>1, <1>1, <1>3
    <3>2. CASE i = m
      BY <3>2, <1>1
    <3>3. CASE i > m
      BY <3>3, <1>1, <1>4 DEF OffsetsOK
    <3> QED
      BY <3>1, <3>2, <3>3, <1>4
  <2> QED
    BY <2>1, <2>2, <1>4, <1>1
<1>6. Cardinality(1 .. (m - 1)) = m - 1
  <2>1. \A x, y \in Int : Cardinality(x .. y) = IF x > y THEN 0 ELSE y - x + 1
    BY FS_Interval
  <2> QED
    BY <2>1, <1>4, <1>1
<1>7. SlotOf(b, row) = m - 1
  BY <1>5, <1>6 DEF SlotOf
<1>8. m - 1 \in 1 .. Len(b.slots) /\ m - 1 \in 1 .. Len(b.offsets)
  BY <1>1, <1>4 DEF OffsetsOK
<1>9. b.offsets[m - 1] <= row
  <2>1. m - 1 \in DOMAIN b.offsets /\ m - 1 \in 1 .. m - 1
    BY <1>1, <1>4, <1>8
  <2> QED
    BY <2>1, <1>5
<1> QED
  BY <1>7, <1>8, <1>9

(* The rows that a slot encloses: never none, and row k of the stream is   *)
(* at its place among them.                                                *)
LEMMA EnclosedType ==
    ASSUME NEW b, BufferOK(b), NEW i \in 1 .. Len(b.slots)
    PROVE  /\ b.offsets[i] \in Nat /\ b.offsets[i + 1] \in Nat
           /\ b.offsets[i] < b.offsets[i + 1]
           /\ Enclosed(b, i) \in Seq(Nat)
           /\ Enclosed(b, i) # <<>>
           /\ \A row \in Nat : b.offsets[i] <= row /\ row < b.offsets[i + 1]
                 => Enclosed(b, i)[row - b.offsets[i] + 1] = row + 1
<1>0. /\ Len(b.slots) \in Nat /\ Len(b.offsets) = Len(b.slots) + 1
      /\ \A k \in 1 .. Len(b.offsets) : b.offsets[k] \in Nat
      /\ \A k, l \in 1 .. Len(b.offsets) : k < l => b.offsets[k] < b.offsets[l]
  <2>1. OffsetsOK(b)
    BY DEF BufferOK
  <2> QED
    BY <2>1, RowCountType DEF OffsetsOK
<1>1. /\ i \in 1 .. Len(b.offsets) /\ i + 1 \in 1 .. Len(b.offsets) /\ i < i + 1
  BY <1>0
<1>2. /\ b.offsets[i] \in Nat /\ b.offsets[i + 1] \in Nat
      /\ b.offsets[i] < b.offsets[i + 1]
  BY <1>0, <1>1
<1> DEFINE n == b.offsets[i + 1] - b.offsets[i]
<1>3. n \in Nat /\ n > 0
  BY <1>2
<1>4. Enclosed(b, i) = Stretch(b.offsets[i], n)
  BY DEF Enclosed
<1>5. Enclosed(b, i) \in Seq(Nat) /\ Len(Enclosed(b, i)) = n
      /\ \A k \in 1 .. n : Enclosed(b, i)[k] = b.offsets[i] + k
  <2> HIDE DEF n
  <2>1. b.offsets[i] \in Nat /\ n \in Nat
    BY <1>2, <1>3
  <2>2. /\ Stretch(b.offsets[i], n) \in Seq(Nat)
        /\ Len(Stretch(b.offsets[i], n)) = n
        /\ \A k \in 1 .. n : Stretch(b.offsets[i], n)[k] = b.offsets[i] + k
    BY <2>1, StretchType
  <2> QED
    BY <2>2, <1>4
<1>6. Enclosed(b, i) # <<>>
  BY <1>3, <1>5
<1>7. ASSUME NEW row \in Nat, b.offsets[i] <= row, row < b.offsets[i + 1]
      PROVE  Enclosed(b, i)[row - b.offsets[i] + 1] = row + 1
  <2>1. row - b.offsets[i] + 1 \in 1 .. n
    BY <1>7, <1>2
  <2>2. Enclosed(b, i)[row - b.offsets[i] + 1] = b.offsets[i] + (row - b.offsets[i] + 1)
    BY <2>1, <1>5
  <2> QED
    BY <2>2, <1>2
<1> QED
  BY <1>1, <1>2, <1>5, <1>6, <1>7

(* What is read of a slot, from memory, from the cache or from its file,   *)
(* is what it encloses.                                                    *)
LEMMA SlotsAreReadable ==
    ASSUME NEW b, BufferOK(b), NEW si \in 1 .. Len(b.slots)
    PROVE  Readable(b, si) /\ SlotBatch(b, si) = Enclosed(b, si)
<1>1. SlotsOK(b) /\ FilesOK(b)
  BY DEF BufferOK
<1>2. CASE b.slots[si].mem
  BY <1>1, <1>2 DEF SlotsOK, Readable, SlotBatch
<1>3. CASE ~b.slots[si].mem
  <2>1. FileOf(b, si) = Whole(Enclosed(b, si))
    BY <1>1, <1>3 DEF SlotsOK, FileOf
  <2>2. CASE Cached(b, si)
    <3>1. b.cache.slot = si
      BY <2>2 DEF Cached
    <3>2. b.cache # NoCache
      BY <3>1 DEF NoCache
    <3> QED
      BY <3>1, <3>2, <1>1, <2>2, <1>3 DEF FilesOK, Readable, SlotBatch
  <2>3. CASE ~Cached(b, si)
    BY <2>1, <2>3, <1>3 DEF Readable, SlotBatch, Whole
  <2> QED
    BY <2>2, <2>3
<1> QED
  BY <1>2, <1>3

(* cell_text gives, for every row of the buffer, the row that the server   *)
(* sent there: the slot found encloses it and its batch, in memory, in a   *)
(* file or in the cache, is what it encloses.                              *)
LEMMA CellsAreFaithful ==
    ASSUME NEW b, BufferOK(b), NEW row \in 0 .. RowCount(b) - 1
    PROVE  CellText(b, row) = row + 1
<1>1. RowCount(b) \in Nat
  BY RowCountType
<1>2. row \in Nat /\ row < RowCount(b)
  BY <1>1
<1> DEFINE si == SlotOf(b, row)
<1>3. si \in 1 .. Len(b.slots) /\ b.offsets[si] <= row /\ row < b.offsets[si + 1]
  BY <1>2, SlotEncloses
<1> HIDE DEF si
<1>4. Readable(b, si) /\ SlotBatch(b, si) = Enclosed(b, si)
  BY <1>3, SlotsAreReadable
<1>5. Enclosed(b, si)[row - b.offsets[si] + 1] = row + 1
  BY <1>2, <1>3, EnclosedType
<1> QED
  BY <1>4, <1>5 DEF CellText, si

(* Offsets that rise still do with a larger one at their end.              *)
LEMMA RisingAppend ==
    ASSUME NEW o \in Seq(Nat), NEW L \in Nat, Len(o) = L + 1, o[1] = 0,
           \A i, j \in 1 .. L + 1 : i < j => o[i] < o[j],
           \A i \in 1 .. L + 1 : o[i] <= o[L + 1],
           NEW last \in Nat, last > o[L + 1],
           NEW p, p = Append(o, last)
    PROVE  /\ Len(p) = L + 2
           /\ \A i \in 1 .. L + 1 : p[i] = o[i]
           /\ p[L + 2] = last
           /\ p[1] = 0
           /\ \A i, j \in 1 .. L + 2 : i < j => p[i] < p[j]
<1>1. /\ Len(p) = L + 2
      /\ \A i \in 1 .. L + 1 : p[i] = o[i]
      /\ p[L + 2] = last
  OBVIOUS
<1>2. \A i \in 1 .. L + 1 : o[i] \in Nat
  OBVIOUS
<1>3. p[1] = 0
  BY <1>1
<1>4. ASSUME NEW i \in 1 .. L + 2, NEW j \in 1 .. L + 2, i < j
      PROVE  p[i] < p[j]
  <2>0. i \in 1 .. L + 1 /\ (j \in 1 .. L + 1 \/ j = L + 2)
    BY <1>4
  <2>1. CASE j = L + 2
    BY <2>0, <2>1, <1>1, <1>2
  <2>2. CASE j \in 1 .. L + 1
    BY <2>0, <2>2, <1>4, <1>1
  <2> QED
    BY <2>0, <2>1, <2>2
<1> QED
  BY <1>1, <1>3, <1>4

(* A push adds one slot and one offset; what was there keeps its place.    *)
LEMMA PushedSlot ==
    ASSUME NEW b, BufferOK(b), NEW n \in Nat \ {0}, NEW slot \in SlotSet,
           NEW c, c \in Buffers,
           c.slots = Append(b.slots, slot), c.offsets = CommitOffset(b, n),
           c.cache = b.cache,
           c.files = b.files, Len(c.files) \in {c.spillFiles, c.spillFiles + 1},
           c.spillFiles >= b.spillFiles,
           IF slot.mem THEN slot.batch = Stretch(RowCount(b), n)
           ELSE /\ slot.file < c.spillFiles
                /\ c.files[slot.file + 1] = Whole(Stretch(RowCount(b), n))
    PROVE  BufferOK(c) /\ RowCount(c) = RowCount(b) + n
<1> DEFINE L == Len(b.slots)
<1>1. /\ OffsetsOK(b) /\ SlotsOK(b) /\ FilesOK(b)
      /\ b.slots \in Seq(SlotSet) /\ b.offsets \in Seq(Nat)
      /\ RowCount(b) \in Nat /\ L \in Nat /\ Len(b.offsets) = L + 1
      /\ \A i \in 1 .. L + 1 : b.offsets[i] \in Nat /\ b.offsets[i] <= RowCount(b)
      /\ \A i, j \in 1 .. L + 1 : i < j => b.offsets[i] < b.offsets[j]
      /\ b.offsets[1] = 0
      /\ b.spillFiles \in Nat /\ c.spillFiles \in Nat
  <2>1. b \in Buffers /\ OffsetsOK(b) /\ SlotsOK(b) /\ FilesOK(b)
    BY DEF BufferOK
  <2>2. /\ b.slots \in Seq(SlotSet) /\ b.offsets \in Seq(Nat)
        /\ b.spillFiles \in Nat /\ c.spillFiles \in Nat
    BY <2>1 DEF Buffers
  <2>3. L \in Nat /\ Len(b.offsets) = L + 1
    BY <2>1, <2>2 DEF OffsetsOK
  <2>4. /\ RowCount(b) \in Nat
        /\ \A i \in 1 .. L + 1 : b.offsets[i] \in Nat /\ b.offsets[i] <= RowCount(b)
    BY <2>3, RowCountType
  <2> QED
    BY <2>1, <2>2, <2>3, <2>4 DEF OffsetsOK
<1>2. /\ Len(c.slots) = L + 1
      /\ \A i \in 1 .. L : c.slots[i] = b.slots[i]
      /\ c.slots[L + 1] = slot
  BY <1>1
<1> DEFINE last == RowCount(b) + n
<1>3. /\ Len(c.offsets) = L + 2
      /\ \A i \in 1 .. L + 1 : c.offsets[i] = b.offsets[i]
      /\ c.offsets[L + 2] = last
      /\ c.offsets[1] = 0
      /\ \A i, j \in 1 .. L + 2 : i < j => c.offsets[i] < c.offsets[j]
  <2>1. c.offsets = Append(b.offsets, last)
    BY DEF CommitOffset
  <2>2. last \in Nat /\ RowCount(b) = b.offsets[L + 1]
    BY <1>1 DEF RowCount
  <2>3. last > b.offsets[L + 1]
    BY <2>2, <1>1
  <2>4. \A i \in 1 .. L + 1 : b.offsets[i] <= b.offsets[L + 1]
    BY <2>2, <1>1
  <2>5. /\ b.offsets \in Seq(Nat) /\ L \in Nat /\ Len(b.offsets) = L + 1 /\ b.offsets[1] = 0
        /\ \A i, j \in 1 .. L + 1 : i < j => b.offsets[i] < b.offsets[j]
    BY <1>1
  <2> HIDE DEF last, L
  <2> QED
    BY ONLY <2>1, <2>2, <2>3, <2>4, <2>5, RisingAppend
<1>4. c.offsets[L + 1] = RowCount(b)
  <2>1. L + 1 \in 1 .. L + 1
    BY <1>1
  <2>2. RowCount(b) = b.offsets[L + 1]
    BY <1>1 DEF RowCount
  <2> QED
    BY <2>1, <2>2, <1>3
<1>5. RowCount(c) = RowCount(b) + n
  BY <1>3 DEF RowCount
<1>6. OffsetsOK(c)
  <2>1. Len(c.offsets) = Len(c.slots) + 1
    BY <1>1, <1>2, <1>3
  <2> QED
    BY <2>1, <1>3 DEF OffsetsOK
<1>7. ASSUME NEW i \in 1 .. L PROVE Enclosed(c, i) = Enclosed(b, i)
  <2>1. i \in 1 .. L + 1 /\ i + 1 \in 1 .. L + 1
    BY <1>1
  <2>2. c.offsets[i] = b.offsets[i] /\ c.offsets[i + 1] = b.offsets[i + 1]
    BY <2>1, <1>3
  <2> QED
    BY <2>2 DEF Enclosed
<1>8. Enclosed(c, L + 1) = Stretch(RowCount(b), n)
  <2>1. (L + 1) + 1 = L + 2 /\ (RowCount(b) + n) - RowCount(b) = n
    BY <1>1
  <2> QED
    BY <2>1, <1>3, <1>4 DEF Enclosed
<1>9. SlotsOK(c)
  <2>1. ASSUME NEW i \in 1 .. L + 1
        PROVE  IF c.slots[i].mem THEN c.slots[i].batch = Enclosed(c, i)
               ELSE /\ c.slots[i].file < c.spillFiles
                    /\ c.files[c.slots[i].file + 1] = Whole(Enclosed(c, i))
    <3>1. CASE i = L + 1
      BY <3>1, <1>2, <1>8
    <3>2. CASE i \in 1 .. L
      <4>1. c.slots[i] = b.slots[i] /\ Enclosed(c, i) = Enclosed(b, i)
        BY <3>2, <1>2, <1>7
      <4>2. b.slots[i] \in SlotSet
        BY <3>2, <1>1
      <4>3. b.slots[i].file \in Nat
        BY <4>2 DEF SlotSet
      <4>4. IF b.slots[i].mem THEN b.slots[i].batch = Enclosed(b, i)
            ELSE /\ b.slots[i].file < b.spillFiles
                 /\ b.files[b.slots[i].file + 1] = Whole(Enclosed(b, i))
        BY <3>2, <1>1 DEF SlotsOK
      <4>5. b.slots[i].file < b.spillFiles => b.slots[i].file < c.spillFiles
        <5>1. b.spillFiles \in Nat /\ c.spillFiles \in Nat /\ c.spillFiles >= b.spillFiles
          BY <1>1
        <5> QED
          BY ONLY <4>3, <5>1
      <4> QED
        BY <4>1, <4>4, <4>5
    <3> QED
      BY <3>1, <3>2, <1>1
  <2> QED
    BY <2>1, <1>2 DEF SlotsOK
<1>10. FilesOK(c)
  <2>1. b.cache # NoCache => c.cache.slot \in 1 .. Len(c.slots) /\ c.cache.batch = Enclosed(c, c.cache.slot)
    BY <1>1, <1>2, <1>7 DEF FilesOK
  <2> QED
    BY <2>1 DEF FilesOK
<1> QED
  BY <1>5, <1>6, <1>9, <1>10 DEF BufferOK

(* push of a batch that stays in memory.                                   *)
LEMMA CommitMemIsOK ==
    ASSUME NEW b, BufferOK(b), NEW n \in Nat \ {0}, NEW batch, batch = Stretch(RowCount(b), n)
    PROVE  /\ BufferOK(CommitMem(b, batch))
           /\ RowCount(CommitMem(b, batch)) = RowCount(b) + n
<1> DEFINE c == CommitMem(b, batch)
           slot == Mem(batch)
<1>1. /\ RowCount(b) \in Nat /\ b \in Buffers /\ FilesOK(b)
      /\ b.slots \in Seq(SlotSet) /\ b.offsets \in Seq(Nat) /\ b.memRows \in Nat
      /\ b.spillFiles \in Nat
  BY RowCountType DEF BufferOK, Buffers
<1>2. batch \in Seq(Nat) /\ Len(batch) = n
  BY <1>1, StretchType
<1>3. slot \in SlotSet /\ slot.mem /\ slot.batch = batch
  BY <1>2 DEF SlotSet, Mem
<1>4. CommitOffset(b, n) \in Seq(Nat)
  BY <1>1 DEF CommitOffset
<1>5. /\ c.slots = Append(b.slots, slot) /\ c.offsets = CommitOffset(b, n)
      /\ c.cache = b.cache /\ c.files = b.files /\ c.spillFiles = b.spillFiles
  BY <1>1, <1>2 DEF CommitMem, Buffers
<1>6. c \in Buffers
  <2>1. Append(b.slots, slot) \in Seq(SlotSet) /\ b.memRows + Len(batch) \in Nat
    BY <1>1, <1>2, <1>3
  <2> HIDE DEF slot
  <2> QED
    BY <2>1, <1>1, <1>2, <1>4 DEF CommitMem, Buffers, slot
<1>7. Len(c.files) \in {c.spillFiles, c.spillFiles + 1} /\ c.spillFiles >= b.spillFiles
  BY <1>1, <1>5 DEF FilesOK
<1> HIDE DEF c, slot
<1>8. BufferOK(c) /\ RowCount(c) = RowCount(b) + n
  BY <1>3, <1>5, <1>6, <1>7, PushedSlot
<1> QED
  BY <1>8 DEF c

(* push of a batch whose file was written: the file becomes a slot only    *)
(* when it is whole.                                                       *)
LEMMA CommitSpillIsOK ==
    ASSUME NEW b, BufferOK(b), NEW n \in Nat \ {0}, NEW ix, ix = b.spillFiles,
           Len(b.files) = ix + 1, b.files[ix + 1] = Whole(Stretch(RowCount(b), n))
    PROVE  /\ BufferOK(CommitSpill(b, ix, n))
           /\ RowCount(CommitSpill(b, ix, n)) = RowCount(b) + n
<1> DEFINE c == CommitSpill(b, ix, n)
           slot == Spilled(ix)
<1>1. /\ RowCount(b) \in Nat /\ b \in Buffers
      /\ b.slots \in Seq(SlotSet) /\ b.offsets \in Seq(Nat) /\ b.spillFiles \in Nat
  BY RowCountType DEF BufferOK, Buffers
<1>3. slot \in SlotSet /\ ~slot.mem /\ slot.file = ix
  BY <1>1 DEF SlotSet, Spilled
<1>4. CommitOffset(b, n) \in Seq(Nat)
  BY <1>1 DEF CommitOffset
<1>5. /\ c.slots = Append(b.slots, slot) /\ c.offsets = CommitOffset(b, n)
      /\ c.cache = b.cache /\ c.files = b.files /\ c.spillFiles = b.spillFiles + 1
  BY <1>1 DEF CommitSpill, Buffers
<1>6. c \in Buffers
  <2>1. Append(b.slots, slot) \in Seq(SlotSet) /\ b.spillFiles + 1 \in Nat
    BY <1>1, <1>3
  <2> HIDE DEF slot
  <2> QED
    BY <2>1, <1>1, <1>4 DEF CommitSpill, Buffers, slot
<1>7. /\ Len(c.files) \in {c.spillFiles, c.spillFiles + 1} /\ c.spillFiles >= b.spillFiles
      /\ slot.file < c.spillFiles
      /\ c.files[slot.file + 1] = Whole(Stretch(RowCount(b), n))
  BY <1>1, <1>3, <1>5
<1> HIDE DEF c, slot
<1>8. BufferOK(c) /\ RowCount(c) = RowCount(b) + n
  BY <1>3, <1>5, <1>6, <1>7, PushedSlot
<1> QED
  BY <1>8 DEF c

(* What does not touch the slots keeps the buffer as good as it was, if    *)
(* the files in use and the cache are still right.                         *)
LEMMA SameSlots ==
    ASSUME NEW b, BufferOK(b), NEW c \in Buffers,
           c.slots = b.slots, c.offsets = b.offsets, c.spillFiles = b.spillFiles,
           \A f \in 1 .. b.spillFiles : c.files[f] = b.files[f],
           Len(c.files) \in {c.spillFiles, c.spillFiles + 1},
           \/ c.cache = b.cache
           \/ c.cache.slot \in 1 .. Len(b.slots) /\ c.cache.batch = Enclosed(b, c.cache.slot)
    PROVE  BufferOK(c) /\ RowCount(c) = RowCount(b)
<1>1. /\ OffsetsOK(b) /\ SlotsOK(b) /\ FilesOK(b) /\ b.slots \in Seq(SlotSet)
      /\ b.spillFiles \in Nat
  BY DEF BufferOK, Buffers
<1>2. RowCount(c) = RowCount(b) /\ OffsetsOK(c)
  BY <1>1 DEF RowCount, OffsetsOK
<1>3. \A i : Enclosed(c, i) = Enclosed(b, i)
  BY DEF Enclosed
<1>4. SlotsOK(c)
  <2>1. ASSUME NEW i \in 1 .. Len(b.slots), ~b.slots[i].mem
        PROVE  c.files[b.slots[i].file + 1] = b.files[b.slots[i].file + 1]
    <3>1. b.slots[i] \in SlotSet
      BY <1>1
    <3>2. b.slots[i].file \in Nat
      BY <3>1 DEF SlotSet
    <3>3. b.slots[i].file < b.spillFiles
      BY <2>1, <1>1 DEF SlotsOK
    <3>4. b.slots[i].file + 1 \in 1 .. b.spillFiles
      BY <3>2, <3>3, <1>1
    <3> QED
      BY <3>4
  <2> QED
    BY <2>1, <1>1, <1>3 DEF SlotsOK
<1>5. FilesOK(c)
  BY <1>1, <1>3 DEF FilesOK
<1> QED
  BY <1>2, <1>4, <1>5 DEF BufferOK

(* begin_push of a batch that spills: an index is used up, no row is       *)
(* added.                                                                  *)
LEMMA BeginSpillIsOK ==
    ASSUME NEW b, BufferOK(b)
    PROVE  /\ BufferOK(BeginSpill(b)) /\ RowCount(BeginSpill(b)) = RowCount(b)
           /\ BeginSpill(b).spillFiles = b.spillFiles
<1> DEFINE c == BeginSpill(b)
<1>1. b \in Buffers /\ FilesOK(b)
  BY DEF BufferOK
<1>2. c \in Buffers
  BY <1>1 DEF BeginSpill, Buffers
<1>3. /\ c.slots = b.slots /\ c.offsets = b.offsets /\ c.spillFiles = b.spillFiles
      /\ c.files = b.files /\ c.cache = b.cache
  BY <1>1 DEF BeginSpill, Buffers
<1>4. Len(c.files) \in {c.spillFiles, c.spillFiles + 1}
  BY <1>1, <1>3 DEF FilesOK
<1> HIDE DEF c
<1>5. BufferOK(c) /\ RowCount(c) = RowCount(b)
  BY <1>2, <1>3, <1>4, SameSlots
<1> QED
  BY <1>3, <1>5 DEF c

(* The write of a spill file touches the file of its index alone, which no *)
(* slot names.                                                             *)
LEMMA WriteIsOK ==
    ASSUME NEW b, BufferOK(b), NEW ix, ix = b.spillFiles, NEW content \in FileSet
    PROVE  /\ BufferOK(Write(b, ix, content)) /\ RowCount(Write(b, ix, content)) = RowCount(b)
           /\ Write(b, ix, content).spillFiles = b.spillFiles
           /\ Len(Write(b, ix, content).files) = ix + 1
           /\ Write(b, ix, content).files[ix + 1] = content
<1> DEFINE c == Write(b, ix, content)
           f == IF ix < Len(b.files) THEN [b.files EXCEPT ![ix + 1] = content]
                                     ELSE Append(b.files, content)
<1>1. b \in Buffers /\ FilesOK(b) /\ b.files \in Seq(FileSet) /\ ix \in Nat
      /\ Len(b.files) \in {ix, ix + 1}
  BY DEF BufferOK, FilesOK, Buffers
<1>2. /\ f \in Seq(FileSet) /\ Len(f) = ix + 1 /\ f[ix + 1] = content
      /\ \A k \in 1 .. ix : f[k] = b.files[k]
  <2>1. CASE ix < Len(b.files)
    <3>1. f = [b.files EXCEPT ![ix + 1] = content] /\ Len(b.files) = ix + 1
      BY <2>1, <1>1
    <3>2. ix + 1 \in 1 .. Len(b.files)
      BY <3>1, <1>1
    <3> HIDE DEF f
    <3> QED
      BY <3>1, <3>2, <1>1, ExceptSeq
  <2>2. CASE ~(ix < Len(b.files))
    <3>1. f = Append(b.files, content) /\ Len(b.files) = ix
      BY <2>2, <1>1
    <3> HIDE DEF f
    <3> QED
      BY <3>1, <1>1, AppendProperties
  <2> QED
    BY <2>1, <2>2
<1>3. /\ c.slots = b.slots /\ c.offsets = b.offsets /\ c.spillFiles = b.spillFiles
      /\ c.files = f /\ c.cache = b.cache
  BY <1>1 DEF Write, Buffers
<1>4. c \in Buffers
  <2> HIDE DEF f
  <2>1. c = [b EXCEPT !.files = f]
    BY DEF Write, f
  <2> QED
    BY <2>1, <1>1, <1>2 DEF Buffers
<1>5. \A k \in 1 .. b.spillFiles : c.files[k] = b.files[k]
  BY <1>2, <1>3
<1>6. Len(c.files) \in {c.spillFiles, c.spillFiles + 1}
  BY <1>2, <1>3
<1> HIDE DEF c, f
<1>7. BufferOK(c) /\ RowCount(c) = RowCount(b)
  BY <1>3, <1>4, <1>5, <1>6, SameSlots
<1> QED
  BY <1>2, <1>3, <1>7 DEF c

(* A read leaves in the cache the slot it has read.                        *)
LEMMA AfterReadIsOK ==
    ASSUME NEW b, BufferOK(b), NEW row \in 0 .. RowCount(b) - 1
    PROVE  LET c == AfterRead(b, SlotOf(b, row))
           IN /\ BufferOK(c) /\ RowCount(c) = RowCount(b)
              /\ c.spillFiles = b.spillFiles /\ c.files = b.files
<1> DEFINE si == SlotOf(b, row)
           c == AfterRead(b, si)
<1>1. RowCount(b) \in Nat
  BY RowCountType
<1>2. si \in 1 .. Len(b.slots)
  BY <1>1, SlotEncloses
<1> HIDE DEF si
<1>3. Readable(b, si) /\ SlotBatch(b, si) = Enclosed(b, si)
  BY <1>2, SlotsAreReadable
<1>4. CASE c = b
  BY <1>4 DEF si
<1>5. CASE c # b
  <2>1. c = [b EXCEPT !.cache = [slot |-> si, batch |-> Enclosed(b, si)]]
    BY <1>3, <1>5 DEF AfterRead
  <2>2. b \in Buffers /\ FilesOK(b)
    BY DEF BufferOK
  <2>3. Enclosed(b, si) \in Seq(Nat) /\ si \in Nat
    BY <1>2, EnclosedType
  <2>4. c \in Buffers
    <3> HIDE DEF c
    <3>1. [slot |-> si, batch |-> Enclosed(b, si)] \in [slot : Nat, batch : Seq(Nat)]
      BY <2>3
    <3> QED
      BY <2>1, <2>2, <3>1 DEF Buffers
  <2>5. /\ c.slots = b.slots /\ c.offsets = b.offsets /\ c.spillFiles = b.spillFiles
        /\ c.files = b.files
        /\ c.cache.slot = si /\ c.cache.batch = Enclosed(b, si)
    BY <2>1, <2>2 DEF Buffers
  <2>6. Len(c.files) \in {c.spillFiles, c.spillFiles + 1}
    BY <2>2, <2>5 DEF FilesOK
  <2> HIDE DEF c
  <2>7. BufferOK(c) /\ RowCount(c) = RowCount(b)
    BY <1>2, <2>4, <2>5, <2>6, SameSlots
  <2> QED
    BY <2>5, <2>7 DEF c, si
<1> QED
  BY <1>4, <1>5

-----------------------------------------------------------------------------
(* The invariant of a run.                                                 *)

(* The types of the events, of a spill in flight and of the history.       *)
Kinds == {"none", "Started", "Batch", "Finished", "WriteFinished", "Failed"}
Terminal == {"Finished", "WriteFinished", "Failed"}
EventSet == [ev : Kinds, rows : Seq(Nat)]
SpillSet == [rows : Seq(Nat), ix : Nat, state : {"none", "writing", "written", "failed"}]
Entries == [ok : BOOLEAN, rows : Nat]

(* The types of the variables, and what the tab's token and generation may *)
(* be.                                                                     *)
Types ==
    /\ editorOpen \in BOOLEAN
    /\ generation \in 0 .. MaxRuns
    /\ cancel \in {NoRun, generation}
    /\ results \subseteq 1 .. generation
    /\ fired \subseteq 1 .. generation
    /\ status \in [run : 0 .. MaxRuns, says : News]
    /\ at \in [Runs -> Places]
    /\ out \in [Runs -> EventSet]
    /\ chan \in [Runs -> Seq(EventSet)]
    /\ made \in [Runs -> Nat]
    /\ over \in [Runs -> BOOLEAN]
    /\ loop \in [Runs -> {"none", "recv", "spill", "done"}]
    /\ spill \in [Runs -> SpillSet]
    /\ errored \in [Runs -> BOOLEAN]
    /\ history \in [Runs -> Seq(Entries)]
    /\ DOMAIN buf = Runs /\ buf = [r \in Runs |-> buf[r]]

(* The rows the buffer of run r has.                                       *)
Stored(r) == RowCount(buf[r])

(* A run that has not begun has left nothing anywhere.                     *)
BegunOK(r) ==
    /\ r > generation => at[r] = "none"
    /\ at[r] = "none" <=> loop[r] = "none"

(* Where the task is says what it is sending and what it has sent.         *)
TaskOK(r) ==
    /\ at[r] \in {"send", "last"} <=> out[r].ev # "none"
    /\ at[r] = "last" => out[r].ev = "Failed"
    /\ out[r].ev = "Batch" <=> out[r].rows # <<>>
    /\ at[r] \in {"none", "start", "opening", "query"} => made[r] = 0 /\ chan[r] = <<>>
    /\ out[r].ev = "Started" => made[r] = 0 /\ chan[r] = <<>>
    /\ out[r].ev \in {"Finished", "WriteFinished"} => over[r]
    /\ out[r].ev = "WriteFinished" => made[r] = 0

(* Started comes first and one terminal event last; a loop that waits for  *)
(* a task that has ended has a terminal event before it, or behind it.     *)
ChanOK(r) ==
    /\ Len(chan[r]) <= ChanCap
    /\ \A i \in 1 .. Len(chan[r]) :
         /\ chan[r][i].ev = "Batch" <=> chan[r][i].rows # <<>>
         /\ chan[r][i].ev = "Started" => i = 1 /\ loop[r] = "recv" /\ Stored(r) = 0 /\ ~errored[r]
         /\ chan[r][i].ev \in Terminal => i = Len(chan[r]) /\ at[r] \in {"closing", "done"}
         /\ chan[r][i].ev \in {"Finished", "WriteFinished"} => over[r]
         /\ chan[r][i].ev = "WriteFinished" => made[r] = 0
    /\ loop[r] = "done" => chan[r] = <<>>
    /\ loop[r] \in {"recv", "spill"} /\ at[r] \in {"closing", "done"} /\ history[r] = <<>>
         => chan[r] # <<>> /\ chan[r][Len(chan[r])].ev \in Terminal

(* A spill in flight holds the next rows and the index it will use up.     *)
SpillOK(r) ==
    /\ loop[r] = "spill" <=> spill[r].state # "none"
    /\ errored[r] => made[r] > 0
    /\ loop[r] = "spill" =>
         /\ ~errored[r] /\ history[r] = <<>>
         /\ spill[r].ix = buf[r].spillFiles
         /\ spill[r].rows # <<>>
         /\ spill[r].rows = Stretch(Stored(r), Len(spill[r].rows))
    /\ spill[r].state = "written" =>
         /\ Len(buf[r].files) = spill[r].ix + 1
         /\ buf[r].files[spill[r].ix + 1] = Whole(spill[r].rows)

(* The rows the loop has taken so far.                                     *)
Taken(r) == Stored(r) + (IF loop[r] = "spill" THEN Len(spill[r].rows) ELSE 0)

(* Event i of s brings the rows from p[i - 1] to p[i].                      *)
InLine(s, p, i) ==
    /\ p[i] = p[i - 1] + Len(s[i].rows)
    /\ s[i].rows = Stretch(p[i - 1], Len(s[i].rows))

(* Where the task stands, at the end p of the line.                        *)
Stands(r, end) ==
    /\ at[r] = "stream" => end = made[r]
    /\ at[r] = "send" => /\ end + Len(out[r].rows) = made[r]
                         /\ out[r].rows = Stretch(end, Len(out[r].rows))

(* p[i] is where the stream stands after i events of the channel: each     *)
(* batch is the next stretch of it, and the one being sent follows.        *)
Line(r, p) ==
    LET L == Len(chan[r]) IN
    /\ p[0] = Taken(r)
    /\ \A i \in 1 .. L : InLine(chan[r], p, i)
    /\ Stands(r, p[L])
    /\ L > 0 /\ chan[r][L].ev \in {"Finished", "WriteFinished"} => p[L] = made[r]

(* While the loop stores rows the events on their way are in line.         *)
LineOK(r) ==
    /\ Stored(r) <= made[r]
    /\ loop[r] \in {"recv", "spill"} /\ ~errored[r] =>
         \E p \in [0 .. Len(chan[r]) -> 0 .. made[r]] : Line(r, p)

(* The terminal event was the last, and what a success says still holds.   *)
HistoryOK(r) ==
    /\ history[r] # <<>> => /\ Len(history[r]) = 1 /\ chan[r] = <<>>
                            /\ at[r] \in {"closing", "done"}
                            /\ loop[r] \in {"recv", "done"}
    /\ \A i \in 1 .. Len(history[r]) : history[r][i].ok =>
         /\ over[r]
         /\ history[r][i].rows = made[r]
         /\ loop[r] = "recv" \/ r \in results => Stored(r) = made[r]
    /\ loop[r] = "done" => \/ history[r] # <<>>
                           \/ ~editorOpen
                           \/ made[r] > 0 /\ r \notin results

(* What holds of every run.                                                *)
RunOK(r) ==
    /\ BegunOK(r) /\ TaskOK(r) /\ ChanOK(r) /\ SpillOK(r) /\ LineOK(r) /\ HistoryOK(r)
    /\ BufferOK(buf[r])

(* The invariant of the runs.                                              *)
IInv == Types /\ \A r \in Runs : RunOK(r)

(* What a step that is not its own may do to a run: let go of its buffer   *)
(* when nobody holds it, close its result tab, close the editor tab.       *)
Apart(q) ==
    /\ at'[q] = at[q] /\ out'[q] = out[q] /\ chan'[q] = chan[q]
    /\ made'[q] = made[q] /\ over'[q] = over[q] /\ loop'[q] = loop[q]
    /\ spill'[q] = spill[q] /\ errored'[q] = errored[q] /\ history'[q] = history[q]
    /\ \/ buf'[q] = buf[q]
       \/ buf'[q] = NewBuffer /\ loop[q] \notin {"recv", "spill"} /\ q \notin results'
    /\ q \in results' => q \in results
    /\ editorOpen' => editorOpen
    /\ q > generation' => q > generation

(* What another run, or the user, may do to a run leaves its invariant     *)
(* intact.                                                                 *)
LEMMA ApartKeeps ==
    ASSUME NEW q \in Runs, Types, RunOK(q), Apart(q)
    PROVE  RunOK(q)'
<1>1. made[q] \in Nat /\ loop[q] \in {"none", "recv", "spill", "done"}
      /\ history[q] \in Seq(Entries)
      /\ (spill[q].state # "none" <=> loop[q] = "spill")
  BY DEF Types, RunOK, SpillOK
<1>2. CASE buf'[q] = buf[q]
  <2>1. BegunOK(q)'
    BY DEF Apart, RunOK, BegunOK
  <2>2. TaskOK(q)'
    BY DEF Apart, RunOK, TaskOK
  <2>3. ChanOK(q)'
    BY <1>2 DEF Apart, RunOK, ChanOK, Stored
  <2>4. SpillOK(q)'
    BY <1>2 DEF Apart, RunOK, SpillOK, Stored
  <2>5. LineOK(q)'
    BY <1>2 DEF Apart, RunOK, LineOK, Line, Stands, Taken, Stored
  <2>6. HistoryOK(q)'
    BY <1>2 DEF Apart, RunOK, HistoryOK, Stored
  <2>7. BufferOK(buf[q])'
    BY <1>2 DEF RunOK
  <2> QED
    BY <2>1, <2>2, <2>3, <2>4, <2>5, <2>6, <2>7 DEF RunOK
<1>3. CASE buf'[q] = NewBuffer /\ loop[q] \notin {"recv", "spill"} /\ q \notin results'
  <2>0. BufferOK(buf'[q]) /\ RowCount(buf'[q]) = 0
    BY <1>3, NewBufferIsOK
  <2>1. BegunOK(q)'
    BY DEF Apart, RunOK, BegunOK
  <2>2. TaskOK(q)'
    BY DEF Apart, RunOK, TaskOK
  <2>3. ChanOK(q)'
    BY <1>3 DEF Apart, RunOK, ChanOK, Stored
  <2>4. SpillOK(q)'
    BY <1>1, <1>3 DEF Apart, RunOK, SpillOK, Stored
  <2>5. LineOK(q)'
    BY <1>1, <1>3, <2>0 DEF Apart, RunOK, LineOK, Stored
  <2>6. HistoryOK(q)'
    BY <1>3 DEF Apart, RunOK, HistoryOK, Stored
  <2> QED
    BY <2>0, <2>1, <2>2, <2>3, <2>4, <2>5, <2>6 DEF RunOK
<1> QED
  BY <1>2, <1>3 DEF Apart

(* The invariant holds before the first run.                               *)
LEMMA InitHolds == Init => IInv
<1> SUFFICES ASSUME Init PROVE IInv
  OBVIOUS
<1>1. MaxRuns \in Nat \ {0} /\ ChanCap \in Nat \ {0}
  BY EditorRunAssumption
<1>2. Event("none", <<>>) \in EventSet /\ NoSpill \in SpillSet /\ NoStatus \in [run : 0 .. MaxRuns, says : News]
  BY <1>1 DEF Event, EventSet, Kinds, NoSpill, SpillSet, NoStatus, NoRun, News
<1>3. Types
  BY <1>1, <1>2 DEF Init, Types, NoRun, Places, Runs
<1>4. ASSUME NEW r \in Runs PROVE RunOK(r)
  <2>1. /\ at[r] = "none" /\ out[r] = Event("none", <<>>) /\ chan[r] = <<>> /\ made[r] = 0
        /\ over[r] = FALSE /\ loop[r] = "none" /\ buf[r] = NewBuffer /\ spill[r] = NoSpill
        /\ errored[r] = FALSE /\ history[r] = <<>> /\ Len(chan[r]) = 0 /\ Len(history[r]) = 0
    BY DEF Init
  <2>2. Stored(r) = 0 /\ BufferOK(buf[r])
    BY <2>1, NewBufferIsOK DEF Stored
  <2>3. BegunOK(r) /\ TaskOK(r) /\ ChanOK(r)
    BY <1>1, <2>1, <2>2 DEF BegunOK, TaskOK, ChanOK, Event
  <2>4. SpillOK(r) /\ LineOK(r) /\ HistoryOK(r)
    BY <2>1, <2>2 DEF SpillOK, LineOK, HistoryOK, NoSpill
  <2> QED
    BY <2>2, <2>3, <2>4 DEF RunOK
<1> QED
  BY <1>3, <1>4 DEF IInv

-----------------------------------------------------------------------------
(* Types.                                                                  *)

(* The five events are events.                                             *)
LEMMA EventTypes ==
    /\ Started \in EventSet /\ Finished \in EventSet /\ Wrote \in EventSet /\ Failed \in EventSet
    /\ Event("none", <<>>) \in EventSet
    /\ \A rows \in Seq(Nat) : Event("Batch", rows) \in EventSet
BY DEF Started, Finished, Wrote, Failed, Event, EventSet, Kinds

(* A step of the task keeps the types if it keeps those of its own         *)
(* variables.                                                              *)
LEMMA TaskTyped ==
    ASSUME Types, UNCHANGED <<editor, ui>>, fired' \subseteq 1 .. generation,
           at' \in [Runs -> Places], out' \in [Runs -> EventSet], chan' \in [Runs -> Seq(EventSet)],
           made' \in [Runs -> Nat], over' \in [Runs -> BOOLEAN]
    PROVE  Types'
BY DEF Types, editor, ui

(* The steps of the task, of its driver and of its timer keep the types.   *)
LEMMA TaskTypes ==
    ASSUME Types, NEW r \in Runs, RunOK(r), Runner(r) \/ Driver(r) \/ Expire(r)
    PROVE  Types'
<1>1. /\ Started \in EventSet /\ Finished \in EventSet /\ Wrote \in EventSet /\ Failed \in EventSet
      /\ Event("none", <<>>) \in EventSet
  BY EventTypes
<1>2. {"start", "opening", "query", "stream", "send", "last", "closing", "done"} \subseteq Places
  BY DEF Places
<1>0. /\ at \in [Runs -> Places] /\ out \in [Runs -> EventSet] /\ chan \in [Runs -> Seq(EventSet)]
      /\ made \in [Runs -> Nat] /\ over \in [Runs -> BOOLEAN] /\ fired \subseteq 1 .. generation
  BY DEF Types
<1>10. ASSUME NEW place \in Places, NEW ev \in EventSet, Send(r, place, ev)
       PROVE  at' \in [Runs -> Places] /\ out' \in [Runs -> EventSet]
  BY <1>0, <1>10 DEF Send
<1>11. ASSUME NEW place \in Places, Go(r, place)
       PROVE  at' \in [Runs -> Places] /\ out' \in [Runs -> EventSet]
  BY <1>0, <1>11 DEF Go
<1>3. CASE CheckCancel(r)
  <2>1. at' \in [Runs -> Places] /\ out' \in [Runs -> EventSet]
    <3>1. Send(r, "last", Failed) \/ Go(r, "opening")
      BY <1>3 DEF CheckCancel
    <3> QED
      BY <3>1, <1>1, <1>2, <1>10, <1>11
  <2> QED
    BY <1>0, <1>3, <2>1, TaskTyped DEF CheckCancel
<1>4. CASE Opened(r)
  <2>1. at' \in [Runs -> Places] /\ out' \in [Runs -> EventSet]
    <3>1. Send(r, "last", Failed) \/ Go(r, "query")
      BY <1>4 DEF Opened
    <3> QED
      BY <3>1, <1>1, <1>2, <1>10, <1>11
  <2> QED
    BY <1>0, <1>4, <2>1, TaskTyped DEF Opened
<1>5. CASE Deliver(r)
  <2>1. Append(chan[r], out[r]) \in Seq(EventSet)
    BY <1>0
  <2>2. chan' = chan \/ chan' = [chan EXCEPT ![r] = Append(chan[r], out[r])]
    BY <1>5 DEF Deliver
  <2>3. chan' \in [Runs -> Seq(EventSet)]
    BY <2>1, <2>2, <1>0
  <2>4. at' \in [Runs -> Places] /\ out' \in [Runs -> EventSet]
    BY <1>0, <1>1, <1>2, <1>5 DEF Deliver
  <2> QED
    BY <1>0, <1>5, <2>3, <2>4, TaskTyped DEF Deliver
<1>6. CASE TaskEnds(r)
  <2>1. at' \in [Runs -> Places] /\ out' \in [Runs -> EventSet]
    BY <1>6, <1>2, <1>11 DEF TaskEnds
  <2> QED
    BY <1>0, <1>6, <2>1, TaskTyped DEF TaskEnds
<1>7. CASE Answered(r)
  <2>1. at' \in [Runs -> Places] /\ out' \in [Runs -> EventSet]
    <3>1. Send(r, "send", Started) \/ Send(r, "send", Failed) \/ Send(r, "send", Wrote)
      BY <1>7 DEF Answered
    <3> QED
      BY <3>1, <1>1, <1>2, <1>10
  <2>2. over' \in [Runs -> BOOLEAN]
    BY <1>0, <1>7 DEF Answered
  <2> QED
    BY <1>0, <1>7, <2>1, <2>2, TaskTyped DEF Answered
<1>8. CASE Streamed(r)
  <2>1. ASSUME NEW n \in BatchSizes,
               Send(r, "send", Event("Batch", [i \in 1 .. n |-> made[r] + i])),
               made' = [made EXCEPT ![r] = @ + n]
        PROVE  /\ out' \in [Runs -> EventSet] /\ made' \in [Runs -> Nat]
               /\ at' \in [Runs -> Places]
    <3>1. n \in Nat /\ made[r] \in Nat
      BY <1>0, EditorRunAssumption
    <3>2. [i \in 1 .. n |-> made[r] + i] \in Seq(Nat)
      BY <3>1
    <3>3. Event("Batch", [i \in 1 .. n |-> made[r] + i]) \in EventSet
      BY <3>2, EventTypes
    <3>4. made' \in [Runs -> Nat]
      BY <2>1, <3>1, <1>0
    <3> QED
      BY <1>2, <1>10, <2>1, <3>3, <3>4
  <2>2. CASE Send(r, "send", Failed) /\ UNCHANGED <<made, over>>
    BY <1>0, <1>1, <1>2, <1>8, <1>10, <2>2, TaskTyped DEF Streamed
  <2>3. CASE Send(r, "send", Finished) /\ over' = [over EXCEPT ![r] = TRUE] /\ UNCHANGED made
    <3>1. over' \in [Runs -> BOOLEAN]
      BY <1>0, <2>3
    <3> QED
      BY <1>0, <1>1, <1>2, <1>8, <1>10, <2>3, <3>1, TaskTyped DEF Streamed
  <2>4. CASE \E n \in BatchSizes :
               /\ Send(r, "send", Event("Batch", [i \in 1 .. n |-> made[r] + i]))
               /\ made' = [made EXCEPT ![r] = @ + n]
               /\ UNCHANGED over
    BY <1>0, <1>8, <2>1, <2>4, TaskTyped DEF Streamed
  <2> QED
    BY <1>8, <2>2, <2>3, <2>4 DEF Streamed
<1>9. CASE Expire(r)
  <2>1. fired' \subseteq 1 .. generation
    <3>1. fired' = fired \cup {r} /\ at[r] # "none"
      BY <1>9 DEF Expire
    <3>2. r <= generation /\ r \in 1 .. MaxRuns /\ generation \in 0 .. MaxRuns
      BY <3>1 DEF RunOK, BegunOK, Types, Runs
    <3>3. r \in 1 .. generation
      BY <3>2
    <3> QED
      BY <3>1, <3>3, <1>0
  <2>2. at' \in [Runs -> Places] /\ out' \in [Runs -> EventSet]
    BY <1>1, <1>2, <1>9, <1>10 DEF Expire
  <2> QED
    BY <1>0, <1>9, <2>1, <2>2, TaskTyped DEF Expire
<1> QED
  BY <1>3, <1>4, <1>5, <1>6, <1>7, <1>8, <1>9 DEF Runner, Driver

Tab == editorOpen \in BOOLEAN /\ generation \in 0 .. MaxRuns /\ cancel \in {NoRun, generation}
       /\ results \subseteq 1 .. generation /\ fired \subseteq 1 .. generation
       /\ status \in [run : 0 .. MaxRuns, says : News]

(* Held keeps the buffers that somebody looks at, and replaces the others. *)
LEMMA HeldShape ==
    ASSUME NEW bs, NEW lp, NEW tabs
    PROVE  /\ DOMAIN Held(bs, lp, tabs) = Runs
           /\ Held(bs, lp, tabs) = [q \in Runs |-> Held(bs, lp, tabs)[q]]
           /\ \A q \in Runs : Held(bs, lp, tabs)[q]
                 = IF lp[q] \in {"recv", "spill"} \/ q \in tabs THEN bs[q] ELSE NewBuffer
BY DEF Held

(* What the assumptions on the constants say of runs and of the status     *)
(* line.                                                                   *)
LEMMA ParamTypes ==
    /\ MaxRuns \in Nat \ {0} /\ ChanCap \in Nat \ {0}
    /\ \A r \in Runs : r \in Nat /\ r >= 1 /\ r <= MaxRuns /\ r # NoRun
    /\ NoStatus \in [run : 0 .. MaxRuns, says : News]
    /\ \A r \in 0 .. MaxRuns, n \in News : [run |-> r, says |-> n] \in [run : 0 .. MaxRuns, says : News]
    /\ {"none", "news", "spill error"} = News
BY EditorRunAssumption DEF Runs, NoRun, NoStatus, News

(* The types of what the parts of an arm of the event loop assign.         *)
LEMMA StepTypes ==
    ASSUME Types, NEW r \in Runs
    PROVE  /\ \A left \in Seq(EventSet) : Continue(r, left) =>
                 loop' \in [Runs -> {"none", "recv", "spill", "done"}] /\ chan' \in [Runs -> Seq(EventSet)]
           /\ Leave(r) =>
                 loop' \in [Runs -> {"none", "recv", "spill", "done"}] /\ chan' \in [Runs -> Seq(EventSet)]
           /\ TakeToken => cancel' = NoRun /\ fired' \subseteq 1 .. generation
           /\ \A news \in News : Says(r, news) \/ Says(NoRun, news)
                 => status' \in [run : 0 .. MaxRuns, says : News]
           /\ \A ok \in BOOLEAN, n \in Nat : Record(r, Entry(ok, n)) => history' \in [Runs -> Seq(Entries)]
           /\ chan[r] \in Seq(EventSet)
           /\ chan[r] # <<>> => Tail(chan[r]) \in Seq(EventSet)
<1>1. /\ loop \in [Runs -> {"none", "recv", "spill", "done"}] /\ chan \in [Runs -> Seq(EventSet)]
      /\ history \in [Runs -> Seq(Entries)] /\ fired \subseteq 1 .. generation
      /\ cancel \in {NoRun, generation} /\ generation \in 0 .. MaxRuns
  BY DEF Types
<1>2. ASSUME NEW left \in Seq(EventSet), Continue(r, left)
      PROVE  loop' \in [Runs -> {"none", "recv", "spill", "done"}] /\ chan' \in [Runs -> Seq(EventSet)]
  BY <1>1, <1>2 DEF Continue
<1>3. ASSUME Leave(r)
      PROVE  loop' \in [Runs -> {"none", "recv", "spill", "done"}] /\ chan' \in [Runs -> Seq(EventSet)]
  <2>1. <<>> \in Seq(EventSet)
    OBVIOUS
  <2> QED
    BY <1>1, <1>3, <2>1 DEF Leave
<1>4. ASSUME TakeToken PROVE cancel' = NoRun /\ fired' \subseteq 1 .. generation
  <2>1. cancel' = 0 /\ fired' = fired \cup ({cancel} \ {0})
    BY <1>4 DEF TakeToken, NoRun
  <2>2. cancel # 0 => cancel = generation /\ cancel \in 1 .. generation
    BY <1>1 DEF NoRun
  <2>3. {cancel} \ {0} \subseteq 1 .. generation
    BY <2>2
  <2> QED
    BY <2>1, <2>3, <1>1 DEF NoRun
<1>5. ASSUME NEW news \in News, Says(r, news) \/ Says(NoRun, news)
      PROVE  status' \in [run : 0 .. MaxRuns, says : News]
  <2>1. r \in 0 .. MaxRuns /\ NoRun \in 0 .. MaxRuns
    BY EditorRunAssumption DEF Runs, NoRun
  <2>2. status' = [run |-> r, says |-> news] \/ status' = [run |-> NoRun, says |-> news]
    BY <1>5 DEF Says
  <2> QED
    BY <2>1, <2>2
<1>6. ASSUME NEW ok \in BOOLEAN, NEW n \in Nat, Record(r, Entry(ok, n))
      PROVE  history' \in [Runs -> Seq(Entries)]
  <2>1. Entry(ok, n) \in Entries /\ history[r] \in Seq(Entries)
    BY <1>1 DEF Entry, Entries
  <2>2. Append(history[r], Entry(ok, n)) \in Seq(Entries)
    BY <2>1
  <2> QED
    BY <1>1, <1>6, <2>2 DEF Record
<1>7. chan[r] \in Seq(EventSet) /\ (chan[r] # <<>> => Tail(chan[r]) \in Seq(EventSet))
  BY <1>1
<1> QED
  BY <1>2, <1>3, <1>4, <1>5, <1>6, <1>7

(* An arm of the event loop keeps the types if it keeps those of its own   *)
(* variables.                                                              *)
LEMMA UiTyped ==
    ASSUME Types, UNCHANGED task, Tab',
           chan' \in [Runs -> Seq(EventSet)],
           loop' \in [Runs -> {"none", "recv", "spill", "done"}],
           spill' \in [Runs -> SpillSet], errored' \in [Runs -> BOOLEAN],
           history' \in [Runs -> Seq(Entries)],
           DOMAIN buf' = Runs, buf' = [q \in Runs |-> buf'[q]]
    PROVE  Types'
BY DEF Types, Tab, task

(* apply_batch, with a stored batch or a failed one, keeps the types.      *)
LEMMA ApplyTypes ==
    ASSUME Types, NEW r \in Runs, NEW left \in Seq(EventSet), NEW pushed, NEW bad,
           ApplyBatch(r, left, pushed, bad)
    PROVE  /\ UNCHANGED task /\ Tab'
           /\ chan' \in [Runs -> Seq(EventSet)]
           /\ loop' \in [Runs -> {"none", "recv", "spill", "done"}]
           /\ errored' \in [Runs -> BOOLEAN] /\ history' \in [Runs -> Seq(Entries)]
           /\ DOMAIN buf' = Runs /\ buf' = [q \in Runs |-> buf'[q]]
<1>1. UNCHANGED <<editorOpen, generation, results, task, history>>
  BY DEF ApplyBatch
<1>2. Tab /\ errored \in [Runs -> BOOLEAN] /\ history \in [Runs -> Seq(Entries)]
  BY DEF Types, Tab
<1>3. \/ Continue(r, left) \/ Leave(r)
  BY DEF ApplyBatch
<1>4. cancel' \in {NoRun, generation} /\ fired' \subseteq 1 .. generation
  <2>1. UNCHANGED <<cancel, fired>> \/ TakeToken
    BY DEF ApplyBatch
  <2> QED
    BY <2>1, <1>2, StepTypes DEF Tab
<1>5. status' \in [run : 0 .. MaxRuns, says : News]
  <2>1. UNCHANGED status \/ Says(r, "news") \/ Says(r, "spill error")
    BY DEF ApplyBatch
  <2>2. "news" \in News /\ "spill error" \in News
    BY DEF News
  <2> QED
    BY <2>1, <2>2, <1>2, StepTypes DEF Tab
<1>6. errored' \in [Runs -> BOOLEAN]
  <2>1. UNCHANGED errored \/ errored' = [errored EXCEPT ![r] = TRUE]
    BY DEF ApplyBatch
  <2> QED
    BY <2>1, <1>2
<1>7. DOMAIN buf' = Runs /\ buf' = [q \in Runs |-> buf'[q]]
  <2>1. buf' = Held([buf EXCEPT ![r] = pushed], loop', results)
    BY DEF ApplyBatch
  <2> QED
    BY <2>1 DEF Held
<1>8. Tab'
  BY <1>1, <1>2, <1>4, <1>5 DEF Tab
<1>9. chan' \in [Runs -> Seq(EventSet)] /\ loop' \in [Runs -> {"none", "recv", "spill", "done"}]
  BY <1>3, StepTypes
<1> QED
  BY <1>1, <1>2, <1>6, <1>7, <1>8, <1>9

(* A step of the user, with the result tab it may be about.                *)
UserStep(r) == RunQuery \/ OnCancel \/ CloseEditor \/ CloseResult(r) \/ Paint(r)

(* The start of a run keeps the types: the next generation is a run.       *)
LEMMA DispatchTypes ==
    ASSUME Types, generation < MaxRuns, Dispatch(generation + 1)
    PROVE  /\ generation + 1 \in Runs
           /\ generation' = generation + 1 /\ cancel' = generation'
           /\ generation' \in 0 .. MaxRuns
           /\ at' \in [Runs -> Places]
           /\ status' \in [run : 0 .. MaxRuns, says : News]
           /\ \A S \in SUBSET (1 .. generation) : S \subseteq 1 .. generation'
<1>1. generation \in 0 .. MaxRuns /\ at \in [Runs -> Places] /\ MaxRuns \in Nat
  BY EditorRunAssumption DEF Types
<1>2. generation + 1 \in Runs /\ generation + 1 \in 0 .. MaxRuns
  BY <1>1 DEF Runs
<1>3. "start" \in Places /\ "news" \in News
  BY DEF Places, News
<1>4. at' = [at EXCEPT ![generation + 1] = "start"]
  BY DEF Dispatch
<1>5. status' = [run |-> generation + 1, says |-> "news"] /\ generation' = generation + 1 /\ cancel' = generation + 1
  BY DEF Dispatch, Says
<1>6. at' \in [Runs -> Places]
  BY <1>1, <1>3, <1>4
<1> QED
  BY <1>1, <1>2, <1>3, <1>5, <1>6

(* What the user does keeps the types.                                     *)
LEMMA UserTypes ==
    ASSUME Types, NEW r \in Runs, UserStep(r)
    PROVE  Types'
<1>0. /\ loop \in [Runs -> {"none", "recv", "spill", "done"}] /\ chan \in [Runs -> Seq(EventSet)]
      /\ spill \in [Runs -> SpillSet] /\ errored \in [Runs -> BOOLEAN]
      /\ history \in [Runs -> Seq(Entries)] /\ Tab
      /\ DOMAIN buf = Runs /\ buf = [q \in Runs |-> buf[q]]
  BY DEF Types, Tab
<1>1. CASE RunQuery
  <2>1. generation + 1 \in Runs
    BY <1>1, DispatchTypes DEF RunQuery
  <2>2. loop' = [loop EXCEPT ![generation + 1] = "recv"]
    BY <1>1 DEF RunQuery
  <2>3. loop' \in [Runs -> {"none", "recv", "spill", "done"}]
    BY <1>0, <2>1, <2>2
  <2>4. /\ generation' \in 0 .. MaxRuns /\ cancel' = generation'
        /\ at' \in [Runs -> Places] /\ status' \in [run : 0 .. MaxRuns, says : News]
        /\ results \subseteq 1 .. generation' /\ fired \subseteq 1 .. generation'
    BY <1>1, <1>0, DispatchTypes DEF RunQuery, Tab
  <2> QED
    BY <1>1, <2>3, <2>4 DEF RunQuery, Types
<1>2. CASE OnCancel
  <2>1. cancel' = NoRun /\ fired' \subseteq 1 .. generation
    BY <1>2, StepTypes DEF OnCancel
  <2>2. "news" \in News
    BY DEF News
  <2>3. status' \in [run : 0 .. MaxRuns, says : News]
    BY <1>2, <2>2, StepTypes DEF OnCancel
  <2> QED
    BY <1>0, <1>2, <2>1, <2>3, UiTyped DEF OnCancel, Tab, ui
<1>3. CASE CloseEditor
  <2>1. fired' \subseteq 1 .. generation
    <3>1. fired' = fired \/ fired' = fired \cup ({cancel} \ {0})
      BY <1>3 DEF CloseEditor, NoRun
    <3>2. cancel # 0 => cancel = generation /\ cancel \in 1 .. generation
      BY <1>0 DEF Tab, NoRun
    <3> QED
      BY <3>1, <3>2, <1>0 DEF Tab
  <2>2. DOMAIN buf' = Runs /\ buf' = [q \in Runs |-> buf'[q]]
    BY <1>3 DEF CloseEditor, Held
  <2>3. status' \in [run : 0 .. MaxRuns, says : News]
    BY <1>3, ParamTypes DEF CloseEditor
  <2> QED
    BY <1>0, <1>3, <2>1, <2>2, <2>3, UiTyped DEF CloseEditor, Tab
<1>4. CASE CloseResult(r)
  <2>2. DOMAIN buf' = Runs /\ buf' = [q \in Runs |-> buf'[q]]
    BY <1>4 DEF CloseResult, Held
  <2> QED
    BY <1>0, <1>4, <2>2, UiTyped DEF CloseResult, Tab
<1>5. CASE Paint(r)
  <2>2. DOMAIN buf' = Runs /\ buf' = [q \in Runs |-> buf'[q]]
    BY <1>0, <1>5 DEF Paint
  <2> QED
    BY <1>0, <1>5, <2>2, UiTyped DEF Paint, Tab, editor
<1> QED
  BY <1>1, <1>2, <1>3, <1>4, <1>5 DEF UserStep

(* The arms of the event loop keep the types.                              *)
LEMMA LoopTypes ==
    ASSUME Types, NEW r \in Runs, RunOK(r), EventLoop(r)
    PROVE  Types'
<1>0. /\ loop \in [Runs -> {"none", "recv", "spill", "done"}] /\ chan \in [Runs -> Seq(EventSet)]
      /\ spill \in [Runs -> SpillSet] /\ errored \in [Runs -> BOOLEAN]
      /\ history \in [Runs -> Seq(Entries)] /\ Tab
      /\ DOMAIN buf = Runs /\ buf = [q \in Runs |-> buf[q]]
      /\ chan[r] \in Seq(EventSet)
  BY DEF Types, Tab
<1>a. BufferOK(buf[r]) /\ Stored(r) \in Nat /\ buf[r].spillFiles \in Nat
  BY RowCountType DEF RunOK, Stored
<1>b. "news" \in News
  BY DEF News
<1>c. chan[r] # <<>> => Tail(chan[r]) \in Seq(EventSet) /\ Head(chan[r]) \in EventSet
  BY <1>0
<1>1. CASE OnBatch(r)
  <2>1. chan[r] # <<>> /\ UNCHANGED spill
    BY <1>1 DEF OnBatch, Ready
  <2>2. \E pushed, bad : ApplyBatch(r, Tail(chan[r]), pushed, bad)
    BY <1>1 DEF OnBatch
  <2> QED
    BY <2>1, <2>2, <1>0, <1>c, ApplyTypes, UiTyped
<1>2. CASE BeginPush(r)
  <2>1. chan[r] # <<>> /\ Tail(chan[r]) \in Seq(EventSet) /\ Head(chan[r]).rows \in Seq(Nat)
    BY <1>2, <1>c DEF BeginPush, Ready, EventSet
  <2>2. chan' \in [Runs -> Seq(EventSet)] /\ loop' \in [Runs -> {"none", "recv", "spill", "done"}]
    BY <1>2, <1>0, <2>1 DEF BeginPush
  <2>3. [rows |-> Head(chan[r]).rows, ix |-> SpillIndex(buf[r]), state |-> "writing"] \in SpillSet
    BY <2>1, <1>a DEF SpillSet, SpillIndex
  <2>4. spill' \in [Runs -> SpillSet]
    BY <1>2, <1>0, <2>3 DEF BeginPush
  <2>5. DOMAIN buf' = Runs /\ buf' = [q \in Runs |-> buf'[q]]
    BY <1>0, <1>2 DEF BeginPush
  <2> QED
    BY <1>0, <1>2, <2>2, <2>4, <2>5, UiTyped DEF BeginPush, Tab, editor
<1>3. CASE WriteSpillFile(r)
  <2>1. spill' \in [Runs -> SpillSet]
    <3>1. spill' = [spill EXCEPT ![r].state = "written"] \/ spill' = [spill EXCEPT ![r].state = "failed"]
      BY <1>3 DEF WriteSpillFile
    <3>2. PICK st \in {"written", "failed"} : spill' = [spill EXCEPT ![r] = [spill[r] EXCEPT !.state = st]]
      BY <3>1
    <3>3. [spill[r] EXCEPT !.state = st] \in SpillSet
      <4>1. spill[r] \in SpillSet
        BY <1>0
      <4> QED
        BY <4>1 DEF SpillSet
    <3> QED
      BY <3>2, <3>3, <1>0
  <2>2. DOMAIN buf' = Runs /\ buf' = [q \in Runs |-> buf'[q]]
    BY <1>0, <1>3 DEF WriteSpillFile
  <2> QED
    BY <1>0, <1>3, <2>1, <2>2, UiTyped DEF WriteSpillFile, Tab, editor
<1>4. CASE FinishSpill(r)
  <2>1. spill' \in [Runs -> SpillSet]
    <3>1. NoSpill \in SpillSet
      BY DEF NoSpill, SpillSet
    <3> QED
      BY <1>4, <3>1, <1>0 DEF FinishSpill
  <2>2. \E pushed, bad : ApplyBatch(r, chan[r], pushed, bad)
    BY <1>4 DEF FinishSpill
  <2> QED
    BY <2>1, <2>2, <1>0, ApplyTypes, UiTyped
<1>5. CASE EditorGone(r)
  <2>1. DOMAIN buf' = Runs /\ buf' = [q \in Runs |-> buf'[q]]
    BY <1>5 DEF EditorGone, Held
  <2>2. Leave(r)
    BY <1>5 DEF EditorGone
  <2> QED
    BY <1>0, <1>5, <2>1, <2>2, StepTypes, UiTyped DEF EditorGone, Tab, editor
<1>6. CASE OnStarted(r)
  <2>1. DOMAIN buf' = Runs /\ buf' = [q \in Runs |-> buf'[q]]
    BY <1>6 DEF OnStarted, Held
  <2>2. results' \subseteq 1 .. generation
    <3>1. chan[r] # <<>> /\ loop[r] = "recv"
      BY <1>6 DEF OnStarted, Ready
    <3>2. r \in 1 .. generation
      <4>1. r <= generation /\ r \in 1 .. MaxRuns /\ generation \in 0 .. MaxRuns
        BY <3>1, <1>0 DEF RunOK, BegunOK, Runs, Tab
      <4> QED
        BY <4>1
    <3>3. \E gone : results' = (results \ gone) \cup {r}
      BY <1>6 DEF OnStarted
    <3> QED
      BY <3>2, <3>3, <1>0 DEF Tab
  <2>3. Continue(r, Tail(chan[r])) /\ Tail(chan[r]) \in Seq(EventSet) /\ Says(r, "news")
    BY <1>6, <1>c DEF OnStarted, Ready
  <2>4. chan' \in [Runs -> Seq(EventSet)] /\ loop' \in [Runs -> {"none", "recv", "spill", "done"}]
        /\ status' \in [run : 0 .. MaxRuns, says : News]
    BY <2>3, <1>b, StepTypes
  <2> QED
    BY <1>0, <1>6, <2>1, <2>2, <2>4, UiTyped DEF OnStarted, Tab
<1>7. CASE OnWriteFinished(r)
  <2>1. Continue(r, Tail(chan[r])) /\ Tail(chan[r]) \in Seq(EventSet) /\ Says(r, "news")
        /\ Record(r, Entry(TRUE, 0))
    BY <1>7, <1>c DEF OnWriteFinished, Ready
  <2>2. chan' \in [Runs -> Seq(EventSet)] /\ loop' \in [Runs -> {"none", "recv", "spill", "done"}]
        /\ status' \in [run : 0 .. MaxRuns, says : News] /\ history' \in [Runs -> Seq(Entries)]
    BY <2>1, <1>b, StepTypes
  <2> QED
    BY <1>0, <1>7, <2>2, UiTyped DEF OnWriteFinished, Tab
<1>8. CASE OnFinished(r)
  <2>1. chan[r] # <<>> /\ Tail(chan[r]) \in Seq(EventSet)
    BY <1>8, <1>c DEF OnFinished, Ready
  <2>2. history' \in [Runs -> Seq(Entries)]
    <3>1. Record(r, Entry(FALSE, 0)) \/ Record(r, Entry(TRUE, RowCount(buf[r])))
      BY <1>8 DEF OnFinished
    <3> QED
      BY <3>1, <1>a, StepTypes DEF Stored
  <2>3. CASE Continue(r, Tail(chan[r])) /\ cancel' = NoRun /\ UNCHANGED <<generation, at>>
             /\ (Says(r, "news") \/ UNCHANGED status)
    <3>1. chan' \in [Runs -> Seq(EventSet)] /\ loop' \in [Runs -> {"none", "recv", "spill", "done"}]
          /\ status' \in [run : 0 .. MaxRuns, says : News]
      BY <2>1, <2>3, <1>b, <1>0, StepTypes DEF Tab
    <3> QED
      BY <1>0, <1>8, <2>2, <2>3, <3>1, UiTyped DEF OnFinished, Tab, task
  <2>4. CASE /\ generation < MaxRuns
             /\ Dispatch(generation + 1)
             /\ loop' = [loop EXCEPT ![generation + 1] = "recv"]
             /\ chan' = [chan EXCEPT ![r] = Tail(@)]
    <3>1. generation + 1 \in Runs
      BY <2>4, DispatchTypes
    <3>2. loop' \in [Runs -> {"none", "recv", "spill", "done"}] /\ chan' \in [Runs -> Seq(EventSet)]
      BY <1>0, <2>1, <2>4, <3>1
    <3>3. /\ generation' \in 0 .. MaxRuns /\ cancel' = generation'
          /\ at' \in [Runs -> Places] /\ status' \in [run : 0 .. MaxRuns, says : News]
          /\ results \subseteq 1 .. generation' /\ fired \subseteq 1 .. generation'
      BY <2>4, <1>0, DispatchTypes DEF Tab
    <3>4. UNCHANGED <<editorOpen, results, out, made, over, fired, buf, spill, errored>>
      BY <1>8 DEF OnFinished
    <3> QED
      BY <2>2, <3>2, <3>3, <3>4 DEF Types
  <2> QED
    BY <1>8, <2>3, <2>4 DEF OnFinished
<1>9. CASE OnFailed(r)
  <2>1. Continue(r, Tail(chan[r])) /\ Tail(chan[r]) \in Seq(EventSet) /\ (Says(r, "news") \/ UNCHANGED status)
        /\ Record(r, Entry(FALSE, 0))
    BY <1>9, <1>c DEF OnFailed, Ready
  <2>2. chan' \in [Runs -> Seq(EventSet)] /\ loop' \in [Runs -> {"none", "recv", "spill", "done"}]
        /\ status' \in [run : 0 .. MaxRuns, says : News] /\ history' \in [Runs -> Seq(Entries)]
    BY <2>1, <1>b, <1>0, StepTypes DEF Tab
  <2> QED
    BY <1>0, <1>9, <2>2, UiTyped DEF OnFailed, Tab
<1>10. CASE ChannelClosed(r)
  <2>1. DOMAIN buf' = Runs /\ buf' = [q \in Runs |-> buf'[q]]
    BY <1>10 DEF ChannelClosed, Held
  <2>2. Leave(r) /\ cancel' \in {NoRun, generation}
    BY <1>10, <1>0 DEF ChannelClosed, AfterTail, Tab
  <2>3. chan' \in [Runs -> Seq(EventSet)] /\ loop' \in [Runs -> {"none", "recv", "spill", "done"}]
    BY <2>2, StepTypes
  <2> QED
    BY <1>0, <1>10, <2>1, <2>2, <2>3, UiTyped DEF ChannelClosed, Tab
<1> QED
  BY <1>1, <1>2, <1>3, <1>4, <1>5, <1>6, <1>7, <1>8, <1>9, <1>10 DEF EventLoop

-----------------------------------------------------------------------------
(* The line of events between a task and its loop.                         *)

(* An event that brings the next rows may be appended to a line.           *)
LEMMA LineGrows ==
    ASSUME NEW s \in Seq(EventSet), NEW m \in Nat, NEW p \in [0 .. Len(s) -> 0 .. m],
           \A i \in 1 .. Len(s) : InLine(s, p, i),
           NEW e \in EventSet, e.rows = Stretch(p[Len(s)], Len(e.rows)), p[Len(s)] + Len(e.rows) <= m
    PROVE  \E q \in [0 .. Len(s) + 1 -> 0 .. m] :
              /\ q[0] = p[0] /\ q[Len(s) + 1] = p[Len(s)] + Len(e.rows)
              /\ \A i \in 1 .. Len(s) + 1 : InLine(Append(s, e), q, i)
<1> DEFINE L == Len(s)
           t == Append(s, e)
           last == p[L] + Len(e.rows)
           q == [i \in 0 .. L + 1 |-> IF i = L + 1 THEN last ELSE p[i]]
<1>1. L \in Nat /\ Len(e.rows) \in Nat
  <2>1. e.rows \in Seq(Nat)
    BY DEF EventSet
  <2> QED
    BY <2>1
<1>2. p[L] \in 0 .. m /\ last \in 0 .. m
  <2>1. L \in 0 .. L
    BY <1>1
  <2>2. p[L] \in 0 .. m
    BY <2>1
  <2> QED
    BY <2>2, <1>1
<1>3. /\ t[L + 1] = e /\ \A i \in 1 .. L : t[i] = s[i]
  OBVIOUS
<1>4. q \in [0 .. L + 1 -> 0 .. m]
  <2>1. ASSUME NEW i \in 0 .. L + 1 PROVE (IF i = L + 1 THEN last ELSE p[i]) \in 0 .. m
    <3>1. i = L + 1 \/ i \in 0 .. L
      BY <1>1
    <3> HIDE DEF last
    <3> QED
      BY <3>1, <1>2
  <2> QED
    BY <2>1
<1>5. /\ q[L + 1] = last /\ \A i \in 0 .. L : q[i] = p[i]
  BY <1>1
<1>6. ASSUME NEW i \in 1 .. L + 1 PROVE InLine(t, q, i)
  <2>1. CASE i = L + 1
    <3>1. q[i] = last /\ q[i - 1] = p[L] /\ t[i] = e
      BY <2>1, <1>1, <1>3, <1>5
    <3> QED
      BY <3>1 DEF InLine
  <2>2. CASE i \in 1 .. L
    <3>1. i - 1 \in 0 .. L /\ i \in 0 .. L
      BY <2>2, <1>1
    <3>2. q[i] = p[i] /\ q[i - 1] = p[i - 1] /\ t[i] = s[i]
      BY <3>1, <2>2, <1>3, <1>5
    <3>3. InLine(s, p, i)
      BY <2>2
    <3> HIDE DEF q, t
    <3> QED
      BY <3>2, <3>3 DEF InLine
  <2> QED
    BY <2>1, <2>2, <1>1
<1>7. q[0] = p[0]
  BY <1>1, <1>5
<1> HIDE DEF q
<1> QED
  BY <1>4, <1>5, <1>6, <1>7

(* What is behind the first event of a line is in line.                    *)
LEMMA LineShrinks ==
    ASSUME NEW s \in Seq(EventSet), s # <<>>, NEW m \in Nat, NEW p \in [0 .. Len(s) -> 0 .. m],
           \A i \in 1 .. Len(s) : InLine(s, p, i)
    PROVE  \E q \in [0 .. Len(Tail(s)) -> 0 .. m] :
              /\ q[0] = p[1] /\ q[Len(Tail(s))] = p[Len(s)]
              /\ \A i \in 1 .. Len(Tail(s)) : InLine(Tail(s), q, i)
<1> DEFINE L == Len(s) - 1
           t == Tail(s)
           q == [i \in 0 .. L |-> p[i + 1]]
<1>1. L \in Nat /\ Len(s) = L + 1 /\ Len(t) = L /\ \A i \in 1 .. L : t[i] = s[i + 1]
  OBVIOUS
<1>2. q \in [0 .. L -> 0 .. m]
  <2>1. \A i \in 0 .. L : i + 1 \in 0 .. Len(s)
    BY <1>1
  <2> QED
    BY <2>1
<1>3. ASSUME NEW i \in 1 .. L PROVE InLine(t, q, i)
  <2>1. i + 1 \in 1 .. Len(s) /\ i \in 0 .. L /\ i - 1 \in 0 .. L /\ (i + 1) - 1 = i /\ (i - 1) + 1 = i
    BY <1>1
  <2>2. q[i] = p[i + 1] /\ q[i - 1] = p[i] /\ t[i] = s[i + 1]
    BY <2>1, <1>1
  <2>3. InLine(s, p, i + 1)
    BY <2>1
  <2>4. p[i + 1] = p[i] + Len(s[i + 1].rows) /\ s[i + 1].rows = Stretch(p[i], Len(s[i + 1].rows))
    BY <2>1, <2>3 DEF InLine
  <2> HIDE DEF q, t
  <2> QED
    BY <2>2, <2>4 DEF InLine
<1>4. q[0] = p[1] /\ q[L] = p[Len(s)]
  BY <1>1
<1> HIDE DEF q
<1> QED
  BY <1>1, <1>2, <1>3, <1>4

(* What a run is made of, typed.                                           *)
LEMMA OneRun ==
    ASSUME Types, NEW r \in Runs, RunOK(r)
    PROVE  /\ at[r] \in Places /\ out[r] \in EventSet /\ out[r].rows \in Seq(Nat)
           /\ chan[r] \in Seq(EventSet) /\ Len(chan[r]) \in Nat
           /\ \A i \in 1 .. Len(chan[r]) : chan[r][i] \in EventSet /\ chan[r][i].rows \in Seq(Nat)
           /\ made[r] \in Nat /\ over[r] \in BOOLEAN
           /\ loop[r] \in {"none", "recv", "spill", "done"}
           /\ spill[r] \in SpillSet /\ spill[r].rows \in Seq(Nat) /\ Len(spill[r].rows) \in Nat
           /\ errored[r] \in BOOLEAN
           /\ history[r] \in Seq(Entries) /\ Len(history[r]) \in Nat
           /\ BufferOK(buf[r]) /\ Stored(r) \in Nat /\ Taken(r) \in Nat
<1>1. /\ at[r] \in Places /\ out[r] \in EventSet /\ chan[r] \in Seq(EventSet)
      /\ made[r] \in Nat /\ over[r] \in BOOLEAN
      /\ loop[r] \in {"none", "recv", "spill", "done"} /\ spill[r] \in SpillSet
      /\ errored[r] \in BOOLEAN /\ history[r] \in Seq(Entries)
  BY DEF Types
<1>2. out[r].rows \in Seq(Nat) /\ spill[r].rows \in Seq(Nat)
  BY <1>1 DEF EventSet, SpillSet
<1>3. \A i \in 1 .. Len(chan[r]) : chan[r][i] \in EventSet
  BY <1>1
<1>4. \A i \in 1 .. Len(chan[r]) : chan[r][i].rows \in Seq(Nat)
  BY <1>3 DEF EventSet
<1>5. Len(chan[r]) \in Nat /\ Len(spill[r].rows) \in Nat /\ Len(history[r]) \in Nat
  BY <1>1, <1>2
<1>6. BufferOK(buf[r]) /\ Stored(r) \in Nat
  BY RowCountType DEF RunOK, Stored
<1>7. Taken(r) \in Nat
  BY <1>5, <1>6 DEF Taken
<1> QED
  BY <1>1, <1>2, <1>3, <1>4, <1>5, <1>6, <1>7

(* The task of r moves without touching the channel: what is left to show  *)
(* is where it stands and that the line still fits.                        *)
LEMMA TaskMoves ==
    ASSUME Types, NEW r \in Runs, RunOK(r), UNCHANGED <<editor, chan, ui>>,
           at[r] # "none", at'[r] \notin {"none", "closing"},
           at'[r] = "done" => at[r] = "closing",
           at[r] \in {"closing", "done"} => at'[r] = "done",
           over[r] => over'[r],
           made'[r] \in Nat, made[r] <= made'[r],
           made'[r] = made[r] \/ at[r] = "stream",
           TaskOK(r)',
           \A end \in 0 .. made[r] : LineOK(r) /\ Stands(r, end) => Stands(r, end)'
    PROVE  RunOK(r)'
<1>1. /\ editorOpen' = editorOpen /\ generation' = generation /\ results' = results
      /\ chan' = chan /\ loop' = loop /\ buf' = buf /\ spill' = spill
      /\ errored' = errored /\ history' = history
  BY DEF editor, ui
<1>2. /\ Len(chan[r]) \in Nat /\ made[r] \in Nat /\ Stored(r) \in Nat
      /\ Stored(r)' = Stored(r) /\ Taken(r)' = Taken(r)
  BY <1>1, OneRun DEF Stored, Taken
<1>3. BegunOK(r) /\ TaskOK(r) /\ ChanOK(r) /\ SpillOK(r) /\ LineOK(r) /\ HistoryOK(r) /\ BufferOK(buf[r])
  BY DEF RunOK
<1>4. BegunOK(r)'
  BY <1>1, <1>3 DEF BegunOK
<1>5. ASSUME at[r] = "stream" PROVE \A i \in 1 .. Len(chan[r]) : chan[r][i].ev \notin Terminal
  BY <1>3, <1>5 DEF ChanOK
<1>6. ChanOK(r)'
  <2>1. Len(chan[r]) <= ChanCap /\ (loop[r] = "done" => chan[r] = <<>>)
    BY <1>3 DEF ChanOK
  <2>2. ASSUME NEW i \in 1 .. Len(chan[r])
        PROVE  /\ chan[r][i].ev = "Batch" <=> chan[r][i].rows # <<>>
               /\ chan[r][i].ev = "Started" => i = 1 /\ loop[r] = "recv" /\ Stored(r) = 0 /\ ~errored[r]
               /\ chan[r][i].ev \in Terminal => i = Len(chan[r]) /\ at'[r] \in {"closing", "done"}
               /\ chan[r][i].ev \in {"Finished", "WriteFinished"} => over'[r]
               /\ chan[r][i].ev = "WriteFinished" => made'[r] = 0
    BY <1>3, <1>5 DEF ChanOK, Terminal
  <2>3. loop[r] \in {"recv", "spill"} /\ at'[r] \in {"closing", "done"} /\ history[r] = <<>>
           => chan[r] # <<>> /\ chan[r][Len(chan[r])].ev \in Terminal
    BY <1>3 DEF ChanOK
  <2> QED
    BY <1>1, <1>2, <2>1, <2>2, <2>3 DEF ChanOK
<1>7. SpillOK(r)'
  BY <1>1, <1>2, <1>3 DEF SpillOK, Stored
<1>8. LineOK(r)'
  <2>1. Stored(r) <= made'[r]
    BY <1>2, <1>3 DEF LineOK
  <2>2. ASSUME loop[r] \in {"recv", "spill"}, ~errored[r]
        PROVE  \E p \in [0 .. Len(chan[r]) -> 0 .. made'[r]] : Line(r, p)'
    <3>1. PICK p \in [0 .. Len(chan[r]) -> 0 .. made[r]] : Line(r, p)
      BY <2>2, <1>3 DEF LineOK
    <3>2. p \in [0 .. Len(chan[r]) -> 0 .. made'[r]]
      BY <1>2
    <3>3. Line(r, p)'
      <4>0. p[Len(chan[r])] \in 0 .. made[r]
        BY <1>2
      <4>1. Stands(r, p[Len(chan[r])])'
        <5> DEFINE end == p[Len(chan[r])]
        <5>1. Stands(r, end) /\ end' = end
          BY <1>1, <3>1 DEF Line
        <5> HIDE DEF end
        <5>2. Stands(r, end)'
          BY <4>0, <5>1, <1>3 DEF end
        <5> QED
          BY <5>2 DEF end
      <4>2. LET L == Len(chan[r]) IN
            L > 0 /\ chan[r][L].ev \in {"Finished", "WriteFinished"} => p[L] = made'[r]
        BY <3>1, <1>2, <1>5 DEF Line, Terminal
      <4>3. p[0] = Taken(r) /\ \A i \in 1 .. Len(chan[r]) : InLine(chan[r], p, i)
        BY <3>1 DEF Line
      <4> QED
        BY <1>1, <1>2, <4>1, <4>2, <4>3 DEF Line
    <3> QED
      BY <3>2, <3>3
  <2> QED
    BY <1>1, <1>2, <2>1, <2>2 DEF LineOK
<1>9. HistoryOK(r)'
  <2>1. history[r] # <<>> => at'[r] = "done" /\ made'[r] = made[r]
    BY <1>3 DEF HistoryOK
  <2> QED
    BY <1>1, <1>2, <1>3, <2>1 DEF HistoryOK
<1> QED
  BY <1>1, <1>3, <1>4, <1>6, <1>7, <1>8, <1>9 DEF RunOK

-----------------------------------------------------------------------------
(* The steps of the task.                                                  *)

(* What the events are made of, and that an empty stretch is empty.        *)
LEMMA EventKinds ==
    /\ Started.ev = "Started" /\ Started.rows = <<>>
    /\ Finished.ev = "Finished" /\ Finished.rows = <<>>
    /\ Wrote.ev = "WriteFinished" /\ Wrote.rows = <<>>
    /\ Failed.ev = "Failed" /\ Failed.rows = <<>>
    /\ Event("none", <<>>).ev = "none" /\ Event("none", <<>>).rows = <<>>
    /\ Len(<<>>) = 0
    /\ \A n : Stretch(n, 0) = <<>>
<1>1. \A n : Stretch(n, 0) = <<>>
  BY DEF Stretch
<1> QED
  BY <1>1 DEF Started, Finished, Wrote, Failed, Event

(* connect_and_run between its checks, and its watchdog, keep the          *)
(* invariant of their run.                                                 *)
LEMMA RunnerKeeps ==
    ASSUME Types, NEW r \in Runs, RunOK(r), CheckCancel(r) \/ Opened(r) \/ TaskEnds(r) \/ Expire(r)
    PROVE  RunOK(r)'
<1>0. /\ at \in [Runs -> Places] /\ out \in [Runs -> EventSet] /\ made[r] \in Nat
      /\ TaskOK(r)
  BY DEF Types, RunOK
<1>1. /\ UNCHANGED <<editor, chan, ui, made, over>>
      /\ \/ Send(r, "last", Failed) /\ at[r] \in {"start", "opening", "query", "stream", "send"}
         \/ Go(r, "opening") /\ at[r] = "start"
         \/ Go(r, "query") /\ at[r] = "opening"
         \/ Go(r, "done") /\ at[r] = "closing"
  BY DEF CheckCancel, Opened, TaskEnds, Expire
<1>2. /\ at[r] # "none" /\ at'[r] \notin {"none", "closing"}
      /\ at'[r] = "done" => at[r] = "closing"
      /\ at[r] \notin {"done"} /\ (at[r] = "closing" => at'[r] = "done")
      /\ at'[r] \notin {"stream", "send"}
  BY <1>0, <1>1 DEF Send, Go
<1>3. TaskOK(r)'
  <2>1. CASE Send(r, "last", Failed) /\ at[r] \in {"start", "opening", "query", "stream", "send"}
    <3>1. at'[r] = "last" /\ out'[r] = Failed
      BY <1>0, <2>1 DEF Send
    <3> QED
      BY <3>1, <1>0, <1>1, EventKinds DEF TaskOK
  <2>2. CASE UNCHANGED out /\ at'[r] \in {"opening", "query", "done"}
    <3>1. at'[r] \in {"opening", "query"} => at[r] \in {"start", "opening"}
      BY <1>0, <1>1, <2>2 DEF Go, Send
    <3>2. at[r] \notin {"send", "last"}
      BY <1>0, <1>1, <2>2 DEF Go, Send
    <3> QED
      BY <2>2, <3>1, <3>2, <1>0, <1>1 DEF TaskOK
  <2> QED
    BY <2>1, <2>2, <1>0, <1>1 DEF Go
<1>4. \A end \in 0 .. made[r] : LineOK(r) /\ Stands(r, end) => Stands(r, end)'
  BY <1>2 DEF Stands
<1> QED
  BY <1>0, <1>1, <1>2, <1>3, <1>4, TaskMoves

(* The answer of the driver to the query, a stream or an error, keeps it.  *)
LEMMA AnsweredKeeps ==
    ASSUME Types, NEW r \in Runs, RunOK(r), Answered(r)
    PROVE  RunOK(r)'
<1>0. /\ at \in [Runs -> Places] /\ out \in [Runs -> EventSet] /\ made[r] \in Nat
      /\ over \in [Runs -> BOOLEAN] /\ TaskOK(r) /\ at[r] = "query"
  BY DEF Types, RunOK, Answered
<1>1. made[r] = 0 /\ chan[r] = <<>> /\ UNCHANGED <<editor, made, chan, ui>>
  BY <1>0 DEF TaskOK, Answered
<1>2. /\ at'[r] = "send"
      /\ \/ out'[r] = Started \/ out'[r] = Failed
         \/ out'[r] = Wrote /\ over'[r]
      /\ over[r] => over'[r]
  BY <1>0 DEF Answered, Send
<1>3. TaskOK(r)'
  BY <1>0, <1>1, <1>2, EventKinds DEF TaskOK
<1>4. \A end \in 0 .. made[r] : LineOK(r) /\ Stands(r, end) => Stands(r, end)'
  <2>1. out'[r].rows = <<>>
    BY <1>2, EventKinds
  <2> QED
    BY <1>1, <1>2, <2>1, EventKinds DEF Stands
<1> QED
  BY <1>0, <1>1, <1>2, <1>3, <1>4, TaskMoves

(* A batch of the stream, its end or its error keeps it: the batch is the  *)
(* next stretch.                                                           *)
LEMMA StreamedKeeps ==
    ASSUME Types, NEW r \in Runs, RunOK(r), Streamed(r)
    PROVE  RunOK(r)'
<1>0. /\ at \in [Runs -> Places] /\ out \in [Runs -> EventSet] /\ made \in [Runs -> Nat]
      /\ over \in [Runs -> BOOLEAN] /\ TaskOK(r) /\ at[r] = "stream"
      /\ UNCHANGED <<editor, chan, ui>>
  BY DEF Types, RunOK, Streamed
<1>1. CASE Send(r, "send", Failed) /\ UNCHANGED <<made, over>>
  <2>1. at'[r] = "send" /\ out'[r] = Failed
    BY <1>0, <1>1 DEF Send
  <2>2. TaskOK(r)'
    BY <1>0, <1>1, <2>1, EventKinds DEF TaskOK
  <2>3. \A end \in 0 .. made[r] : LineOK(r) /\ Stands(r, end) => Stands(r, end)'
    BY <1>0, <1>1, <2>1, EventKinds DEF Stands
  <2> QED
    BY <1>0, <1>1, <2>1, <2>2, <2>3, TaskMoves
<1>2. CASE Send(r, "send", Finished) /\ over' = [over EXCEPT ![r] = TRUE] /\ UNCHANGED made
  <2>1. at'[r] = "send" /\ out'[r] = Finished /\ over'[r]
    BY <1>0, <1>2 DEF Send
  <2>2. TaskOK(r)'
    BY <1>0, <1>2, <2>1, EventKinds DEF TaskOK
  <2>3. \A end \in 0 .. made[r] : LineOK(r) /\ Stands(r, end) => Stands(r, end)'
    BY <1>0, <1>2, <2>1, EventKinds DEF Stands
  <2> QED
    BY <1>0, <1>2, <2>1, <2>2, <2>3, TaskMoves
<1>3. ASSUME NEW n \in BatchSizes,
             Send(r, "send", Event("Batch", [i \in 1 .. n |-> made[r] + i])),
             made' = [made EXCEPT ![r] = @ + n], UNCHANGED over
      PROVE  RunOK(r)'
  <2>1. n \in Nat \ {0} /\ made[r] \in Nat /\ made'[r] = made[r] + n
    BY <1>0, <1>3, EditorRunAssumption
  <2>2. at'[r] = "send" /\ out'[r].ev = "Batch" /\ out'[r].rows = Stretch(made[r], n)
    BY <1>0, <1>3 DEF Send, Event, Stretch
  <2>3. Len(out'[r].rows) = n /\ out'[r].rows # <<>>
    <3>1. Len(Stretch(made[r], n)) = n /\ Stretch(made[r], n) \in Seq(Nat)
      BY <2>1, StretchType
    <3>2. Stretch(made[r], n) # <<>>
      BY <3>1, <2>1, EventKinds
    <3> QED
      BY <2>2, <3>1, <3>2
  <2>4. TaskOK(r)'
    BY <1>0, <1>3, <2>2, <2>3 DEF TaskOK
  <2>5. \A end \in 0 .. made[r] : LineOK(r) /\ Stands(r, end) => Stands(r, end)'
    BY <1>0, <2>1, <2>2, <2>3 DEF Stands
  <2>6. made'[r] \in Nat /\ made[r] <= made'[r]
    BY <2>1
  <2> QED
    BY <1>0, <1>3, <2>2, <2>4, <2>5, <2>6, TaskMoves
<1> QED
  BY <1>1, <1>2, <1>3 DEF Streamed

(* An event that is sent goes from the task into the channel, where it is  *)
(* in line.                                                                *)
LEMMA DeliverKeeps ==
    ASSUME Types, NEW r \in Runs, RunOK(r), Deliver(r)
    PROVE  RunOK(r)'
<1>0. /\ at \in [Runs -> Places] /\ out \in [Runs -> EventSet] /\ chan \in [Runs -> Seq(EventSet)]
      /\ made' = made /\ over' = over
      /\ editorOpen' = editorOpen /\ generation' = generation /\ results' = results
      /\ loop' = loop /\ buf' = buf /\ spill' = spill /\ errored' = errored /\ history' = history
      /\ at[r] \in {"send", "last"}
  BY DEF Types, Deliver, editor, ui
<1>1. /\ at'[r] = IF out[r].ev \in {"Started", "Batch"} THEN "stream" ELSE "closing"
      /\ out'[r] = Event("none", <<>>)
  BY <1>0 DEF Deliver
<1>2. BegunOK(r) /\ TaskOK(r) /\ ChanOK(r) /\ SpillOK(r) /\ LineOK(r) /\ HistoryOK(r) /\ BufferOK(buf[r])
  BY DEF RunOK
<1>3. /\ Len(chan[r]) \in Nat /\ made[r] \in Nat /\ Stored(r) \in Nat /\ out[r] \in EventSet
      /\ chan[r] \in Seq(EventSet) /\ out[r].ev # "none"
      /\ Stored(r)' = Stored(r) /\ Taken(r)' = Taken(r)
      /\ out[r].rows \in Seq(Nat) /\ Len(out[r].rows) \in Nat
  <2>1. out[r].rows \in Seq(Nat)
    BY OneRun
  <2> QED
    BY <1>0, <1>2, <2>1, OneRun DEF Stored, Taken, TaskOK
<1>4. \A i \in 1 .. Len(chan[r]) : chan[r][i].ev \notin Terminal
  BY <1>0, <1>2 DEF ChanOK
<1>5. BegunOK(r)'
  BY <1>0, <1>1, <1>2 DEF BegunOK
<1>6. SpillOK(r)'
  BY <1>0, <1>2 DEF SpillOK, Stored
<1>7. history[r] = <<>>
  BY <1>0, <1>2 DEF HistoryOK
<1>8. HistoryOK(r)'
  BY <1>0, <1>2, <1>3, <1>7 DEF HistoryOK
<1>9. CASE loop[r] = "done" /\ UNCHANGED chan
  <2>1. chan[r] = <<>>
    BY <1>2, <1>9 DEF ChanOK
  <2>2. TaskOK(r)'
    BY <1>0, <1>1, <1>2, <1>9, <2>1, EventKinds DEF TaskOK
  <2>3. ChanOK(r)'
    BY <1>0, <1>2, <1>3, <1>9, <2>1, EventKinds DEF ChanOK
  <2>4. LineOK(r)'
    BY <1>0, <1>2, <1>3, <1>9 DEF LineOK
  <2> QED
    BY <1>0, <1>2, <1>5, <1>6, <1>8, <2>2, <2>3, <2>4 DEF RunOK
<1>10. CASE loop[r] # "done" /\ Len(chan[r]) < ChanCap /\ chan' = [chan EXCEPT ![r] = Append(@, out[r])]
  <2> DEFINE L == Len(chan[r])
             t == Append(chan[r], out[r])
  <2>1. /\ chan'[r] = t /\ Len(t) = L + 1 /\ t[L + 1] = out[r] /\ t # <<>>
        /\ \A i \in 1 .. L : t[i] = chan[r][i]
    BY <1>0, <1>3, <1>10
  <2>2. TaskOK(r)'
    BY <1>0, <1>1, <1>2, <2>1, EventKinds DEF TaskOK
  <2>3. loop[r] \in {"recv", "spill"}
    BY <1>0, <1>2, <1>3, <1>10, OneRun DEF BegunOK
  <2>4. out[r].ev = "Started" => L = 0 /\ loop[r] = "recv" /\ Stored(r) = 0 /\ ~errored[r]
    <3>1. out[r].ev = "Started" => chan[r] = <<>> /\ made[r] = 0
      BY <1>2 DEF TaskOK
    <3>2. errored[r] => made[r] > 0
      BY <1>2 DEF SpillOK
    <3>3. made[r] = 0 => Stored(r) = 0
      BY <1>2, <1>3 DEF LineOK
    <3>4. made[r] = 0 => loop[r] # "spill"
      <4>1. SUFFICES ASSUME made[r] = 0, loop[r] = "spill" PROVE FALSE
        OBVIOUS
      <4>2. ~errored[r] /\ spill[r].rows # <<>>
        BY <4>1, <1>2 DEF SpillOK
      <4>3. PICK p \in [0 .. L -> 0 .. made[r]] : Line(r, p)
        BY <4>1, <4>2, <1>2 DEF LineOK
      <4>4. p[0] = Taken(r) /\ p[0] \in 0 .. 0
        BY <4>1, <4>3, <1>3 DEF Line
      <4>5. Len(spill[r].rows) \in Nat /\ Len(spill[r].rows) > 0
        BY <4>2, OneRun
      <4> QED
        BY <4>1, <4>4, <4>5, <1>3 DEF Taken
    <3> QED
      BY <2>3, <3>1, <3>2, <3>3, <3>4, EventKinds
  <2>5. ChanOK(r)'
    <3>1. Len(t) <= ChanCap
      BY <1>3, <1>10, <2>1, EditorRunAssumption
    <3>2. ASSUME NEW i \in 1 .. L + 1
          PROVE  /\ t[i].ev = "Batch" <=> t[i].rows # <<>>
                 /\ t[i].ev = "Started" => i = 1 /\ loop[r] = "recv" /\ Stored(r) = 0 /\ ~errored[r]
                 /\ t[i].ev \in Terminal => i = L + 1 /\ at'[r] \in {"closing", "done"}
                 /\ t[i].ev \in {"Finished", "WriteFinished"} => over[r]
                 /\ t[i].ev = "WriteFinished" => made[r] = 0
      <4>1. CASE i \in 1 .. L
        <5>1. t[i] = chan[r][i] /\ chan[r][i].ev \notin Terminal
          BY <4>1, <2>1, <1>4
        <5> QED
          BY <4>1, <5>1, <1>2 DEF ChanOK, Terminal
      <4>2. CASE i = L + 1
        <5>1. t[i] = out[r]
          BY <4>2, <2>1
        <5>2. out[r].ev \in Terminal => at'[r] = "closing"
          BY <1>1 DEF Terminal
        <5> QED
          BY <4>2, <5>1, <5>2, <2>4, <1>2 DEF TaskOK
      <4> QED
        BY <4>1, <4>2, <1>3
    <3>3. at'[r] \in {"closing", "done"} => out[r].ev \in Terminal
      <4>1. out[r].ev \in Kinds
        BY <1>3 DEF EventSet
      <4> QED
        BY <4>1, <1>1, <1>3 DEF Kinds, Terminal
    <3> HIDE DEF t, L
    <3> QED
      BY <1>0, <1>3, <1>10, <2>1, <3>1, <3>2, <3>3 DEF ChanOK
  <2>6. LineOK(r)'
    <3>1. Stored(r)' <= made'[r]
      BY <1>0, <1>2, <1>3 DEF LineOK
    <3>2. ASSUME ~errored[r]
          PROVE  \E q \in [0 .. L + 1 -> 0 .. made[r]] : Line(r, q)'
      <4>1. PICK p \in [0 .. L -> 0 .. made[r]] : Line(r, p)
        BY <2>3, <3>2, <1>2 DEF LineOK
      <4>2. p[L] \in 0 .. made[r]
        BY <1>3
      <4>3. /\ out[r].rows = Stretch(p[L], Len(out[r].rows))
            /\ p[L] + Len(out[r].rows) <= made[r]
            /\ at[r] = "send" => p[L] + Len(out[r].rows) = made[r]
        <5>1. CASE at[r] = "send"
          BY <5>1, <4>1, <1>3 DEF Line, Stands
        <5>2. CASE at[r] = "last"
          <6>1. out[r].rows = <<>>
            BY <5>2, <1>2 DEF TaskOK
          <6> QED
            BY <5>2, <6>1, <4>2, <1>3, EventKinds
        <5> QED
          BY <5>1, <5>2, <1>0
      <4>4. \A i \in 1 .. L : InLine(chan[r], p, i)
        BY <4>1 DEF Line
      <4>5. PICK q \in [0 .. L + 1 -> 0 .. made[r]] :
               /\ q[0] = p[0] /\ q[L + 1] = p[L] + Len(out[r].rows)
               /\ \A i \in 1 .. L + 1 : InLine(t, q, i)
        BY <1>3, <4>3, <4>4, LineGrows
      <4>6. at'[r] = "stream" => q[L + 1] = made[r]
        BY <1>0, <1>1, <1>2, <4>3, <4>5 DEF TaskOK
      <4>7. out[r].ev \in {"Finished", "WriteFinished"} => q[L + 1] = made[r]
        BY <1>0, <1>2, <4>3, <4>5 DEF TaskOK
      <4>8. PICK n : n = L + 1
        OBVIOUS
      <4>9. Line(r, q)'
        <5>1. q[0] = Taken(r)' /\ n \in Nat \ {0}
          BY <4>1, <4>5, <4>8, <1>3 DEF Line
        <5>2. Stands(r, q[n])'
          <6>1. at'[r] # "send"
            BY <1>1
          <6>2. at'[r] = "stream" => q[n] = made'[r]
            BY <1>0, <4>6, <4>8
          <6> QED
            BY <6>1, <6>2 DEF Stands
        <5>3. Len(chan[r])' = n
          BY <2>1, <4>8
        <5>4. \A i \in 1 .. n : InLine(chan[r], q, i)'
          <6> HIDE DEF t, L
          <6> QED
            BY <2>1, <4>5, <4>8 DEF InLine
        <5>5. chan[r][n].ev' \in {"Finished", "WriteFinished"} => q[n] = made[r]'
          BY <2>1, <4>7, <4>8, <1>0
        <5> QED
          BY <5>1, <5>2, <5>3, <5>4, <5>5 DEF Line
      <4> QED
        BY <4>9
    <3> HIDE DEF t, L
    <3> QED
      BY <3>1, <3>2, <2>1, <1>0 DEF LineOK
  <2> QED
    BY <1>0, <1>2, <1>5, <1>6, <1>8, <2>2, <2>5, <2>6 DEF RunOK
<1> QED
  BY <1>9, <1>10 DEF Deliver

-----------------------------------------------------------------------------
(* The steps of the event loop.                                            *)

(* What the loop may have before it: no Started, for that one is taken.    *)
Pending(r, left) ==
    /\ left \in Seq(EventSet) /\ Len(left) <= ChanCap
    /\ \A i \in 1 .. Len(left) :
         /\ left[i].ev = "Batch" <=> left[i].rows # <<>>
         /\ left[i].ev # "Started"
         /\ left[i].ev \in Terminal => i = Len(left) /\ at[r] \in {"closing", "done"}
         /\ left[i].ev \in {"Finished", "WriteFinished"} => over[r]
         /\ left[i].ev = "WriteFinished" => made[r] = 0
    /\ at[r] \in {"none", "start", "opening", "query"} \/ out[r].ev = "Started" => left = <<>>

(* The task of r has ended only if left ends with a terminal event.        *)
Ending(r, left) ==
    at[r] \in {"closing", "done"} => left # <<>> /\ left[Len(left)].ev \in Terminal

(* While a batch is being written, all of the channel is still before the  *)
(* loop.                                                                   *)
LEMMA SpillPends ==
    ASSUME Types, NEW r \in Runs, RunOK(r), loop[r] = "spill"
    PROVE  Pending(r, chan[r]) /\ Ending(r, chan[r])
<1>1. chan[r] \in Seq(EventSet)
  BY OneRun
<1>2. ChanOK(r) /\ TaskOK(r) /\ history[r] = <<>>
  BY DEF RunOK, SpillOK
<1>3. Ending(r, chan[r])
  BY <1>2 DEF ChanOK, Ending
<1>4. Pending(r, chan[r])
  BY <1>1, <1>2 DEF ChanOK, TaskOK, Pending
<1> QED
  BY <1>3, <1>4

(* When the loop has taken an event, what is behind it is before it;       *)
(* behind a terminal event there is nothing.                               *)
LEMMA TailPends ==
    ASSUME Types, NEW r \in Runs, RunOK(r), loop[r] = "recv", chan[r] # <<>>
    PROVE  /\ Pending(r, Tail(chan[r]))
           /\ Head(chan[r]).ev \notin Terminal => Ending(r, Tail(chan[r]))
           /\ Head(chan[r]).ev \in Terminal => Tail(chan[r]) = <<>> /\ at[r] \in {"closing", "done"}
           /\ Head(chan[r]) = chan[r][1] /\ Head(chan[r]) \in EventSet /\ 1 \in 1 .. Len(chan[r])
           /\ history[r] = <<>>
<1> DEFINE s == chan[r]
           t == Tail(s)
<1>1. s \in Seq(EventSet) /\ Len(s) \in Nat
  BY OneRun
<1>2. /\ Len(s) >= 1 /\ t \in Seq(EventSet) /\ Len(t) = Len(s) - 1 /\ Len(t) \in Nat
      /\ \A i \in 1 .. Len(t) : t[i] = s[i + 1] /\ i + 1 \in 1 .. Len(s)
      /\ Head(s) = s[1]
  BY <1>1
<1>3. ChanOK(r) /\ TaskOK(r) /\ history[r] = <<>>
  BY DEF RunOK, HistoryOK
<1>4. Head(s) \in EventSet /\ 1 \in 1 .. Len(s)
  BY <1>1, <1>2
<1>5. Head(s).ev \in Terminal => t = <<>> /\ at[r] \in {"closing", "done"}
  <2>1. ASSUME Head(s).ev \in Terminal PROVE 1 = Len(s) /\ at[r] \in {"closing", "done"}
    BY <2>1, <1>2, <1>3, <1>4 DEF ChanOK
  <2>2. ASSUME 1 = Len(s) PROVE t = <<>>
    <3>1. Len(t) = 0 /\ t \in Seq(EventSet)
      BY <2>2, <1>2
    <3> HIDE DEF t
    <3> QED
      BY <3>1
  <2> QED
    BY <2>1, <2>2
<1>6. ASSUME Head(s).ev \notin Terminal, at[r] \in {"closing", "done"}
      PROVE  t # <<>> /\ t[Len(t)].ev \in Terminal
  <2>1. s[Len(s)].ev \in Terminal
    BY <1>3, <1>6 DEF ChanOK
  <2>2. Len(s) # 1
    BY <2>1, <1>2, <1>6
  <2> HIDE DEF t, s
  <2>3. Len(t) \in 1 .. Len(t) /\ Len(t) + 1 = Len(s)
    BY <2>2, <1>1, <1>2
  <2>4. t # <<>> /\ t[Len(t)] = s[Len(s)]
    BY <2>3, <1>2
  <2> QED
    BY <2>1, <2>4
<1>7. Len(t) <= ChanCap
  BY <1>1, <1>2, <1>3, EditorRunAssumption DEF ChanOK
<1>8. ASSUME NEW i \in 1 .. Len(t)
      PROVE  /\ t[i].ev = "Batch" <=> t[i].rows # <<>>
             /\ t[i].ev # "Started"
             /\ t[i].ev \in Terminal => i = Len(t) /\ at[r] \in {"closing", "done"}
             /\ t[i].ev \in {"Finished", "WriteFinished"} => over[r]
             /\ t[i].ev = "WriteFinished" => made[r] = 0
  <2>1. t[i] = s[i + 1] /\ i + 1 \in 1 .. Len(s) /\ i + 1 # 1
    BY <1>2
  <2>2. i + 1 = Len(s) => i = Len(t)
    BY <1>2
  <2> HIDE DEF t
  <2> QED
    BY <2>1, <2>2, <1>3 DEF ChanOK
<1>9. at[r] \in {"none", "start", "opening", "query"} \/ out[r].ev = "Started" => FALSE
  BY <1>3 DEF TaskOK
<1>10. Pending(r, t)
  <2> HIDE DEF t, s
  <2> QED
    BY <1>2, <1>7, <1>8, <1>9 DEF Pending
<1> QED
  BY <1>2, <1>3, <1>4, <1>5, <1>6, <1>10 DEF Ending

(* The task of r stands still while its loop moves.                        *)
SameTask(r) == at'[r] = at[r] /\ out'[r] = out[r] /\ made'[r] = made[r] /\ over'[r] = over[r]

(* A loop that goes on with what is left in the channel keeps what is said *)
(* of task and channel.                                                    *)
LEMMA LeftKeeps ==
    ASSUME Types, NEW r \in Runs, RunOK(r), NEW left, Pending(r, left), chan'[r] = left, SameTask(r),
           loop'[r] \in {"recv", "spill"}, history'[r] # <<>> \/ Ending(r, left)
    PROVE  TaskOK(r)' /\ ChanOK(r)'
<1>1. TaskOK(r)
  BY DEF RunOK
<1>2. TaskOK(r)'
  BY <1>1 DEF TaskOK, Pending, SameTask
<1>3. ChanOK(r)'
  BY DEF ChanOK, Pending, SameTask, Ending
<1> QED
  BY <1>2, <1>3

(* So does a loop that ends and drops the channel.                         *)
LEMMA EmptyKeeps ==
    ASSUME Types, NEW r \in Runs, RunOK(r), chan'[r] = <<>>, SameTask(r), loop'[r] = "done"
    PROVE  TaskOK(r)' /\ ChanOK(r)'
<1>1. TaskOK(r)
  BY DEF RunOK
<1>2. TaskOK(r)'
  BY <1>1 DEF TaskOK, SameTask
<1>3. ChanOK(r)'
  BY EditorRunAssumption, EventKinds DEF ChanOK
<1> QED
  BY <1>2, <1>3

(* The events left are in line from row `from' on.                         *)
Onward(r, left, from, q) ==
    /\ q[0] = from
    /\ \A i \in 1 .. Len(left) : InLine(left, q, i)
    /\ Stands(r, q[Len(left)])
    /\ Len(left) > 0 /\ left[Len(left)].ev \in {"Finished", "WriteFinished"} => q[Len(left)] = made[r]

(* What is left, in line from the row the loop has taken last, is the new  *)
(* line.                                                                   *)
LEMMA OnwardIsLine ==
    ASSUME NEW r \in Runs, NEW left, NEW from, NEW q, Onward(r, left, from, q),
           chan'[r] = left, Taken(r)' = from, SameTask(r)
    PROVE  Line(r, q)'
<1>1. PICK n : n = Len(left)
  OBVIOUS
<1>2. Stands(r, q[n])'
  BY <1>1 DEF Onward, Stands, SameTask
<1>3. Len(chan[r])' = n
  BY <1>1
<1>4. \A i \in 1 .. n : InLine(chan[r], q, i)'
  BY <1>1 DEF Onward, InLine
<1>5. n > 0 /\ chan[r][n].ev' \in {"Finished", "WriteFinished"} => q[n] = made[r]'
  BY <1>1 DEF Onward, SameTask
<1>6. q[0] = Taken(r)'
  BY DEF Onward
<1> QED
  BY <1>2, <1>3, <1>4, <1>5, <1>6 DEF Line

(* The event the loop takes brings the rows behind those that are stored,  *)
(* and the others follow.                                                  *)
LEMMA TailInLine ==
    ASSUME Types, NEW r \in Runs, RunOK(r), loop[r] = "recv", chan[r] # <<>>, ~errored[r]
    PROVE  LET n == Len(Head(chan[r]).rows) IN
           /\ n \in Nat /\ Head(chan[r]).rows = Stretch(Stored(r), n) /\ Stored(r) + n <= made[r]
           /\ Head(chan[r]).ev \in {"Finished", "WriteFinished"} => Stored(r) + n = made[r]
           /\ \E q \in [0 .. Len(Tail(chan[r])) -> 0 .. made[r]] :
                 Onward(r, Tail(chan[r]), Stored(r) + n, q)
<1> DEFINE s == chan[r]
           n == Len(Head(s).rows)
<1>1. /\ s \in Seq(EventSet) /\ Len(s) \in Nat /\ made[r] \in Nat /\ Stored(r) \in Nat
      /\ Head(s) = s[1] /\ 1 \in 1 .. Len(s) /\ s[1].rows \in Seq(Nat)
      /\ Head(s).ev \in Terminal => Tail(s) = <<>>
  BY OneRun, TailPends
<1>2. n \in Nat
  BY <1>1
<1>3. PICK p \in [0 .. Len(s) -> 0 .. made[r]] : Line(r, p)
  BY DEF RunOK, LineOK
<1>4. /\ p[0] = Stored(r) /\ \A i \in 1 .. Len(s) : InLine(s, p, i)
      /\ Stands(r, p[Len(s)])
      /\ Len(s) > 0 /\ s[Len(s)].ev \in {"Finished", "WriteFinished"} => p[Len(s)] = made[r]
  BY <1>1, <1>3 DEF Line, Taken
<1>5. p[1] = Stored(r) + n /\ s[1].rows = Stretch(Stored(r), n) /\ p[1] \in 0 .. made[r]
  <2>1. InLine(s, p, 1)
    BY <1>1, <1>4
  <2>2. 1 \in 0 .. Len(s) /\ 1 - 1 = 0
    BY <1>1
  <2> QED
    BY <2>1, <2>2, <1>1, <1>4 DEF InLine
<1>6. PICK q \in [0 .. Len(Tail(s)) -> 0 .. made[r]] :
         /\ q[0] = p[1] /\ q[Len(Tail(s))] = p[Len(s)]
         /\ \A i \in 1 .. Len(Tail(s)) : InLine(Tail(s), q, i)
  <2>1. s # <<>>
    OBVIOUS
  <2> HIDE DEF s
  <2> QED
    BY <2>1, <1>1, <1>3, <1>4, LineShrinks
<1>7. Onward(r, Tail(s), Stored(r) + n, q)
  <2>1. ASSUME Len(Tail(s)) > 0 PROVE Tail(s)[Len(Tail(s))] = s[Len(s)] /\ Len(s) > 0
    <3>1. Len(Tail(s)) = Len(s) - 1
      BY <1>1
    <3> QED
      BY <2>1, <3>1, <1>1
  <2> HIDE DEF s, n
  <2> QED
    BY <2>1, <1>4, <1>5, <1>6 DEF Onward
<1>8. ASSUME s[1].ev \in {"Finished", "WriteFinished"} PROVE p[1] = made[r]
  <2>1. Tail(s) = <<>>
    BY <1>1, <1>8 DEF Terminal
  <2>2. Len(s) = 1
    <3>1. Len(Tail(s)) = Len(s) - 1
      BY <1>1
    <3>2. Len(Tail(s)) = 0
      BY <2>1, EventKinds
    <3> QED
      BY <3>1, <3>2, <1>1
  <2> QED
    BY <2>2, <1>4, <1>8
<1> QED
  BY <1>1, <1>2, <1>5, <1>7, <1>8

(* apply_batch keeps the invariant: with the batch stored what is left is  *)
(* in line behind it; with a failed push no line is asked for any more.    *)
LEMMA ApplyKeeps ==
    ASSUME Types, NEW r \in Runs, RunOK(r), NEW left, Pending(r, left), Ending(r, left),
           NEW pushed, NEW bad \in BOOLEAN, ApplyBatch(r, left, pushed, bad),
           loop[r] \in {"recv", "spill"}, history[r] = <<>>, made[r] > 0, spill'[r].state = "none",
           BufferOK(pushed), RowCount(pushed) <= made[r],
           ~errored[r] /\ ~bad =>
             \E q \in [0 .. Len(left) -> 0 .. made[r]] : Onward(r, left, RowCount(pushed), q)
    PROVE  RunOK(r)'
<1>1. /\ editorOpen' = editorOpen /\ generation' = generation /\ results' = results
      /\ SameTask(r) /\ history'[r] = <<>>
  BY DEF ApplyBatch, SameTask, task
<1>2. /\ loop \in [Runs -> {"none", "recv", "spill", "done"}] /\ chan \in [Runs -> Seq(EventSet)]
      /\ errored \in [Runs -> BOOLEAN] /\ DOMAIN buf = Runs /\ buf = [q \in Runs |-> buf[q]]
      /\ made[r] \in Nat
  BY DEF Types
<1>3. buf'[r] = IF loop'[r] \in {"recv", "spill"} \/ r \in results THEN pushed ELSE NewBuffer
  <2> DEFINE bs == [buf EXCEPT ![r] = pushed]
  <2>1. bs[r] = pushed /\ buf' = Held(bs, loop', results)
    BY <1>2 DEF ApplyBatch
  <2> HIDE DEF bs
  <2>2. \A q \in Runs : Held(bs, loop', results)[q]
           = IF loop'[q] \in {"recv", "spill"} \/ q \in results THEN bs[q] ELSE NewBuffer
    BY HeldShape
  <2> QED
    BY <2>1, <2>2
<1>4. \/ loop'[r] = "done" /\ chan'[r] = <<>> /\ errored'[r] = errored[r]
           /\ (~editorOpen \/ r \notin results)
      \/ loop'[r] = "recv" /\ chan'[r] = left /\ errored'[r]
      \/ loop'[r] = "recv" /\ chan'[r] = left /\ ~errored'[r] /\ ~errored[r] /\ ~bad
  <2>1. Leave(r) => loop'[r] = "done" /\ chan'[r] = <<>>
    BY <1>2 DEF Leave
  <2>2. Continue(r, left) => loop'[r] = "recv" /\ chan'[r] = left
    BY <1>2 DEF Continue
  <2>3. errored' = [errored EXCEPT ![r] = TRUE] => errored'[r] = TRUE
    BY <1>2
  <2>4. CASE ~editorOpen
    BY <2>1, <2>4 DEF ApplyBatch
  <2>5. CASE editorOpen /\ errored[r]
    BY <2>2, <2>5 DEF ApplyBatch
  <2>6. CASE editorOpen /\ ~errored[r] /\ r \notin results
    BY <2>1, <2>6 DEF ApplyBatch
  <2>7. CASE editorOpen /\ ~errored[r] /\ r \in results /\ bad
    <3>1. Continue(r, left) /\ errored' = [errored EXCEPT ![r] = TRUE]
      BY <2>7 DEF ApplyBatch
    <3> QED
      BY <2>2, <2>3, <3>1
  <2>8. CASE editorOpen /\ ~errored[r] /\ r \in results /\ ~bad
    <3>1. Continue(r, left) /\ UNCHANGED errored
      BY <2>8 DEF ApplyBatch
    <3> QED
      BY <2>2, <2>8, <3>1
  <2> QED
    BY <2>4, <2>5, <2>6, <2>7, <2>8
<1>5. BufferOK(buf[r])' /\ Stored(r)' \in Nat /\ Stored(r)' <= made[r]
      /\ (buf'[r] = pushed => Stored(r)' = RowCount(pushed))
  <2>1. BufferOK(NewBuffer) /\ RowCount(NewBuffer) = 0
    BY NewBufferIsOK
  <2>2. RowCount(pushed) \in Nat
    BY RowCountType
  <2> QED
    BY <1>2, <1>3, <2>1, <2>2 DEF Stored
<1>6. BegunOK(r) /\ SpillOK(r)
  BY DEF RunOK
<1>7. BegunOK(r)'
  BY <1>1, <1>4, <1>6 DEF BegunOK, SameTask
<1>8. TaskOK(r)' /\ ChanOK(r)'
  BY <1>1, <1>4, LeftKeeps, EmptyKeeps
<1>9. SpillOK(r)'
  BY <1>1, <1>4 DEF SpillOK, SameTask
<1>10. LineOK(r)'
  <2>1. CASE loop'[r] = "done" \/ errored'[r]
    BY <2>1, <1>1, <1>5 DEF LineOK, SameTask
  <2>2. CASE loop'[r] = "recv" /\ chan'[r] = left /\ ~errored[r] /\ ~bad
    <3>1. PICK q \in [0 .. Len(left) -> 0 .. made[r]] : Onward(r, left, RowCount(pushed), q)
      BY <2>2
    <3>2. Taken(r)' = RowCount(pushed)
      BY <2>2, <1>3, <1>5 DEF Taken
    <3>3. Line(r, q)'
      BY <2>2, <3>1, <3>2, <1>1, OnwardIsLine
    <3>4. q \in [0 .. Len(chan'[r]) -> 0 .. made'[r]]
      BY <2>2, <1>1 DEF SameTask
    <3>5. Stored(r)' <= made'[r]
      BY <1>1, <1>5 DEF SameTask
    <3> QED
      BY <3>3, <3>4, <3>5 DEF LineOK
  <2> QED
    BY <2>1, <2>2, <1>4
<1>11. HistoryOK(r)'
  BY <1>1, <1>4, EventKinds DEF HistoryOK, SameTask
<1> QED
  BY <1>5, <1>7, <1>8, <1>9, <1>10, <1>11 DEF RunOK

(* A batch that stays in memory keeps the invariant.                       *)
LEMMA OnBatchKeeps ==
    ASSUME Types, NEW r \in Runs, RunOK(r), OnBatch(r)
    PROVE  RunOK(r)'
<1> DEFINE batch == Head(chan[r]).rows
           n == Len(batch)
<1>1. loop[r] = "recv" /\ chan[r] # <<>> /\ Head(chan[r]).ev = "Batch" /\ UNCHANGED spill
  BY DEF OnBatch, Ready
<1>2. Pending(r, Tail(chan[r])) /\ Ending(r, Tail(chan[r])) /\ history[r] = <<>>
  BY <1>1, TailPends DEF Terminal
<1>3. n \in Nat \ {0}
  <2>1. Head(chan[r]) = chan[r][1] /\ 1 \in 1 .. Len(chan[r])
    BY <1>1, TailPends
  <2>2. batch # <<>>
    BY <2>1, <1>1 DEF RunOK, ChanOK
  <2>3. batch \in Seq(Nat)
    BY <2>1, OneRun
  <2> HIDE DEF batch
  <2> QED
    BY <2>2, <2>3
<1>4. SpillOK(r) /\ LineOK(r) /\ BufferOK(buf[r]) /\ spill[r].state = "none"
  BY <1>1 DEF RunOK, SpillOK
<1>5. made[r] \in Nat /\ Stored(r) \in Nat /\ Stored(r) <= made[r] /\ Stored(r) = RowCount(buf[r])
  BY <1>4, OneRun DEF LineOK, Stored
<1>6. ASSUME ~errored[r]
      PROVE  /\ batch = Stretch(Stored(r), n) /\ Stored(r) + n <= made[r]
             /\ \E q \in [0 .. Len(Tail(chan[r])) -> 0 .. made[r]] :
                   Onward(r, Tail(chan[r]), Stored(r) + n, q)
  BY <1>1, <1>6, TailInLine
<1>7. made[r] > 0
  BY <1>3, <1>4, <1>5, <1>6 DEF SpillOK
<1>8. CASE errored[r] /\ ApplyBatch(r, Tail(chan[r]), buf[r], FALSE)
  BY <1>1, <1>2, <1>4, <1>5, <1>7, <1>8, ApplyKeeps
<1>9. CASE ~errored[r] /\ ApplyBatch(r, Tail(chan[r]), CommitMem(buf[r], batch), FALSE)
  <2>1. BufferOK(CommitMem(buf[r], batch)) /\ RowCount(CommitMem(buf[r], batch)) = Stored(r) + n
    BY <1>3, <1>4, <1>5, <1>6, <1>9, CommitMemIsOK
  <2> HIDE DEF n
  <2> QED
    BY <1>1, <1>2, <1>4, <1>5, <1>6, <1>7, <1>9, <2>1, ApplyKeeps
<1>10. CASE ~errored[r] /\ ApplyBatch(r, Tail(chan[r]), buf[r], TRUE)
  BY <1>1, <1>2, <1>4, <1>5, <1>7, <1>10, ApplyKeeps
<1> QED
  BY <1>8, <1>9, <1>10 DEF OnBatch

(* The end of a spill, with the file written or not, keeps the invariant.  *)
LEMMA FinishSpillKeeps ==
    ASSUME Types, NEW r \in Runs, RunOK(r), FinishSpill(r)
    PROVE  RunOK(r)'
<1> DEFINE n == Len(spill[r].rows)
           done == CommitSpill(buf[r], spill[r].ix, n)
<1>1. spill[r].state # "none" /\ spill' = [spill EXCEPT ![r] = NoSpill]
  BY DEF FinishSpill
<1>2. SpillOK(r) /\ LineOK(r) /\ BufferOK(buf[r]) /\ loop[r] = "spill"
  BY <1>1 DEF RunOK, SpillOK
<1>3. Pending(r, chan[r]) /\ Ending(r, chan[r])
  BY <1>2, SpillPends
<1>4. ~errored[r] /\ history[r] = <<>> /\ spill[r].ix = buf[r].spillFiles
      /\ spill[r].rows # <<>> /\ spill[r].rows = Stretch(Stored(r), n)
  BY <1>2 DEF SpillOK
<1>5. made[r] \in Nat /\ Stored(r) \in Nat /\ Stored(r) <= made[r] /\ Stored(r) = RowCount(buf[r])
      /\ n \in Nat /\ spill[r].rows \in Seq(Nat)
  BY <1>2, OneRun DEF LineOK, Stored
<1>6. n \in Nat \ {0}
  BY <1>4, <1>5
<1>7. spill'[r].state = "none"
  <2>1. spill \in [Runs -> SpillSet]
    BY DEF Types
  <2> QED
    BY <1>1, <2>1 DEF NoSpill
<1>8. PICK p \in [0 .. Len(chan[r]) -> 0 .. made[r]] : Line(r, p)
  BY <1>2, <1>4 DEF LineOK
<1>9. Onward(r, chan[r], Stored(r) + n, p)
  BY <1>2, <1>8 DEF Onward, Line, Taken
<1>10. Stored(r) + n <= made[r] /\ made[r] > 0
  <2>1. p[0] = Stored(r) + n
    BY <1>9 DEF Onward
  <2>2. Len(chan[r]) \in Nat
    BY OneRun
  <2>3. p[0] \in 0 .. made[r]
    BY <2>2
  <2> QED
    BY <2>1, <2>3, <1>5, <1>6
<1>11. CASE spill[r].state = "written" /\ ApplyBatch(r, chan[r], done, FALSE)
  <2>1. Len(buf[r].files) = spill[r].ix + 1 /\ buf[r].files[spill[r].ix + 1] = Whole(Stretch(RowCount(buf[r]), n))
    BY <1>2, <1>4, <1>5, <1>11 DEF SpillOK
  <2>2. BufferOK(done) /\ RowCount(done) = Stored(r) + n
    <3> HIDE DEF n
    <3> QED
      BY <2>1, <1>2, <1>4, <1>5, <1>6, CommitSpillIsOK
  <2> HIDE DEF done, n
  <2> QED
    BY <1>2, <1>3, <1>4, <1>7, <1>9, <1>10, <1>11, <2>2, ApplyKeeps
<1>12. CASE spill[r].state = "failed" /\ ApplyBatch(r, chan[r], buf[r], TRUE)
  <2> HIDE DEF done, n
  <2> QED
    BY <1>2, <1>3, <1>4, <1>5, <1>7, <1>10, <1>12, ApplyKeeps
<1> QED
  BY <1>11, <1>12 DEF FinishSpill

(* A batch that spills holds the next rows, and the index of the file it   *)
(* will be.                                                                *)
LEMMA BeginPushKeeps ==
    ASSUME Types, NEW r \in Runs, RunOK(r), BeginPush(r)
    PROVE  RunOK(r)'
<1> DEFINE batch == Head(chan[r]).rows
           n == Len(batch)
<1>1. loop[r] = "recv" /\ chan[r] # <<>> /\ Head(chan[r]).ev = "Batch" /\ ~errored[r]
  BY DEF BeginPush, Ready
<1>2. /\ loop \in [Runs -> {"none", "recv", "spill", "done"}] /\ chan \in [Runs -> Seq(EventSet)]
      /\ spill \in [Runs -> SpillSet] /\ DOMAIN buf = Runs /\ buf = [q \in Runs |-> buf[q]]
  BY DEF Types
<1>3. /\ loop'[r] = "spill" /\ chan'[r] = Tail(chan[r]) /\ buf'[r] = BeginSpill(buf[r])
      /\ spill'[r] = [rows |-> batch, ix |-> SpillIndex(buf[r]), state |-> "writing"]
      /\ editorOpen' = editorOpen /\ generation' = generation /\ results' = results
      /\ SameTask(r) /\ errored' = errored /\ history' = history
  BY <1>2 DEF BeginPush, editor, task, SameTask
<1>4. /\ Pending(r, Tail(chan[r])) /\ Ending(r, Tail(chan[r])) /\ history[r] = <<>>
  BY <1>1, TailPends DEF Terminal
<1>5. batch # <<>>
  <2>1. Head(chan[r]) = chan[r][1] /\ 1 \in 1 .. Len(chan[r])
    BY <1>1, TailPends
  <2> QED
    BY <2>1, <1>1 DEF RunOK, ChanOK
<1>6. /\ BegunOK(r) /\ SpillOK(r) /\ LineOK(r) /\ HistoryOK(r) /\ BufferOK(buf[r])
  BY DEF RunOK
<1>7. /\ n \in Nat /\ batch = Stretch(Stored(r), n)
      /\ \E q \in [0 .. Len(Tail(chan[r])) -> 0 .. made[r]] :
            Onward(r, Tail(chan[r]), Stored(r) + n, q)
  BY <1>1, TailInLine
<1>8. BufferOK(buf[r])' /\ Stored(r)' = Stored(r) /\ buf'[r].spillFiles = buf[r].spillFiles
  BY <1>3, <1>6, BeginSpillIsOK DEF Stored
<1>9. Stored(r) <= made[r] /\ made'[r] = made[r]
  BY <1>3, <1>6 DEF LineOK, SameTask
<1>10. BegunOK(r)'
  BY <1>1, <1>3, <1>6 DEF BegunOK, SameTask
<1>11. TaskOK(r)' /\ ChanOK(r)'
  BY <1>3, <1>4, LeftKeeps
<1>12. SpillOK(r)'
  <2>1. errored[r] => made[r] > 0
    BY <1>6 DEF SpillOK
  <2>2. SpillIndex(buf[r]) = buf'[r].spillFiles
    BY <1>8 DEF SpillIndex
  <2> HIDE DEF n, batch
  <2>3. spill'[r].rows = batch /\ spill'[r].state = "writing" /\ spill'[r].ix = buf'[r].spillFiles
    BY <1>3, <2>2
  <2>4. batch = Stretch(Stored(r)', Len(batch))
    BY <1>7, <1>8 DEF n
  <2> QED
    BY <1>1, <1>3, <1>4, <1>5, <1>9, <2>1, <2>3, <2>4 DEF SpillOK
<1>13. LineOK(r)'
  <2>1. PICK q \in [0 .. Len(Tail(chan[r])) -> 0 .. made[r]] : Onward(r, Tail(chan[r]), Stored(r) + n, q)
    BY <1>7
  <2>2. Taken(r)' = Stored(r) + n
    BY <1>3, <1>8 DEF Taken
  <2>3. Line(r, q)'
    <3> HIDE DEF n
    <3> QED
      BY <1>3, <2>1, <2>2, OnwardIsLine
  <2>4. q \in [0 .. Len(chan'[r]) -> 0 .. made'[r]]
    BY <1>3, <1>9
  <2> QED
    BY <2>3, <2>4, <1>8, <1>9 DEF LineOK
<1>14. HistoryOK(r)'
  BY <1>3, <1>4, EventKinds DEF HistoryOK
<1> QED
  BY <1>8, <1>10, <1>11, <1>12, <1>13, <1>14 DEF RunOK

(* The write of the file, or its failure, on the thread of the pool keeps  *)
(* the invariant.                                                          *)
LEMMA WriteKeeps ==
    ASSUME Types, NEW r \in Runs, RunOK(r), WriteSpillFile(r)
    PROVE  RunOK(r)'
<1> DEFINE ix == spill[r].ix
<1>1. /\ spill \in [Runs -> SpillSet] /\ DOMAIN buf = Runs /\ buf = [q \in Runs |-> buf[q]]
      /\ spill[r] \in SpillSet /\ spill[r].rows \in Seq(Nat)
  BY OneRun DEF Types
<1>2. /\ editorOpen' = editorOpen /\ generation' = generation /\ results' = results
      /\ at' = at /\ out' = out /\ made' = made /\ over' = over /\ chan' = chan /\ loop' = loop
      /\ errored' = errored /\ history' = history /\ spill[r].state = "writing"
  BY DEF WriteSpillFile, editor, task
<1>3. /\ BegunOK(r) /\ TaskOK(r) /\ ChanOK(r) /\ SpillOK(r) /\ LineOK(r) /\ HistoryOK(r) /\ BufferOK(buf[r])
      /\ loop[r] = "spill"
  BY <1>2 DEF RunOK, SpillOK
<1>4. \E content \in FileSet :
         /\ buf'[r] = Write(buf[r], ix, content)
         /\ spill'[r].state \in {"written", "failed"}
         /\ spill'[r].state = "written" => content = Whole(spill[r].rows)
         /\ spill'[r].rows = spill[r].rows /\ spill'[r].ix = spill[r].ix
  <2>1. Torn \in FileSet /\ Whole(spill[r].rows) \in FileSet
    BY <1>1 DEF Torn, Whole, FileSet
  <2>2. CASE /\ buf' = [buf EXCEPT ![r] = Write(buf[r], spill[r].ix, Whole(spill[r].rows))]
             /\ spill' = [spill EXCEPT ![r].state = "written"]
    BY <2>1, <2>2, <1>1 DEF SpillSet
  <2>3. CASE /\ buf' = [buf EXCEPT ![r] = Write(buf[r], spill[r].ix, Torn)]
             /\ spill' = [spill EXCEPT ![r].state = "failed"]
    BY <2>1, <2>3, <1>1 DEF SpillSet
  <2> QED
    BY <2>2, <2>3 DEF WriteSpillFile
<1>5. PICK content \in FileSet :
         /\ buf'[r] = Write(buf[r], ix, content)
         /\ spill'[r].state \in {"written", "failed"}
         /\ spill'[r].state = "written" => content = Whole(spill[r].rows)
         /\ spill'[r].rows = spill[r].rows /\ spill'[r].ix = spill[r].ix
  BY <1>4
<1>6. ix = buf[r].spillFiles
  BY <1>3 DEF SpillOK
<1>7. /\ BufferOK(buf[r])' /\ Stored(r)' = Stored(r) /\ Taken(r)' = Taken(r)
      /\ buf'[r].spillFiles = buf[r].spillFiles
      /\ Len(buf'[r].files) = ix + 1 /\ buf'[r].files[ix + 1] = content
  <2>1. /\ BufferOK(buf'[r]) /\ RowCount(buf'[r]) = RowCount(buf[r])
        /\ buf'[r].spillFiles = buf[r].spillFiles
        /\ Len(buf'[r].files) = ix + 1 /\ buf'[r].files[ix + 1] = content
    <3> HIDE DEF ix
    <3> QED
      BY <1>3, <1>5, <1>6, WriteIsOK
  <2> QED
    BY <2>1, <1>2, <1>5 DEF Stored, Taken
<1>8. BegunOK(r)' /\ TaskOK(r)'
  BY <1>2, <1>3 DEF BegunOK, TaskOK
<1>9. ChanOK(r)'
  BY <1>2, <1>3, <1>7 DEF ChanOK
<1>10. SpillOK(r)'
  BY <1>2, <1>3, <1>5, <1>6, <1>7 DEF SpillOK
<1>11. LineOK(r)'
  BY <1>2, <1>3, <1>7 DEF LineOK, Line, Stands
<1>12. HistoryOK(r)'
  BY <1>2, <1>3, <1>7 DEF HistoryOK
<1> QED
  BY <1>7, <1>8, <1>9, <1>10, <1>11, <1>12 DEF RunOK

(* An arm that takes an event without storing anything keeps the           *)
(* invariant.                                                              *)
LEMMA EventKeeps ==
    ASSUME Types, NEW r \in Runs, RunOK(r), loop[r] = "recv", chan[r] # <<>>,
           Head(chan[r]).ev # "Batch", chan'[r] = Tail(chan[r]), loop'[r] = "recv", SameTask(r),
           buf'[r] = buf[r], spill'[r] = spill[r], errored'[r] = errored[r], ~(r > generation'),
           Head(chan[r]).ev \notin Terminal => history'[r] = <<>>,
           Head(chan[r]).ev \in Terminal =>
             \E e \in Entries : /\ history'[r] = <<e>>
                                /\ e.ok => over[r] /\ e.rows = made[r] /\ Stored(r) = made[r]
    PROVE  RunOK(r)'
<1> DEFINE n == Len(Head(chan[r]).rows)
<1>1. /\ BegunOK(r) /\ TaskOK(r) /\ ChanOK(r) /\ SpillOK(r) /\ LineOK(r) /\ HistoryOK(r) /\ BufferOK(buf[r])
  BY DEF RunOK
<1>2. /\ history'[r] # <<>> \/ Ending(r, Tail(chan[r]))
      /\ Head(chan[r]).ev \in Terminal => Tail(chan[r]) = <<>> /\ at[r] \in {"closing", "done"}
  <2>1. \A e : <<e>> # <<>>
    OBVIOUS
  <2> QED
    BY <2>1, TailPends
<1>3. Pending(r, Tail(chan[r]))
  BY TailPends
<1>4. TaskOK(r)' /\ ChanOK(r)'
  BY <1>2, <1>3, LeftKeeps
<1>5. n = 0
  <2>1. Head(chan[r]) = chan[r][1] /\ 1 \in 1 .. Len(chan[r])
    BY TailPends
  <2>2. Head(chan[r]).rows = <<>>
    BY <2>1, <1>1 DEF ChanOK
  <2> QED
    BY <2>2, EventKinds
<1>6. Stored(r)' = Stored(r) /\ Stored(r) \in Nat /\ made'[r] = made[r] /\ Stored(r) <= made[r]
      /\ made[r] \in Nat /\ r \in Nat
  BY <1>1, OneRun DEF Stored, LineOK, SameTask, Runs
<1>7. BegunOK(r)'
  BY <1>1, <1>6 DEF BegunOK, SameTask
<1>8. SpillOK(r)'
  BY <1>1, <1>6 DEF SpillOK, SameTask
<1>9. LineOK(r)'
  <2>1. ASSUME ~errored[r] PROVE \E q \in [0 .. Len(chan'[r]) -> 0 .. made'[r]] : Line(r, q)'
    <3>1. PICK q \in [0 .. Len(Tail(chan[r])) -> 0 .. made[r]] : Onward(r, Tail(chan[r]), Stored(r) + n, q)
      BY <2>1, TailInLine
    <3>2. Onward(r, Tail(chan[r]), Stored(r), q)
      BY <3>1, <1>5, <1>6
    <3>3. Taken(r)' = Stored(r)
      BY <1>6 DEF Taken
    <3>4. Line(r, q)'
      BY <3>2, <3>3, OnwardIsLine
    <3> QED
      BY <3>1, <3>4, <1>6
  <2> QED
    BY <2>1, <1>6 DEF LineOK
<1>10. HistoryOK(r)'
  <2>1. CASE Head(chan[r]).ev \notin Terminal
    BY <2>1, EventKinds DEF HistoryOK
  <2>2. CASE Head(chan[r]).ev \in Terminal
    <3>1. PICK e \in Entries : /\ history'[r] = <<e>>
                               /\ e.ok => over[r] /\ e.rows = made[r] /\ Stored(r) = made[r]
      BY <2>2
    <3>2. Len(history'[r]) = 1 /\ history'[r][1] = e
      BY <3>1
    <3>3. chan'[r] = <<>> /\ at'[r] \in {"closing", "done"} /\ over'[r] = over[r]
      BY <2>2, <1>2 DEF SameTask
    <3>4. history'[r] # <<>>
      BY <3>1
    <3>5. \A i \in 1 .. Len(history'[r]) : i = 1
      BY <3>2
    <3> QED
      BY <3>1, <3>2, <3>3, <3>4, <3>5, <1>6 DEF HistoryOK
  <2> QED
    BY <2>1, <2>2
<1> QED
  BY <1>1, <1>4, <1>7, <1>8, <1>9, <1>10 DEF RunOK

(* A loop that ends without an entry of its own for what is left.          *)
LEMMA EndKeeps ==
    ASSUME Types, NEW r \in Runs, RunOK(r), loop[r] = "recv", loop'[r] = "done", chan'[r] = <<>>,
           SameTask(r), generation' = generation, results' = results, editorOpen' = editorOpen,
           spill'[r] = spill[r], errored'[r] = errored[r], history'[r] = history[r],
           \/ history[r] = <<>> /\ ~editorOpen /\ buf'[r] = NewBuffer
           \/ history[r] # <<>> /\ buf'[r] = IF r \in results THEN buf[r] ELSE NewBuffer
    PROVE  RunOK(r)'
<1>1. /\ BegunOK(r) /\ SpillOK(r) /\ LineOK(r) /\ HistoryOK(r) /\ BufferOK(buf[r])
      /\ made[r] \in Nat
  BY OneRun DEF RunOK
<1>2. BufferOK(NewBuffer) /\ RowCount(NewBuffer) = 0
  BY NewBufferIsOK
<1>3. BufferOK(buf[r])' /\ Stored(r)' <= made[r] /\ (history[r] # <<>> /\ r \in results => Stored(r)' = Stored(r))
  BY <1>1, <1>2 DEF Stored, LineOK
<1>4. TaskOK(r)' /\ ChanOK(r)'
  BY EmptyKeeps
<1>5. BegunOK(r)'
  BY <1>1 DEF BegunOK, SameTask
<1>6. SpillOK(r)'
  BY <1>1 DEF SpillOK, SameTask
<1>7. LineOK(r)'
  BY <1>3 DEF LineOK, SameTask
<1>8. HistoryOK(r)'
  BY <1>1, <1>3, EventKinds DEF HistoryOK, SameTask
<1> QED
  BY <1>3, <1>4, <1>5, <1>6, <1>7, <1>8 DEF RunOK

(* The action of an event loop, and the run it belongs to.                 *)
LEMMA EditorGoneKeeps ==
    ASSUME Types, NEW r \in Runs, RunOK(r), EditorGone(r)
    PROVE  RunOK(r)'
<1>1. loop[r] = "recv" /\ chan[r] # <<>> /\ ~editorOpen
  BY DEF EditorGone
<1>2. history[r] = <<>>
  BY <1>1, TailPends
<1>3. /\ loop \in [Runs -> {"none", "recv", "spill", "done"}] /\ chan \in [Runs -> Seq(EventSet)]
  BY DEF Types
<1>4. /\ loop'[r] = "done" /\ chan'[r] = <<>> /\ SameTask(r)
      /\ generation' = generation /\ results' = results /\ editorOpen' = editorOpen
      /\ spill'[r] = spill[r] /\ errored'[r] = errored[r] /\ history'[r] = history[r]
      /\ buf' = Held(buf, loop', {})
  BY <1>3 DEF EditorGone, Leave, SameTask, editor, task
<1>5. buf'[r] = NewBuffer
  BY <1>4, HeldShape
<1> QED
  BY <1>1, <1>2, <1>4, <1>5, EndKeeps

(* The tail of the loop, when the channel has closed: an entry is there    *)
(* already, for the task sent its terminal event before.                   *)
LEMMA ChannelClosedKeeps ==
    ASSUME Types, NEW r \in Runs, RunOK(r), ChannelClosed(r)
    PROVE  RunOK(r)'
<1>1. loop[r] = "recv" /\ chan[r] = <<>> /\ at[r] = "done"
  BY DEF ChannelClosed
<1>2. history[r] # <<>>
  BY <1>1 DEF RunOK, ChanOK
<1>3. /\ loop \in [Runs -> {"none", "recv", "spill", "done"}] /\ chan \in [Runs -> Seq(EventSet)]
  BY DEF Types
<1>4. /\ loop'[r] = "done" /\ chan'[r] = <<>> /\ SameTask(r)
      /\ generation' = generation /\ results' = results /\ editorOpen' = editorOpen
      /\ spill'[r] = spill[r] /\ errored'[r] = errored[r] /\ history'[r] = history[r]
      /\ buf' = Held(buf, loop', results)
  BY <1>3 DEF ChannelClosed, Leave, SameTask, task
<1>5. buf'[r] = IF r \in results THEN buf[r] ELSE NewBuffer
  BY <1>4, HeldShape
<1> QED
  BY <1>1, <1>2, <1>4, <1>5, EndKeeps

(* The arm of Started.                                                     *)
LEMMA OnStartedKeeps ==
    ASSUME Types, NEW r \in Runs, RunOK(r), OnStarted(r)
    PROVE  RunOK(r)'
<1>1. loop[r] = "recv" /\ chan[r] # <<>> /\ Head(chan[r]).ev = "Started"
  BY DEF OnStarted, Ready
<1>2. history[r] = <<>>
  BY <1>1, TailPends
<1>3. /\ loop \in [Runs -> {"none", "recv", "spill", "done"}] /\ chan \in [Runs -> Seq(EventSet)]
  BY DEF Types
<1>4. /\ loop'[r] = "recv" /\ chan'[r] = Tail(chan[r]) /\ SameTask(r)
      /\ generation' = generation /\ spill'[r] = spill[r] /\ errored'[r] = errored[r]
      /\ history'[r] = history[r] /\ buf' = Held(buf, loop, results')
  BY <1>3 DEF OnStarted, Continue, SameTask, task
<1>5. buf'[r] = buf[r]
  BY <1>1, <1>4, HeldShape
<1>6. ~(r > generation')
  BY <1>1, <1>4 DEF RunOK, BegunOK
<1> QED
  BY <1>1, <1>2, <1>4, <1>5, <1>6, EventKeeps DEF Terminal

(* The terminal events: one entry, and the loop goes on.                   *)
LEMMA RecordKeeps ==
    ASSUME Types, NEW r \in Runs, RunOK(r), loop[r] = "recv", chan[r] # <<>>,
           Head(chan[r]).ev \in Terminal, chan' = [chan EXCEPT ![r] = Tail(chan[r])],
           loop'[r] = "recv", SameTask(r), buf' = buf, spill' = spill, errored' = errored,
           ~(r > generation'),
           NEW ok \in BOOLEAN, NEW n \in Nat, Record(r, Entry(ok, n)),
           ok => over[r] /\ n = made[r] /\ Stored(r) = made[r]
    PROVE  RunOK(r)'
<1>1. chan \in [Runs -> Seq(EventSet)] /\ history \in [Runs -> Seq(Entries)]
  BY DEF Types
<1>2. chan'[r] = Tail(chan[r]) /\ history[r] = <<>>
  BY <1>1, TailPends
<1>3. history'[r] = <<Entry(ok, n)>>
  BY <1>1, <1>2 DEF Record
<1>4. Entry(ok, n) \in Entries /\ Entry(ok, n).ok = ok /\ Entry(ok, n).rows = n
  BY DEF Entry, Entries
<1>5. Head(chan[r]).ev # "Batch"
  BY DEF Terminal
<1> QED
  BY <1>2, <1>3, <1>4, <1>5, EventKeeps

(* The arms of Finished, WriteFinished and Failed: an entry that says ok   *)
(* is about a stream that is over and stored.                              *)
LEMMA TerminalKeeps ==
    ASSUME Types, NEW r \in Runs, RunOK(r), OnWriteFinished(r) \/ OnFinished(r) \/ OnFailed(r)
    PROVE  RunOK(r)'
<1>0. /\ loop \in [Runs -> {"none", "recv", "spill", "done"}] /\ chan \in [Runs -> Seq(EventSet)]
      /\ at \in [Runs -> Places] /\ generation \in 0 .. MaxRuns
  BY DEF Types
<1>1. loop[r] = "recv" /\ chan[r] # <<>> /\ Head(chan[r]).ev \in Terminal
  BY DEF OnWriteFinished, OnFinished, OnFailed, Ready, Terminal
<1>2. r <= generation /\ r \in Nat
  <2>1. r \in Nat /\ generation \in Nat
    BY <1>0, EditorRunAssumption DEF Runs
  <2> QED
    BY <2>1, <1>1 DEF RunOK, BegunOK
<1>3. /\ Head(chan[r]) = chan[r][1] /\ 1 \in 1 .. Len(chan[r])
  BY <1>1, TailPends
<1>4. /\ Head(chan[r]).ev \in {"Finished", "WriteFinished"} => over[r]
      /\ Head(chan[r]).ev = "WriteFinished" => made[r] = 0
      /\ Len(Head(chan[r]).rows) = 0
  <2>1. ChanOK(r)
    BY DEF RunOK
  <2>2. Head(chan[r]).rows = <<>>
    BY <1>1, <1>3, <2>1 DEF ChanOK, Terminal
  <2> QED
    BY <1>3, <2>1, <2>2, EventKinds DEF ChanOK
<1>5. Stored(r) \in Nat /\ made[r] \in Nat /\ Stored(r) <= made[r] /\ Stored(r) = RowCount(buf[r])
  BY OneRun DEF RunOK, LineOK, Stored
<1>6. CASE OnWriteFinished(r)
  <2>1. /\ SameTask(r) /\ buf' = buf /\ spill' = spill /\ errored' = errored
        /\ generation' = generation /\ Record(r, Entry(TRUE, 0))
        /\ loop'[r] = "recv" /\ chan' = [chan EXCEPT ![r] = Tail(chan[r])]
    BY <1>0, <1>6 DEF OnWriteFinished, Continue, SameTask, task
  <2>2. over[r] /\ made[r] = 0
    BY <1>4, <1>6 DEF OnWriteFinished, Ready
  <2>3. Stored(r) = made[r]
    BY <1>5, <2>2
  <2>4. ~(r > generation')
    BY <1>0, <1>2, <2>1
  <2>5. TRUE \in BOOLEAN /\ 0 \in Nat
        /\ (TRUE => over[r] /\ 0 = made[r] /\ Stored(r) = made[r])
    BY <2>2, <2>3
  <2> QED
    BY ONLY Types, r \in Runs, RunOK(r), <1>1, <2>1, <2>4, <2>5, RecordKeeps
<1>7. CASE OnFailed(r)
  <2>1. /\ SameTask(r) /\ buf' = buf /\ spill' = spill /\ errored' = errored
        /\ generation' = generation /\ Record(r, Entry(FALSE, 0))
        /\ loop'[r] = "recv" /\ chan' = [chan EXCEPT ![r] = Tail(chan[r])]
    BY <1>0, <1>7 DEF OnFailed, Continue, SameTask, task
  <2>2. ~(r > generation')
    BY <1>0, <1>2, <2>1
  <2> QED
    BY <1>1, <2>1, <2>2, RecordKeeps
<1>8. CASE OnFinished(r)
  <2>1. /\ buf' = buf /\ spill' = spill /\ errored' = errored
        /\ out' = out /\ made' = made /\ over' = over
        /\ Record(r, IF errored[r] THEN Entry(FALSE, 0) ELSE Entry(TRUE, RowCount(buf[r])))
        /\ chan' = [chan EXCEPT ![r] = Tail(chan[r])]
    BY <1>8 DEF OnFinished, Continue
  <2>2. at'[r] = at[r] /\ loop'[r] = "recv" /\ ~(r > generation')
    <3>1. CASE Continue(r, Tail(chan[r])) /\ UNCHANGED <<generation, at>>
      BY <3>1, <1>0, <1>2 DEF Continue
    <3>2. CASE /\ Dispatch(generation + 1)
               /\ loop' = [loop EXCEPT ![generation + 1] = "recv"]
      <4>1. r # generation + 1 /\ generation' = generation + 1
        BY <3>2, <1>0, <1>2 DEF Dispatch
      <4> QED
        BY <3>2, <4>1, <1>0, <1>1, <1>2 DEF Dispatch
    <3> QED
      BY <1>8, <3>1, <3>2 DEF OnFinished
  <2>3. ASSUME ~errored[r] PROVE Stored(r) = made[r] /\ over[r]
    <3>1. Head(chan[r]).ev = "Finished"
      BY <1>8 DEF OnFinished, Ready
    <3>2. Stored(r) + Len(Head(chan[r]).rows) = made[r]
      BY <1>1, <2>3, <3>1, TailInLine
    <3> QED
      BY <3>1, <3>2, <1>4, <1>5
  <2>4. SameTask(r)
    BY <2>1, <2>2 DEF SameTask
  <2>5. CASE errored[r]
    BY <1>1, <2>1, <2>2, <2>4, <2>5, RecordKeeps
  <2>6. CASE ~errored[r]
    BY <1>1, <1>5, <2>1, <2>2, <2>3, <2>4, <2>6, RecordKeeps
  <2> QED
    BY <2>5, <2>6
<1> QED
  BY <1>6, <1>7, <1>8

(* The grid paints: the cache of its buffer may change, and nothing else.  *)
LEMMA PaintKeeps ==
    ASSUME Types, NEW r \in Runs, RunOK(r), Paint(r)
    PROVE  RunOK(r)'
<1>1. PICK row \in 0 .. RowCount(buf[r]) - 1 :
        buf' = [buf EXCEPT ![r] = AfterRead(buf[r], SlotOf(buf[r], row))]
  BY DEF Paint
<1>2. DOMAIN buf = Runs /\ buf = [q \in Runs |-> buf[q]]
  BY DEF Types
<1>3. /\ editorOpen' = editorOpen /\ generation' = generation /\ results' = results
      /\ at' = at /\ out' = out /\ made' = made /\ over' = over /\ chan' = chan /\ loop' = loop
      /\ spill' = spill /\ errored' = errored /\ history' = history
  BY DEF Paint, editor, task
<1>4. /\ BegunOK(r) /\ TaskOK(r) /\ ChanOK(r) /\ SpillOK(r) /\ LineOK(r) /\ HistoryOK(r) /\ BufferOK(buf[r])
  BY DEF RunOK
<1>5. /\ BufferOK(buf'[r]) /\ RowCount(buf'[r]) = RowCount(buf[r])
      /\ buf'[r].spillFiles = buf[r].spillFiles /\ buf'[r].files = buf[r].files
  <2>1. buf'[r] = AfterRead(buf[r], SlotOf(buf[r], row))
    BY <1>1, <1>2
  <2> QED
    BY <2>1, <1>4, AfterReadIsOK
<1>6. Stored(r)' = Stored(r) /\ Taken(r)' = Taken(r)
  BY <1>3, <1>5 DEF Stored, Taken
<1>7. BegunOK(r)' /\ TaskOK(r)' /\ ChanOK(r)'
  BY <1>3, <1>4, <1>6 DEF BegunOK, TaskOK, ChanOK
<1>8. SpillOK(r)'
  BY <1>3, <1>4, <1>5, <1>6 DEF SpillOK
<1>9. LineOK(r)'
  BY <1>3, <1>4, <1>6 DEF LineOK, Line, Stands
<1>10. HistoryOK(r)'
  BY <1>3, <1>4, <1>6 DEF HistoryOK
<1> QED
  BY <1>5, <1>7, <1>8, <1>9, <1>10 DEF RunOK

-----------------------------------------------------------------------------
(* The other runs, and the user.                                           *)

(* A run that begins.                                                      *)
LEMMA BeginKeeps ==
    ASSUME Types, NEW r \in Runs, RunOK(r), at[r] = "none", at'[r] = "start", loop'[r] = "recv",
           generation' = r, out'[r] = out[r], made'[r] = made[r], over'[r] = over[r],
           chan'[r] = chan[r], spill'[r] = spill[r], errored'[r] = errored[r],
           history'[r] = history[r], buf'[r] = buf[r]
    PROVE  RunOK(r)'
<1>1. /\ BegunOK(r) /\ TaskOK(r) /\ ChanOK(r) /\ SpillOK(r) /\ LineOK(r) /\ HistoryOK(r) /\ BufferOK(buf[r])
  BY DEF RunOK
<1>2. /\ made[r] = 0 /\ chan[r] = <<>> /\ loop[r] = "none" /\ ~errored[r] /\ history[r] = <<>>
      /\ spill[r].state = "none" /\ Len(<<>>) = 0
  BY <1>1, EventKinds DEF BegunOK, TaskOK, SpillOK, HistoryOK
<1>3. Stored(r) = 0 /\ Stored(r)' = 0 /\ r \in Nat
  BY <1>1, <1>2, OneRun DEF Stored, LineOK, Runs
<1>4. BegunOK(r)'
  BY <1>3 DEF BegunOK
<1>5. TaskOK(r)'
  BY <1>1, <1>2 DEF TaskOK
<1>6. ChanOK(r)'
  BY <1>1, <1>2 DEF ChanOK
<1>7. SpillOK(r)'
  BY <1>2 DEF SpillOK
<1>8. LineOK(r)'
  <2> DEFINE p == [i \in 0 .. 0 |-> 0]
  <2>1. p \in [0 .. Len(chan'[r]) -> 0 .. made'[r]] /\ p[0] = 0 /\ Len(chan'[r]) = 0
    BY <1>2
  <2>2. Taken(r)' = 0
    BY <1>3 DEF Taken
  <2>3. Stands(r, p[0])'
    BY DEF Stands
  <2> HIDE DEF p
  <2>4. PICK q : q = p
    OBVIOUS
  <2>5. Line(r, q)'
    <3>1. Stands(r, q[Len(chan[r])])'
      BY DEF Stands
    <3> QED
      BY <2>1, <2>2, <2>4, <3>1 DEF Line
  <2> QED
    BY <1>2, <1>3, <2>1, <2>4, <2>5 DEF LineOK
<1>9. HistoryOK(r)'
  BY <1>2 DEF HistoryOK
<1> QED
  BY <1>1, <1>4, <1>5, <1>6, <1>7, <1>8, <1>9 DEF RunOK

(* One run acts: nothing of the others' is touched.                        *)
LEMMA TaskApart ==
    ASSUME Types, NEW r \in Runs, Runner(r) \/ Driver(r) \/ Expire(r), NEW q \in Runs, q # r
    PROVE  Apart(q)
<1>1. /\ at \in [Runs -> Places] /\ out \in [Runs -> EventSet] /\ chan \in [Runs -> Seq(EventSet)]
      /\ made \in [Runs -> Nat] /\ over \in [Runs -> BOOLEAN]
  BY DEF Types
<1>2. UNCHANGED <<editor, ui>>
  BY DEF Runner, Driver, CheckCancel, Opened, Deliver, TaskEnds, Answered, Streamed, Expire
<1>3. \A place, ev : Send(r, place, ev) => at'[q] = at[q] /\ out'[q] = out[q]
  BY <1>1 DEF Send
<1>4. \A place : Go(r, place) => at'[q] = at[q] /\ out'[q] = out[q]
  BY <1>1 DEF Go
<1>5. at'[q] = at[q] /\ out'[q] = out[q] /\ chan'[q] = chan[q] /\ made'[q] = made[q] /\ over'[q] = over[q]
  <2>1. CASE CheckCancel(r)
    BY <1>3, <1>4, <2>1 DEF CheckCancel
  <2>2. CASE Opened(r)
    BY <1>3, <1>4, <2>2 DEF Opened
  <2>3. CASE Deliver(r)
    BY <1>1, <2>3 DEF Deliver
  <2>4. CASE TaskEnds(r)
    BY <1>3, <1>4, <2>4 DEF TaskEnds
  <2>5. CASE Answered(r)
    BY <1>1, <1>3, <2>5 DEF Answered
  <2>6. CASE Streamed(r)
    BY <1>1, <1>3, <2>6 DEF Streamed
  <2>7. CASE Expire(r)
    BY <1>3, <2>7 DEF Expire
  <2> QED
    BY <2>1, <2>2, <2>3, <2>4, <2>5, <2>6, <2>7 DEF Runner, Driver
<1> QED
  BY <1>2, <1>5 DEF Apart, editor, ui

(* Letting go of what nobody holds is all that happens to a run's buffer.  *)
LEMMA HeldApart ==
    ASSUME NEW q \in Runs, NEW bs, bs[q] = buf[q], loop'[q] = loop[q],
           buf' = Held(bs, loop, results') \/ buf' = Held(bs, loop', results')
    PROVE  \/ buf'[q] = buf[q]
           \/ buf'[q] = NewBuffer /\ loop[q] \notin {"recv", "spill"} /\ q \notin results'
BY DEF Held

(* No result tab outlives its editor tab.                                  *)
NoneLeft == editorOpen \/ results = {}

(* So does apply_batch.                                                    *)
LEMMA ApplyApart ==
    ASSUME Types, NEW r \in Runs, NEW left, NEW pushed, NEW bad, ApplyBatch(r, left, pushed, bad),
           NEW q \in Runs, q # r, spill'[q] = spill[q]
    PROVE  Apart(q)
<1>1. /\ loop \in [Runs -> {"none", "recv", "spill", "done"}] /\ chan \in [Runs -> Seq(EventSet)]
      /\ errored \in [Runs -> BOOLEAN] /\ DOMAIN buf = Runs /\ buf = [p \in Runs |-> buf[p]]
  BY DEF Types
<1>2. /\ UNCHANGED <<editorOpen, generation, results, task, history>>
      /\ buf' = Held([buf EXCEPT ![r] = pushed], loop', results)
      /\ Leave(r) \/ Continue(r, left)
      /\ UNCHANGED errored \/ errored' = [errored EXCEPT ![r] = TRUE]
  BY DEF ApplyBatch
<1>3. loop'[q] = loop[q] /\ chan'[q] = chan[q] /\ errored'[q] = errored[q]
  BY <1>1, <1>2 DEF Leave, Continue
<1>4. [buf EXCEPT ![r] = pushed][q] = buf[q]
  BY <1>1
<1>5. \/ buf'[q] = buf[q]
      \/ buf'[q] = NewBuffer /\ loop[q] \notin {"recv", "spill"} /\ q \notin results'
  BY <1>2, <1>3, <1>4, HeldApart
<1> QED
  BY <1>2, <1>3, <1>5 DEF Apart, task

(* So does every arm of the event loop, but for the run that the arm of    *)
(* Finished may start.                                                     *)
LEMMA LoopApart ==
    ASSUME Types, NoneLeft, NEW r \in Runs, EventLoop(r), NEW q \in Runs, q # r,
           OnFinished(r) => q # generation + 1 \/ generation' = generation
    PROVE  Apart(q)
<1>0. /\ loop \in [Runs -> {"none", "recv", "spill", "done"}] /\ chan \in [Runs -> Seq(EventSet)]
      /\ spill \in [Runs -> SpillSet] /\ errored \in [Runs -> BOOLEAN]
      /\ history \in [Runs -> Seq(Entries)] /\ at \in [Runs -> Places]
      /\ DOMAIN buf = Runs /\ buf = [p \in Runs |-> buf[p]] /\ generation \in Nat
  <2>1. generation \in 0 .. MaxRuns
    BY DEF Types
  <2>2. generation \in Nat
    BY <2>1, EditorRunAssumption
  <2> QED
    BY <2>2 DEF Types
<1>11. Leave(r) => loop'[q] = loop[q] /\ chan'[q] = chan[q]
  BY <1>0 DEF Leave
<1>12. \A left : Continue(r, left) => loop'[q] = loop[q] /\ chan'[q] = chan[q]
  BY <1>0 DEF Continue
<1>13. \A entry : Record(r, entry) => history'[q] = history[q]
  BY <1>0 DEF Record
<1>1. CASE OnBatch(r)
  BY <1>1, ApplyApart DEF OnBatch
<1>2. CASE BeginPush(r)
  BY <1>0, <1>2 DEF BeginPush, Apart, editor, task
<1>3. CASE WriteSpillFile(r)
  <2>1. buf'[q] = buf[q] /\ spill'[q] = spill[q]
    BY <1>0, <1>3 DEF WriteSpillFile
  <2> QED
    BY <1>3, <2>1 DEF WriteSpillFile, Apart, editor, task
<1>4. CASE FinishSpill(r)
  <2>1. spill'[q] = spill[q]
    BY <1>0, <1>4 DEF FinishSpill
  <2> QED
    BY <1>4, <2>1, ApplyApart DEF FinishSpill
<1>5. CASE EditorGone(r)
  <2>1. results = {} /\ results' = results
    BY <1>5 DEF EditorGone, NoneLeft, editor
  <2>2. \/ buf'[q] = buf[q]
        \/ buf'[q] = NewBuffer /\ loop[q] \notin {"recv", "spill"} /\ q \notin results'
    BY <1>5, <1>11, <2>1, HeldApart DEF EditorGone
  <2> QED
    BY <1>5, <1>11, <2>2 DEF EditorGone, Apart, editor, task
<1>6. CASE OnStarted(r)
  <2>1. \/ buf'[q] = buf[q]
        \/ buf'[q] = NewBuffer /\ loop[q] \notin {"recv", "spill"} /\ q \notin results'
    BY <1>6, <1>12, HeldApart DEF OnStarted
  <2>2. q \in results' => q \in results
    BY <1>6 DEF OnStarted
  <2> QED
    BY <1>6, <1>12, <2>1, <2>2 DEF OnStarted, Apart, task
<1>7. CASE OnWriteFinished(r)
  BY <1>7, <1>12, <1>13 DEF OnWriteFinished, Apart, task
<1>8. CASE OnFinished(r)
  <2>1. at'[q] = at[q] /\ loop'[q] = loop[q] /\ chan'[q] = chan[q] /\ (q > generation' => q > generation)
    <3>1. CASE Continue(r, Tail(chan[r])) /\ UNCHANGED <<generation, at>>
      BY <3>1, <1>12
    <3>2. CASE /\ Dispatch(generation + 1)
               /\ loop' = [loop EXCEPT ![generation + 1] = "recv"]
               /\ chan' = [chan EXCEPT ![r] = Tail(@)]
      <4>1. generation' = generation + 1 /\ q # generation + 1
        BY <1>0, <1>8, <3>2 DEF Dispatch
      <4>2. q \in Nat
        BY ParamTypes
      <4> QED
        BY <1>0, <3>2, <4>1, <4>2 DEF Dispatch
    <3> QED
      BY <1>8, <3>1, <3>2 DEF OnFinished
  <2>2. history'[q] = history[q]
    BY <1>8, <1>13 DEF OnFinished
  <2> QED
    BY <1>8, <2>1, <2>2 DEF OnFinished, Apart
<1>9. CASE OnFailed(r)
  BY <1>9, <1>12, <1>13 DEF OnFailed, Apart, task
<1>10. CASE ChannelClosed(r)
  <2>1. results' = results
    BY <1>10 DEF ChannelClosed
  <2>2. \/ buf'[q] = buf[q]
        \/ buf'[q] = NewBuffer /\ loop[q] \notin {"recv", "spill"} /\ q \notin results'
    BY <1>10, <1>11, <2>1, HeldApart DEF ChannelClosed
  <2> QED
    BY <1>10, <1>11, <2>2 DEF ChannelClosed, Apart, task
<1> QED
  BY <1>1, <1>2, <1>3, <1>4, <1>5, <1>6, <1>7, <1>8, <1>9, <1>10 DEF EventLoop

(* What the user does touches no run but the one that begins or is         *)
(* painted.                                                                *)
LEMMA UserApart ==
    ASSUME Types, NEW r \in Runs, UserStep(r), NEW q \in Runs,
           Paint(r) => q # r, RunQuery => q # generation + 1
    PROVE  Apart(q)
<1>0. /\ loop \in [Runs -> {"none", "recv", "spill", "done"}] /\ at \in [Runs -> Places]
      /\ DOMAIN buf = Runs /\ buf = [p \in Runs |-> buf[p]] /\ generation \in Nat
      /\ q \in Nat
  <2>1. generation \in 0 .. MaxRuns
    BY DEF Types
  <2>2. generation \in Nat /\ q \in Nat
    BY <2>1, EditorRunAssumption DEF Runs
  <2> QED
    BY <2>2 DEF Types
<1>1. CASE RunQuery
  BY <1>0, <1>1 DEF RunQuery, Dispatch, Apart
<1>2. CASE OnCancel
  BY <1>2 DEF OnCancel, Apart, task, ui
<1>3. CASE CloseEditor
  <2>1. \/ buf'[q] = buf[q]
        \/ buf'[q] = NewBuffer /\ loop[q] \notin {"recv", "spill"} /\ q \notin results'
    BY <1>3, HeldApart DEF CloseEditor
  <2> QED
    BY <1>3, <2>1 DEF CloseEditor, Apart, task
<1>4. CASE CloseResult(r)
  <2>1. \/ buf'[q] = buf[q]
        \/ buf'[q] = NewBuffer /\ loop[q] \notin {"recv", "spill"} /\ q \notin results'
    BY <1>4, HeldApart DEF CloseResult
  <2> QED
    BY <1>4, <2>1 DEF CloseResult, Apart, task
<1>5. CASE Paint(r)
  BY <1>0, <1>5 DEF Paint, Apart, editor, task
<1> QED
  BY <1>1, <1>2, <1>3, <1>4, <1>5 DEF UserStep

-----------------------------------------------------------------------------
(* The theorems.                                                           *)

(* Closing the editor tab closes its result tabs, and none is opened       *)
(* without it.                                                             *)
LEMMA NoneLeftKeeps == ASSUME NoneLeft, Next PROVE NoneLeft'
<1>1. ASSUME NEW r \in Runs, Runner(r) \/ Driver(r) \/ Expire(r) PROVE NoneLeft'
  BY <1>1 DEF NoneLeft, Runner, Driver, CheckCancel, Opened, Deliver, TaskEnds, Answered, Streamed,
              Expire, editor
<1>2. ASSUME NEW r \in Runs, EventLoop(r) PROVE NoneLeft'
  <2>0. \A left, pushed, bad : ApplyBatch(r, left, pushed, bad) => UNCHANGED <<editorOpen, results>>
    BY DEF ApplyBatch
  <2>1. CASE OnBatch(r)
    BY <2>0, <2>1 DEF OnBatch, NoneLeft
  <2>2. CASE BeginPush(r) \/ WriteSpillFile(r) \/ EditorGone(r)
    BY <2>2 DEF BeginPush, WriteSpillFile, EditorGone, editor, NoneLeft
  <2>3. CASE FinishSpill(r)
    BY <2>3 DEF FinishSpill, ApplyBatch, NoneLeft
  <2>4. CASE OnStarted(r)
    BY <2>4 DEF OnStarted, NoneLeft
  <2>5. CASE OnWriteFinished(r) \/ OnFinished(r) \/ OnFailed(r) \/ ChannelClosed(r)
    BY <2>5 DEF OnWriteFinished, OnFinished, OnFailed, ChannelClosed, NoneLeft
  <2> QED
    BY <1>2, <2>1, <2>2, <2>3, <2>4, <2>5 DEF EventLoop
<1>3. ASSUME User PROVE NoneLeft'
  <2>1. CASE RunQuery \/ OnCancel
    BY <2>1 DEF RunQuery, OnCancel, NoneLeft
  <2>2. CASE CloseEditor
    BY <2>2 DEF CloseEditor, NoneLeft
  <2>3. ASSUME NEW r \in Runs, CloseResult(r) \/ Paint(r) PROVE NoneLeft'
    BY <2>3 DEF CloseResult, Paint, editor, NoneLeft
  <2> QED
    BY <1>3, <2>1, <2>2, <2>3 DEF User
<1>4. ASSUME Quiet PROVE NoneLeft'
  BY <1>4 DEF Quiet, vars, editor, NoneLeft
<1> QED
  BY <1>1, <1>2, <1>3, <1>4 DEF Next, System

(* The inductive invariant.                                                *)
Invariant == IInv /\ NoneLeft

(* The event loop of a run keeps its invariant.                            *)
LEMMA LoopKeeps ==
    ASSUME Types, NEW r \in Runs, RunOK(r), EventLoop(r)
    PROVE  RunOK(r)'
BY OnBatchKeeps, BeginPushKeeps, WriteKeeps, FinishSpillKeeps, EditorGoneKeeps, OnStartedKeeps,
   TerminalKeeps, ChannelClosedKeeps DEF EventLoop

(* The task of a run, its driver and its timer keep its invariant.         *)
LEMMA TaskKeeps ==
    ASSUME Types, NEW r \in Runs, RunOK(r), Runner(r) \/ Driver(r) \/ Expire(r)
    PROVE  RunOK(r)'
BY RunnerKeeps, DeliverKeeps, AnsweredKeeps, StreamedKeeps DEF Runner, Driver

(* A run that begins now had not begun before.                             *)
LEMMA NewRun ==
    ASSUME Types, generation < MaxRuns, RunOK(generation + 1)
    PROVE  /\ generation \in Nat /\ generation + 1 \in Runs
           /\ at[generation + 1] = "none"
<1>1. generation \in Nat
  <2>1. generation \in 0 .. MaxRuns
    BY DEF Types
  <2> QED
    BY <2>1, EditorRunAssumption
<1>2. generation + 1 \in Runs
  BY <1>1, EditorRunAssumption DEF Runs
<1> QED
  BY <1>1, <1>2 DEF RunOK, BegunOK

(* The user keeps the invariant of every run.                              *)
LEMMA UserKeeps ==
    ASSUME Invariant, NEW r \in Runs, UserStep(r)
    PROVE  IInv'
<1>0. Types /\ \A q \in Runs : RunOK(q)
  BY DEF Invariant, IInv
<1>1. Types'
  BY <1>0, UserTypes
<1>2. ASSUME NEW q \in Runs PROVE RunOK(q)'
  <2>1. CASE Paint(r) /\ q = r
    BY <1>0, <2>1, PaintKeeps
  <2>2. CASE RunQuery /\ q = generation + 1
    <3>1. generation < MaxRuns
      BY <2>2 DEF RunQuery
    <3>2. at[q] = "none"
      BY <1>0, <2>2, <3>1, NewRun
    <3>3. loop \in [Runs -> {"none", "recv", "spill", "done"}] /\ at \in [Runs -> Places]
      BY <1>0 DEF Types
    <3>4. /\ at'[q] = "start" /\ loop'[q] = "recv" /\ generation' = q
          /\ out' = out /\ made' = made /\ over' = over /\ chan' = chan
          /\ spill' = spill /\ errored' = errored /\ history' = history /\ buf' = buf
      BY <2>2, <3>3 DEF RunQuery, Dispatch
    <3> QED
      BY <1>0, <3>2, <3>4, BeginKeeps
  <2>3. CASE (Paint(r) => q # r) /\ (RunQuery => q # generation + 1)
    <3>1. Apart(q)
      BY <1>0, <2>3, UserApart
    <3> QED
      BY <1>0, <3>1, ApartKeeps
  <2> QED
    BY <2>1, <2>2, <2>3
<1> QED
  BY <1>1, <1>2 DEF IInv

(* The program keeps the invariant of every run, the acting one and the    *)
(* others.                                                                 *)
LEMMA SystemKeeps ==
    ASSUME Invariant, NEW r \in Runs, Runner(r) \/ Driver(r) \/ Expire(r) \/ EventLoop(r)
    PROVE  IInv'
<1>0. Types /\ NoneLeft /\ \A q \in Runs : RunOK(q)
  BY DEF Invariant, IInv
<1>1. Types'
  BY <1>0, TaskTypes, LoopTypes
<1>2. ASSUME NEW q \in Runs PROVE RunOK(q)'
  <2>1. CASE q = r
    BY <1>0, <2>1, LoopKeeps, TaskKeeps
  <2>2. CASE q # r /\ (Runner(r) \/ Driver(r) \/ Expire(r))
    <3>1. Apart(q)
      BY <1>0, <2>2, TaskApart
    <3> QED
      BY <1>0, <3>1, ApartKeeps
  <2>3. CASE q # r /\ EventLoop(r) /\ (OnFinished(r) => q # generation + 1 \/ generation' = generation)
    <3>1. Apart(q)
      BY <1>0, <2>3, LoopApart
    <3> QED
      BY <1>0, <3>1, ApartKeeps
  <2>4. CASE q # r /\ OnFinished(r) /\ q = generation + 1 /\ generation' # generation
    <3>1. /\ generation < MaxRuns /\ Dispatch(generation + 1)
          /\ loop' = [loop EXCEPT ![generation + 1] = "recv"]
          /\ chan' = [chan EXCEPT ![r] = Tail(@)]
          /\ Record(r, IF errored[r] THEN Entry(FALSE, 0) ELSE Entry(TRUE, RowCount(buf[r])))
          /\ UNCHANGED <<out, made, over, buf, spill, errored>>
      BY <2>4 DEF OnFinished
    <3>2. at[q] = "none"
      BY <1>0, <2>4, <3>1, NewRun
    <3>3. /\ loop \in [Runs -> {"none", "recv", "spill", "done"}] /\ at \in [Runs -> Places]
          /\ chan \in [Runs -> Seq(EventSet)] /\ history \in [Runs -> Seq(Entries)]
      BY <1>0 DEF Types
    <3>4. at'[q] = "start" /\ loop'[q] = "recv" /\ generation' = q
      BY <2>4, <3>1, <3>3 DEF Dispatch
    <3>5. chan'[q] = chan[q] /\ history'[q] = history[q]
      BY <2>4, <3>1, <3>3 DEF Record
    <3> QED
      BY <1>0, <3>1, <3>2, <3>4, <3>5, BeginKeeps
  <2> QED
    BY <2>1, <2>2, <2>3, <2>4
<1> QED
  BY <1>1, <1>2 DEF IInv

(* The invariant is inductive.                                             *)
LEMMA StepKeeps == ASSUME Invariant, [Next]_vars PROVE Invariant'
<1>1. CASE System
  <2>1. IInv'
    BY <1>1, SystemKeeps DEF System
  <2>2. NoneLeft'
    BY <1>1, NoneLeftKeeps DEF Invariant, Next
  <2> QED
    BY <2>1, <2>2 DEF Invariant
<1>2. CASE User
  <2>1. 1 \in Runs
    BY EditorRunAssumption DEF Runs
  <2>2. \E r \in Runs : UserStep(r)
    BY <1>2, <2>1 DEF User, UserStep
  <2>3. IInv'
    BY <2>2, UserKeeps
  <2>4. NoneLeft'
    BY <1>2, NoneLeftKeeps DEF Invariant, Next
  <2> QED
    BY <2>3, <2>4 DEF Invariant
<1>3. CASE UNCHANGED vars
  <2>1. ASSUME NEW q \in Runs PROVE RunOK(q)'
    <3>1. Apart(q)
      BY <1>3 DEF Apart, vars, editor, task, ui
    <3> QED
      BY <3>1, ApartKeeps DEF Invariant, IInv
  <2>2. Types' /\ NoneLeft'
    BY <1>3 DEF Invariant, IInv, Types, NoneLeft, vars, editor, task, ui
  <2> QED
    BY <2>1, <2>2 DEF Invariant, IInv
<1> QED
  BY <1>1, <1>2, <1>3 DEF Next, Quiet

(* The invariant holds at every moment.                                    *)
LEMMA AlwaysInvariant == Spec => []Invariant
<1>1. Init => Invariant
  BY InitHolds DEF Invariant, NoneLeft, Init
<1> QED
  BY <1>1, StepKeeps, PTL DEF Spec

(* The grid shows the server's rows at every moment: whatever is painted   *)
(* while batches are kept, spilled, written or failing, a cell is the row  *)
(* that the server sent there. For every cap, every size of batches and    *)
(* every number of runs.                                                   *)
THEOREM ReadsStayFaithful == Spec => []Inv
<1>1. Invariant => Inv
  <2> SUFFICES ASSUME Invariant PROVE TypeOK /\ ReadsAreFaithful
    BY DEF Inv
  <2>1. Types /\ \A r \in Runs : RunOK(r)
    BY DEF Invariant, IInv
  <2>2. ReadsAreFaithful
    BY <2>1, CellsAreFaithful DEF ReadsAreFaithful, RunOK
  <2>3. cancel \in 0 .. MaxRuns
    BY <2>1, EditorRunAssumption DEF Types, NoRun
  <2>4. ASSUME NEW r \in Runs
        PROVE  /\ out[r].ev \in {"none", "Started", "Batch", "Finished", "WriteFinished", "Failed"}
               /\ Len(chan[r]) <= ChanCap
               /\ spill[r].state \in {"none", "writing", "written", "failed"}
               /\ Len(buf[r].offsets) = Len(buf[r].slots) + 1
               /\ history[r] \in Seq([ok : BOOLEAN, rows : Nat])
    <3>1. out[r] \in EventSet /\ spill[r] \in SpillSet /\ history[r] \in Seq(Entries)
      BY <2>1, OneRun
    <3>2. ChanOK(r) /\ OffsetsOK(buf[r])
      BY <2>1 DEF RunOK, BufferOK
    <3> QED
      BY <3>1, <3>2 DEF EventSet, Kinds, SpillSet, ChanOK, OffsetsOK, Entries
  <2>5. TypeOK
    BY <2>1, <2>3, <2>4 DEF TypeOK, Types
  <2> QED
    BY <2>2, <2>5
<1> QED
  BY <1>1, AlwaysInvariant, PTL

(* A run has at most one entry in the history; if it says ok the server's  *)
(* stream had ended, its rows are those the stream brought and, while the  *)
(* result is shown, those of the buffer: however Esc, the watchdog, closed *)
(* tabs and failed writes fall.                                            *)
THEOREM HistoryStaysHonest == Spec => []HistoryIsHonest
<1>1. Invariant => HistoryIsHonest
  <2> SUFFICES ASSUME Invariant, NEW r \in Runs
               PROVE  /\ Len(history[r]) <= 1
                      /\ \A i \in DOMAIN history[r] :
                           history[r][i].ok => /\ over[r]
                                               /\ history[r][i].rows = made[r]
                                               /\ r \in results => RowCount(buf[r]) = made[r]
    BY DEF HistoryIsHonest
  <2>1. Types /\ RunOK(r)
    BY DEF Invariant, IInv
  <2>2. history[r] \in Seq(Entries) /\ HistoryOK(r)
    BY <2>1, OneRun DEF RunOK
  <2>3. DOMAIN history[r] = 1 .. Len(history[r]) /\ Len(history[r]) \in Nat
        /\ (history[r] = <<>> => Len(history[r]) = 0)
    BY <2>2
  <2> QED
    BY <2>2, <2>3 DEF HistoryOK, Stored
<1> QED
  BY <1>1, AlwaysInvariant, PTL

(* An event loop that has ended has left its entry, or was ended by the    *)
(* user who closed its tab.                                                *)
THEOREM EndedRunsAreRecorded == Spec => []EndedIsRecorded
<1>1. Invariant => EndedIsRecorded
  BY DEF Invariant, IInv, RunOK, HistoryOK, EndedIsRecorded
<1> QED
  BY <1>1, AlwaysInvariant, PTL

(* Who may write the status line: a run whose push has not failed, or      *)
(* nobody.                                                                 *)
LEMMA WhoSpeaks ==
    ASSUME Invariant, Next, status' # status
    PROVE  \/ status'.run = NoRun
           \/ \E r \in Runs : status'.run = r /\ ~errored[r]
<1>0. Types /\ \A q \in Runs : RunOK(q)
  BY DEF Invariant, IInv
<1>1. \A r, news : Says(r, news) => status'.run = r
  BY DEF Says
<1>2. ASSUME generation < MaxRuns, Dispatch(generation + 1)
      PROVE  \E r \in Runs : status'.run = r /\ ~errored[r]
  <2>1. generation \in Nat /\ generation + 1 \in Runs /\ at[generation + 1] = "none"
    <3>1. generation + 1 \in Runs
      BY <1>0, <1>2, DispatchTypes
    <3> QED
      BY <1>0, <1>2, <3>1, NewRun
  <2>2. made[generation + 1] = 0
    BY <1>0, <2>1 DEF RunOK, TaskOK
  <2>3. ~errored[generation + 1]
    BY <1>0, <2>1, <2>2 DEF RunOK, SpillOK
  <2> QED
    BY <1>1, <1>2, <2>1, <2>3 DEF Dispatch
<1>3. ASSUME NEW r \in Runs, Runner(r) \/ Driver(r) \/ Expire(r) PROVE FALSE
  BY <1>3 DEF Runner, Driver, CheckCancel, Opened, Deliver, TaskEnds, Answered, Streamed, Expire, editor
<1>4. ASSUME NEW r \in Runs, EventLoop(r)
      PROVE  \/ status'.run = NoRun
             \/ \E q \in Runs : status'.run = q /\ ~errored[q]
  <2>0. ASSUME NEW left, NEW pushed, NEW bad, ApplyBatch(r, left, pushed, bad)
        PROVE  status'.run = r /\ ~errored[r]
    <3>1. CASE ~editorOpen
      BY <2>0, <3>1 DEF ApplyBatch
    <3>2. CASE editorOpen /\ errored[r]
      BY <2>0, <3>2 DEF ApplyBatch
    <3>3. CASE editorOpen /\ ~errored[r]
      BY <2>0, <3>3, <1>1 DEF ApplyBatch
    <3> QED
      BY <3>1, <3>2, <3>3
  <2>1. CASE OnBatch(r)
    BY <2>0, <2>1 DEF OnBatch
  <2>2. CASE BeginPush(r) \/ WriteSpillFile(r) \/ EditorGone(r)
    BY <2>2 DEF BeginPush, WriteSpillFile, EditorGone, editor
  <2>3. CASE FinishSpill(r)
    BY <2>0, <2>3 DEF FinishSpill
  <2>4. ASSUME loop[r] = "recv", chan[r] # <<>>, Head(chan[r]).ev \in {"Started", "WriteFinished"}
        PROVE  ~errored[r]
    <3>1. Head(chan[r]) = chan[r][1] /\ 1 \in 1 .. Len(chan[r])
      BY <1>0, <2>4, TailPends
    <3>2. Head(chan[r]).ev = "Started" => ~errored[r]
      BY <1>0, <3>1 DEF RunOK, ChanOK
    <3>3. Head(chan[r]).ev = "WriteFinished" => made[r] = 0
      BY <1>0, <3>1 DEF RunOK, ChanOK
    <3>4. errored[r] => made[r] > 0
      BY <1>0 DEF RunOK, SpillOK
    <3> QED
      BY <2>4, <3>2, <3>3, <3>4
  <2>5. CASE OnStarted(r)
    BY <1>1, <2>4, <2>5 DEF OnStarted, Ready
  <2>6. CASE OnWriteFinished(r)
    BY <1>1, <2>4, <2>6 DEF OnWriteFinished, Ready
  <2>7. CASE OnFinished(r)
    BY <1>1, <1>2, <2>7 DEF OnFinished
  <2>8. CASE OnFailed(r)
    BY <1>1, <2>8 DEF OnFailed
  <2>9. CASE ChannelClosed(r)
    BY <2>9 DEF ChannelClosed
  <2> QED
    BY <1>4, <2>1, <2>2, <2>3, <2>5, <2>6, <2>7, <2>8, <2>9 DEF EventLoop
<1>5. ASSUME User
      PROVE  \/ status'.run = NoRun
             \/ \E r \in Runs : status'.run = r /\ ~errored[r]
  <2>1. CASE RunQuery
    BY <1>2, <2>1 DEF RunQuery
  <2>2. CASE OnCancel
    BY <1>1, <2>2 DEF OnCancel
  <2>3. CASE CloseEditor
    BY <2>3 DEF CloseEditor, NoStatus
  <2>4. ASSUME NEW r \in Runs, CloseResult(r) \/ Paint(r) PROVE FALSE
    BY <2>4 DEF CloseResult, Paint, editor
  <2> QED
    BY <1>5, <2>1, <2>2, <2>3, <2>4 DEF User
<1>6. ~Quiet
  BY DEF Quiet, vars, editor
<1> QED
  BY <1>3, <1>4, <1>5, <1>6 DEF Next, System

(* What an old run still does leaves a newer one alone: after a failed     *)
(* push no event writes over the error it left in the status line, and the *)
(* tail of a loop takes no token but its own.                              *)
THEOREM LateStepsDoNoHarm == Spec => LateStepsAreHarmless
<1>1. Invariant /\ [Next]_vars =>
        [\A r \in Runs : errored[r] /\ status' # status => status'.run # r]_vars
  <2> SUFFICES ASSUME Invariant, Next, NEW r \in Runs, errored[r], status' # status
               PROVE  status'.run # r
    OBVIOUS
  <2>1. r # NoRun
    BY ParamTypes
  <2> QED
    BY <2>1, WhoSpeaks
<1>2. Invariant /\ [Next]_vars =>
        [\A r \in Runs : ChannelClosed(r) => cancel' = cancel \/ cancel = r]_vars
  <2> SUFFICES ASSUME Invariant, NEW r \in Runs, ChannelClosed(r)
               PROVE  cancel' = cancel \/ cancel = r
    OBVIOUS
  <2>1. cancel \in {NoRun, generation}
    BY DEF Invariant, IInv, Types
  <2>2. cancel' = IF editorOpen /\ generation = r THEN NoRun ELSE cancel
    BY DEF ChannelClosed, AfterTail
  <2> QED
    BY <2>1, <2>2
<1>3. Spec => SpillErrorStays
  BY <1>1, AlwaysInvariant, PTL DEF Spec, SpillErrorStays
<1>4. Spec => TailSparesNewerRun
  BY <1>2, AlwaysInvariant, PTL DEF Spec, TailSparesNewerRun
<1> QED
  BY <1>3, <1>4 DEF LateStepsAreHarmless

-----------------------------------------------------------------------------
(***************************************************************************)
(* Workspace: the pointer, the folders and their marks, imports and the    *)
(* windows, for any folders, picks, requests and faults.                   *)
(***************************************************************************)

(* The invariant of the window *)

(* A dialog or a job: which modes lead to a folder. *)
Rooted(mode, root) == mode # "none" /\ ((mode = "toprofile") = (root = Nil))

(* The window, its dialog, its job and its import, where one relies on     *)
(* another.                                                                *)
WindowOK ==
    /\ app.modal.kind = "missing" => app.up /\ app.ctx = Blocked /\ job.pc = "idle"
    /\ app.modal.kind = "confirm" => Rooted(app.modal.mode, app.modal.root)
    /\ job.pc # "idle" => app.up /\ Rooted(job.mode, job.root)
    /\ job.pc \in {"check", "copy", "scripts", "marker"} => job.mode = "init"
    /\ job.pc = "ok" => pointer = job.root
    /\ imp.pc = "idle" => imp.by = "none"
    /\ imp.by = "window" => app.up /\ app.ctx = imp.place

(* A folder the program goes by has its marker, which nothing takes away;  *)
(* one that is being filled has not.                                       *)
Marked(r) == r \in Roots => folder[r].mark = "ok"
MarksOK ==
    /\ app.up => Marked(app.ctx)
    /\ \A i \in Slots : pick[i].kind # "none" => pick[i].root \in Roots
    /\ \A i \in Slots : pick[i].seen # "no" => pick[i].kind # "none"
    /\ \A i \in Slots : pick[i].seen = "workspace" => Marked(pick[i].root)
    /\ app.modal.kind = "missing" => Marked(app.modal.root)
    /\ app.modal.kind = "confirm" /\ app.modal.mode = "adopt" => Marked(app.modal.root)
    /\ job.pc \in {"copy", "scripts", "marker"} => folder[job.root].mark = "none"
    /\ job.pc \in {"pointer", "ok"} => Marked(job.root)
    /\ imp.pc # "idle" => Marked(imp.place)

(* What a list holds: no import takes a store twice. *)
Elems(q) == {q[i] : i \in DOMAIN q}
ListsOK ==
    /\ imp.pc = "aside" => imp.written = <<>> /\ Elems(imp.todo) \cap Elems(imp.moved) = {}
    /\ imp.pc = "write" => Elems(imp.todo) \cap Elems(imp.written) = {}

Guarded == WindowOK /\ ListsOK /\ MarksOK /\ Pointed /\ BlockedIsAsked

WorkspaceIInv == WorkspaceTypeOK /\ Guarded

-----------------------------------------------------------------------------
(* Types and updates *)

LEMMA NamesAre == Names = {"config", "vault"}
<1>1. DOMAIN Stores = {1, 2} /\ Stores[1] = "config" /\ Stores[2] = "vault"
  BY DEF Stores
<1> QED
  BY <1>1 DEF Names

(* Lists of stores, and what they hold. *)
LEMMA AppendOne ==
    ASSUME NEW a \in Names, NEW b \in Names
    PROVE  Append(<<a>>, b) = <<a, b>>
<1>1. <<a>> \in Seq(Names) /\ Len(<<a>>) = 1
  OBVIOUS
<1>2. <<a, b>> \in Seq(Names) /\ Len(<<a, b>>) = 2
  OBVIOUS
<1>3. PICK q : q = Append(<<a>>, b)
  OBVIOUS
<1>4. q \in Seq(Names) /\ Len(q) = 2 /\ q[1] = <<a>>[1] /\ q[2] = b
  BY <1>1, <1>3, AppendProperties
<1>5. \A i \in 1 .. Len(q) : q[i] = <<a, b>>[i]
  <2> TAKE i \in 1 .. Len(q)
  <2>1. i = 1 \/ i = 2
    BY <1>4
  <2> QED
    BY <2>1, <1>4
<1>6. q = <<a, b>>
  BY <1>2, <1>4, <1>5, SeqEqual
<1> QED
  BY <1>3, <1>6

LEMMA ElemsAre ==
    /\ Elems(<<>>) = {}
    /\ \A a : Elems(<<a>>) = {a}
    /\ \A a, b : Elems(<<a, b>>) = {a, b}
<1>1. ASSUME NEW a PROVE Elems(<<a>>) = {a}
  <2>1. DOMAIN <<a>> = {1} /\ <<a>>[1] = a
    OBVIOUS
  <2> QED
    BY <2>1 DEF Elems
<1>2. ASSUME NEW a, NEW b PROVE Elems(<<a, b>>) = {a, b}
  <2>1. DOMAIN <<a, b>> = {1, 2} /\ <<a, b>>[1] = a /\ <<a, b>>[2] = b
    OBVIOUS
  <2> QED
    BY <2>1 DEF Elems
<1>3. Elems(<<>>) = {}
  BY DEF Elems
<1> QED
  BY <1>1, <1>2, <1>3

LEMMA TailElems ==
    ASSUME NEW q \in Orders, q # <<>>
    PROVE  /\ Tail(q) \in Orders /\ Head(q) \in Names
           /\ Elems(q) = Elems(Tail(q)) \cup {Head(q)} /\ Head(q) \notin Elems(Tail(q))
<1>1. CASE q = <<"config">>
  <2>1. Head(q) = "config" /\ Tail(q) = <<>>
    BY <1>1
  <2> QED
    BY <1>1, <2>1, NamesAre, ElemsAre DEF Orders
<1>2. CASE q = <<"vault">>
  <2>1. Head(q) = "vault" /\ Tail(q) = <<>>
    BY <1>2
  <2> QED
    BY <1>2, <2>1, NamesAre, ElemsAre DEF Orders
<1>3. CASE q = <<"config", "vault">>
  <2>1. Head(q) = "config" /\ Tail(q) = <<"vault">>
    BY <1>3
  <2> QED
    BY <1>3, <2>1, NamesAre, ElemsAre DEF Orders
<1>4. CASE q = <<"vault", "config">>
  <2>1. Head(q) = "vault" /\ Tail(q) = <<"config">>
    BY <1>4
  <2> QED
    BY <1>4, <2>1, NamesAre, ElemsAre DEF Orders
<1> QED
  BY <1>1, <1>2, <1>3, <1>4 DEF Orders, Stores

LEMMA AppendElems ==
    ASSUME NEW q \in Orders, NEW n \in Names, n \notin Elems(q)
    PROVE  Append(q, n) \in Orders /\ Elems(Append(q, n)) = Elems(q) \cup {n}
<1>1. CASE q = <<>>
  <2>1. Append(q, n) = <<n>>
    BY <1>1
  <2> QED
    BY <1>1, <2>1, NamesAre, ElemsAre DEF Orders
<1>2. ASSUME NEW a \in Names, q = <<a>> PROVE Append(q, n) \in Orders /\ Elems(Append(q, n)) = Elems(q) \cup {n}
  <2>1. Append(q, n) = <<a, n>>
    BY <1>2, AppendOne
  <2>2. n # a
    BY <1>2, ElemsAre
  <2>3. Elems(q) = {a} /\ Elems(<<a, n>>) = {a, n}
    BY <1>2, ElemsAre
  <2>4. <<a, n>> = <<"config", "vault">> \/ <<a, n>> = <<"vault", "config">>
    BY <2>2, NamesAre
  <2>5. <<a, n>> \in Orders
    BY <2>4 DEF Orders, Stores
  <2> QED
    BY <2>1, <2>3, <2>5
<1>3. CASE q = <<"config", "vault">> \/ q = <<"vault", "config">>
  BY <1>3, NamesAre, ElemsAre
<1> QED
  BY <1>1, <1>2, <1>3, NamesAre DEF Orders, Stores

LEMMA NoAskLeft ==
    ASSUME NEW q \in Orders PROVE q = <<>> <=> Elems(q) = {}
BY ElemsAre DEF Orders, Stores

LEMMA OrdersConstants == <<>> \in Orders /\ Stores \in Orders /\ Plans \subseteq Orders
BY DEF Orders, Plans

LEMMA Constants ==
    /\ Closed \in Modals /\ Pickless \in Picks /\ NoJob \in Jobs /\ NoImport \in Imports
    /\ Absent \in Contents /\ Own \in Contents /\ Theirs \in Contents
<1> USE WorkspaceAssumption, OrdersConstants
<1>1. Absent \in Contents /\ Own \in Contents /\ Theirs \in Contents
  BY DEF Absent, Own, Theirs, Contents
<1>2. Closed \in Modals
  BY DEF Closed, Modals, Modes
<1>3. Pickless \in Picks
  BY DEF Pickless, Picks
<1>4. NoJob \in Jobs
  BY DEF NoJob, Jobs, Modes
<1>5. [s \in Names |-> Absent] \in [Names -> Contents]
  BY <1>1
<1>6. NoImport \in Imports
  BY <1>5 DEF NoImport, Imports, Locations
<1> QED
  BY <1>1, <1>2, <1>3, <1>4, <1>6

(* What the updates of a record leave of it. *)
LEMMA ShowIs ==
    ASSUME app \in Windows, NEW m \in Modals, Show(m)
    PROVE  /\ app' \in Windows /\ app'.modal = m
           /\ app'.up = app.up /\ app'.ctx = app.ctx /\ app'.gen = app.gen
           /\ app'.asking = app.asking
BY DEF Show, Windows

LEMMA ApplyIs ==
    ASSUME app \in Windows, NEW place \in Locations \cup {Blocked}, ApplyContext(place)
    PROVE  /\ app' \in Windows /\ app'.modal = Closed /\ app'.ctx = place
           /\ app'.up = app.up /\ app'.asking = app.asking /\ app'.gen = app.gen + 1
<1>1. app.gen + 1 \in Nat
  BY DEF Windows
<1> QED
  BY <1>1, Constants DEF ApplyContext, Windows

LEMMA ModalIs ==
    ASSUME NEW kind \in {"none", "settings", "other", "missing", "confirm", "import"}
    PROVE  /\ Modal(kind) \in Modals /\ Modal(kind).kind = kind
           /\ Modal(kind).root = Nil /\ Modal(kind).mode = "none" /\ Modal(kind).running = FALSE
BY DEF Modal, Closed, Modals, Modes

LEMMA ClosedIs ==
    Closed.kind = "none" /\ Closed.root = Nil /\ Closed.mode = "none" /\ Closed.running = FALSE
BY DEF Closed

LEMMA PickIs ==
    ASSUME pick \in [Slots -> Picks], NEW i \in Slots, NEW x \in Picks,
           pick' = [pick EXCEPT ![i] = x]
    PROVE  pick' \in [Slots -> Picks] /\ pick'[i] = x /\ \A j \in Slots \ {i} : pick'[j] = pick[j]
OBVIOUS

LEMMA JobGoesIs ==
    ASSUME job \in Jobs,
           NEW pc \in {"check", "copy", "scripts", "marker", "pointer", "ok", "err"}, JobGoes(pc)
    PROVE  /\ job' \in Jobs /\ job'.pc = pc /\ job'.mode = job.mode /\ job'.root = job.root
           /\ job'.touched = job.touched /\ job'.todo = IF pc = "copy" THEN Stores ELSE <<>>
BY OrdersConstants DEF JobGoes, Jobs

LEMMA ResolveIs ==
    ASSUME WorkspaceTypeOK
    PROVE  /\ Resolve \in Locations \cup {Blocked} /\ Marked(Resolve)
           /\ Resolve = Profile => pointer = Nil
           /\ Resolve \in Roots => pointer = Resolve
BY WorkspaceAssumption DEF WorkspaceTypeOK, Resolve, Classify, Marked, Locations, Blocked

LEMMA ClassifyIs ==
    ASSUME WorkspaceTypeOK, NEW r \in Roots
    PROVE  /\ Classify(r) \in {"unreadable", "workspace", "nonempty", "empty"}
           /\ Classify(r) = "workspace" => folder[r].mark = "ok"
           /\ Classify(r) = "empty" => folder[r].mark = "none" /\ \A s \in Names : files[r][s] = Absent
BY DEF WorkspaceTypeOK, Classify, Folders

-----------------------------------------------------------------------------
(* The steps that touch nothing but the window *)

LEMMA AppTypes ==
    ASSUME WorkspaceTypeOK, app' \in Windows, UNCHANGED <<disk, pick, job, imp, used>>
    PROVE  WorkspaceTypeOK'
BY DEF WorkspaceTypeOK, disk

(* A step that leaves the context and shows a dialog that nothing waits for. *)
LEMMA KeepsDialogs ==
    ASSUME WorkspaceIInv, app' \in Windows, UNCHANGED <<disk, pick, job, imp, used>>,
           app'.up = app.up, app'.ctx = app.ctx,
           app'.modal.kind = "missing" <=> app.modal.kind = "missing",
           app'.modal.kind = "missing" => Marked(app'.modal.root),
           app'.modal.kind = "confirm" =>
               /\ Rooted(app'.modal.mode, app'.modal.root)
               /\ app'.modal.mode = "adopt" => Marked(app'.modal.root)
    PROVE  WorkspaceIInv'
<1>1. WorkspaceTypeOK'
  BY AppTypes DEF WorkspaceIInv
<1>2. WindowOK' /\ ListsOK'
  BY DEF WorkspaceIInv, Guarded, WindowOK, ListsOK, Rooted, disk
<1>3. MarksOK'
  BY DEF WorkspaceIInv, Guarded, MarksOK, Marked, disk
<1>4. Pointed' /\ BlockedIsAsked'
  BY DEF WorkspaceIInv, Guarded, Pointed, BlockedIsAsked, disk
<1> QED
  BY <1>1, <1>2, <1>3, <1>4 DEF WorkspaceIInv, Guarded

LEMMA DialogSteps ==
    ASSUME WorkspaceIInv,
           OpenDialog \/ CloseDialog \/ CancelRecovery \/ StartImport
             \/ ImportAsked \/ ImportDialogCancelled
    PROVE  WorkspaceIInv'
<1>1. app \in Windows /\ app.modal \in Modals
  BY DEF WorkspaceIInv, WorkspaceTypeOK, Windows
<1>2. UNCHANGED <<disk, pick, job, imp, used>>
  BY DEF OpenDialog, CloseDialog, CancelRecovery, StartImport, ImportAsked, ImportDialogCancelled
<1>3. CASE OpenDialog
  <2>1. PICK kind \in {"settings", "other"} : Show(Modal(kind))
    BY <1>3 DEF OpenDialog
  <2>2. app.modal.kind = "none"
    BY <1>3 DEF OpenDialog
  <2>3. app'.modal.kind = kind /\ app' \in Windows /\ app'.up = app.up /\ app'.ctx = app.ctx
    BY <1>1, <2>1, ModalIs, ShowIs
  <2> QED
    BY <1>2, <2>2, <2>3, KeepsDialogs
<1>4. CASE CloseDialog
  <2>1. app.modal.kind # "missing" /\ Show(Closed)
    BY <1>4 DEF CloseDialog
  <2>2. app'.modal.kind = "none" /\ app' \in Windows /\ app'.up = app.up /\ app'.ctx = app.ctx
    BY <1>1, <2>1, Constants, ClosedIs, ShowIs
  <2> QED
    BY <1>2, <2>1, <2>2, KeepsDialogs
<1>5. CASE CancelRecovery
  <2>1. app.modal.kind = "missing" /\ Show(Modal("missing"))
    BY <1>5 DEF CancelRecovery
  <2>2. /\ app'.modal.kind = "missing" /\ app'.modal.root = Nil
        /\ app' \in Windows /\ app'.up = app.up /\ app'.ctx = app.ctx
    BY <1>1, <2>1, ModalIs, ShowIs
  <2>3. Marked(Nil)
    BY WorkspaceAssumption DEF Marked
  <2> QED
    BY <1>2, <2>1, <2>2, <2>3, KeepsDialogs
<1>6. CASE StartImport \/ ImportDialogCancelled \/ ImportAsked
  <2>1. CASE app'.modal = app.modal
    <3>1. app' \in Windows /\ app'.up = app.up /\ app'.ctx = app.ctx
      BY <1>1, <1>6, <2>1, ModalIs DEF StartImport, ImportDialogCancelled, ImportAsked, Windows
    <3> QED
      BY <1>2, <2>1, <3>1, KeepsDialogs DEF WorkspaceIInv, Guarded, WindowOK, MarksOK
  <2>2. CASE app'.modal # app.modal
    <3>1. ImportAsked /\ SwitchAllowed
      BY <1>1, <1>6, <2>2 DEF StartImport, ImportDialogCancelled, ImportAsked, Windows
    <3>2. app' = [app EXCEPT !.asking = FALSE, !.modal = Modal("import")]
      BY <3>1 DEF ImportAsked
    <3>3. /\ app' \in Windows /\ app'.up = app.up /\ app'.ctx = app.ctx
          /\ app'.modal = Modal("import")
      BY <1>1, <3>2, ModalIs DEF Windows
    <3>4. app.modal.kind # "missing" /\ app'.modal.kind = "import"
      BY <3>1, <3>3, ModalIs DEF SwitchAllowed
    <3> QED
      BY <1>2, <3>3, <3>4, KeepsDialogs
  <2> QED
    BY <2>1, <2>2
<1> QED
  BY <1>3, <1>4, <1>5, <1>6

LEMMA KeepsStart ==
    ASSUME WorkspaceIInv, Start PROVE WorkspaceIInv'
<1>1. app \in Windows /\ ~app.up
  BY DEF WorkspaceIInv, WorkspaceTypeOK, Start
<1>2. UNCHANGED <<disk, pick, job, imp, used>>
  BY DEF Start
<1>3. PICK m \in Modals :
        m = IF Resolve = Blocked THEN Modal("missing") ELSE Closed
  BY Constants, ModalIs
<1>4. app' = [app EXCEPT !.up = TRUE, !.ctx = Resolve, !.modal = m, !.gen = 0]
  BY <1>3 DEF Start
<1>5. app' \in Windows /\ app'.up /\ app'.ctx = Resolve /\ app'.modal = m
  BY <1>1, <1>4, ResolveIs DEF Windows, WorkspaceIInv
<1>6. m.kind = IF Resolve = Blocked THEN "missing" ELSE "none"
  BY <1>3, ModalIs, ClosedIs
<1>7. m.root = Nil
  BY <1>3, ModalIs, ClosedIs
<1>8. job.pc = "idle" /\ imp.by # "window"
  BY <1>1 DEF WorkspaceIInv, Guarded, WindowOK
<1>9. WorkspaceTypeOK'
  BY <1>2, <1>5, AppTypes DEF WorkspaceIInv
<1>10. WindowOK' /\ ListsOK'
  BY <1>2, <1>5, <1>6, <1>8 DEF WorkspaceIInv, Guarded, WindowOK, ListsOK, disk
<1>11. MarksOK'
  BY <1>2, <1>5, <1>6, <1>7, ResolveIs, WorkspaceAssumption DEF WorkspaceIInv, Guarded, MarksOK, Marked, disk
<1>12. Pointed' /\ BlockedIsAsked'
  BY <1>2, <1>5, <1>6, ResolveIs DEF WorkspaceIInv, Guarded, Pointed, BlockedIsAsked, disk
<1> QED
  BY <1>9, <1>10, <1>11, <1>12 DEF WorkspaceIInv, Guarded

-----------------------------------------------------------------------------
(* Picks *)

LEMMA PickTypes ==
    ASSUME WorkspaceTypeOK, app' \in Windows, pick' \in [Slots -> Picks],
           used' \in [asks : 0 .. MaxAsks, faults : 0 .. MaxFaults, stamp : 0 .. MaxAsks],
           used'.stamp <= used'.asks, UNCHANGED <<disk, job, imp>>
    PROVE  WorkspaceTypeOK'
BY DEF WorkspaceTypeOK, disk

LEMMA AskIs ==
    ASSUME WorkspaceTypeOK, Ask
    PROVE  /\ used' \in [asks : 0 .. MaxAsks, faults : 0 .. MaxFaults, stamp : 0 .. MaxAsks]
           /\ used'.stamp <= used'.asks /\ used'.asks = used.asks + 1 /\ used'.stamp = used.stamp
<1>1. used.asks \in 0 .. MaxAsks /\ used.asks < MaxAsks /\ MaxAsks \in Nat
  BY WorkspaceAssumption DEF WorkspaceTypeOK, Ask
<1>2. PICK n : n = used.asks + 1
  OBVIOUS
<1>3. n \in 0 .. MaxAsks /\ used.asks <= n
  BY <1>1, <1>2
<1>4. used' = [used EXCEPT !.asks = n]
  BY <1>2 DEF Ask
<1>5. /\ used' \in [asks : 0 .. MaxAsks, faults : 0 .. MaxFaults, stamp : 0 .. MaxAsks]
      /\ used'.asks = n /\ used'.stamp = used.stamp
  BY <1>3, <1>4 DEF WorkspaceTypeOK
<1>6. used.stamp <= used.asks /\ used.stamp \in 0 .. MaxAsks
  BY DEF WorkspaceTypeOK
<1>7. used.stamp <= n
  BY <1>1, <1>2, <1>6
<1> QED
  BY <1>2, <1>5, <1>7

(* A step of the picks: one of them changes, and a dialog may be shown.    *)
LEMMA KeepsPicks ==
    ASSUME WorkspaceIInv, app' \in Windows, pick' \in [Slots -> Picks],
           used' \in [asks : 0 .. MaxAsks, faults : 0 .. MaxFaults, stamp : 0 .. MaxAsks],
           used'.stamp <= used'.asks, UNCHANGED <<disk, job, imp>>,
           app'.up = app.up, app'.ctx = app.ctx,
           app'.modal.kind = "missing" <=> app.modal.kind = "missing",
           app'.modal.kind = "missing" => Marked(app'.modal.root),
           app'.modal.kind = "confirm" =>
               /\ Rooted(app'.modal.mode, app'.modal.root)
               /\ app'.modal.mode = "adopt" => Marked(app'.modal.root),
           \A j \in Slots :
               /\ pick'[j].kind # "none" => pick'[j].root \in Roots
               /\ pick'[j].seen # "no" => pick'[j].kind # "none"
               /\ pick'[j].seen = "workspace" => Marked(pick'[j].root)
    PROVE  WorkspaceIInv'
<1>1. WorkspaceTypeOK'
  BY PickTypes DEF WorkspaceIInv
<1>2. WindowOK' /\ ListsOK'
  BY DEF WorkspaceIInv, Guarded, WindowOK, ListsOK, Rooted, disk
<1>3. MarksOK'
  BY DEF WorkspaceIInv, Guarded, MarksOK, Marked, disk
<1>4. Pointed' /\ BlockedIsAsked'
  BY DEF WorkspaceIInv, Guarded, Pointed, BlockedIsAsked, disk
<1> QED
  BY <1>1, <1>2, <1>3, <1>4 DEF WorkspaceIInv, Guarded

LEMMA PickSteps ==
    ASSUME WorkspaceIInv, StartPick \/ StartRecoveryPick
    PROVE  WorkspaceIInv'
<1>1. PICK kind \in {"settings", "recovery"} : DispatchJob(kind)
  BY DEF StartPick, StartRecoveryPick
<1>2. PICK i \in Slots, r \in Roots :
        pick' = [pick EXCEPT ![i] = [kind |-> kind, root |-> r, gen |-> app.gen, seen |-> "no"]]
  BY <1>1 DEF DispatchJob
<1>3. Ask /\ UNCHANGED <<disk, app, job, imp>>
  BY DEF StartPick, StartRecoveryPick
<1>4. [kind |-> kind, root |-> r, gen |-> app.gen, seen |-> "no"] \in Picks
  BY DEF WorkspaceIInv, WorkspaceTypeOK, Windows, Picks
<1>5. /\ pick' \in [Slots -> Picks] /\ pick'[i].kind # "none" /\ pick'[i].root \in Roots
      /\ pick'[i].seen = "no" /\ \A j \in Slots \ {i} : pick'[j] = pick[j]
  BY <1>2, <1>4, PickIs DEF WorkspaceIInv, WorkspaceTypeOK
<1>6. \A j \in Slots :
        /\ pick'[j].kind # "none" => pick'[j].root \in Roots
        /\ pick'[j].seen # "no" => pick'[j].kind # "none"
        /\ pick'[j].seen = "workspace" => Marked(pick'[j].root)
  BY <1>5 DEF WorkspaceIInv, Guarded, MarksOK
<1>7. app \in Windows /\ WorkspaceTypeOK
  BY DEF WorkspaceIInv, WorkspaceTypeOK
<1> QED
  BY <1>3, <1>5, <1>6, <1>7, AskIs, KeepsPicks DEF WorkspaceIInv, Guarded, WindowOK, MarksOK

LEMMA UsedStays ==
    ASSUME WorkspaceTypeOK, used' = used
    PROVE  /\ used' \in [asks : 0 .. MaxAsks, faults : 0 .. MaxFaults, stamp : 0 .. MaxAsks]
           /\ used'.stamp <= used'.asks
BY DEF WorkspaceTypeOK

LEMMA KeepsClassifyPick ==
    ASSUME WorkspaceIInv, NEW i \in Slots, ClassifyPick(i)
    PROVE  WorkspaceIInv'
<1>1. pick[i].root \in Roots /\ pick[i].kind # "none" /\ pick[i] \in Picks
  BY DEF WorkspaceIInv, WorkspaceTypeOK, Guarded, MarksOK, ClassifyPick
<1>2. PICK see : see = Classify(pick[i].root)
  OBVIOUS
<1>3. /\ see \in {"unreadable", "workspace", "nonempty", "empty"}
      /\ see = "workspace" => Marked(pick[i].root)
  BY <1>1, <1>2, ClassifyIs DEF WorkspaceIInv, Marked
<1>4. PICK x : x = [pick[i] EXCEPT !.seen = see]
  OBVIOUS
<1>5. x \in Picks /\ x.kind = pick[i].kind /\ x.root = pick[i].root /\ x.seen = see
  BY <1>1, <1>3, <1>4 DEF Picks
<1>6. pick' = [pick EXCEPT ![i] = x]
  BY <1>2, <1>4 DEF ClassifyPick
<1>7. pick' \in [Slots -> Picks] /\ pick'[i] = x /\ \A j \in Slots \ {i} : pick'[j] = pick[j]
  BY <1>5, <1>6, PickIs DEF WorkspaceIInv, WorkspaceTypeOK
<1>8. \A j \in Slots :
        /\ pick'[j].kind # "none" => pick'[j].root \in Roots
        /\ pick'[j].seen # "no" => pick'[j].kind # "none"
        /\ pick'[j].seen = "workspace" => Marked(pick'[j].root)
  BY <1>1, <1>3, <1>5, <1>7 DEF WorkspaceIInv, Guarded, MarksOK
<1>9. app \in Windows /\ WorkspaceTypeOK /\ used' = used /\ UNCHANGED <<disk, app, job, imp>>
  BY DEF WorkspaceIInv, WorkspaceTypeOK, ClassifyPick
<1> QED
  BY <1>7, <1>8, <1>9, UsedStays, KeepsPicks DEF WorkspaceIInv, Guarded, WindowOK, MarksOK

LEMMA KeepsLandings ==
    ASSUME WorkspaceIInv, NEW i \in Slots, RecoveryPickLands(i) \/ PickLands(i)
    PROVE  WorkspaceIInv'
<1>1. pick' = [pick EXCEPT ![i] = Pickless] /\ pick[i].seen # "no"
  BY DEF RecoveryPickLands, PickLands, Landing
<1>2. UNCHANGED <<disk, job, imp>> /\ used' = used
  BY DEF RecoveryPickLands, PickLands, Landing
<1>3. Pickless.kind = "none" /\ Pickless.seen = "no"
  BY DEF Pickless
<1>4. pick' \in [Slots -> Picks] /\ pick'[i] = Pickless /\ \A j \in Slots \ {i} : pick'[j] = pick[j]
  BY <1>1, Constants, PickIs DEF WorkspaceIInv, WorkspaceTypeOK
<1>5. \A j \in Slots :
        /\ pick'[j].kind # "none" => pick'[j].root \in Roots
        /\ pick'[j].seen # "no" => pick'[j].kind # "none"
        /\ pick'[j].seen = "workspace" => Marked(pick'[j].root)
  BY <1>3, <1>4 DEF WorkspaceIInv, Guarded, MarksOK
<1>6. app \in Windows /\ app.modal \in Modals /\ WorkspaceTypeOK
  BY DEF WorkspaceIInv, WorkspaceTypeOK, Windows
<1>7. pick[i].root \in Roots
  BY <1>1 DEF WorkspaceIInv, Guarded, MarksOK
<1>8. CASE app' = app
  BY <1>2, <1>4, <1>5, <1>6, <1>8, UsedStays, KeepsPicks DEF WorkspaceIInv, Guarded, WindowOK, MarksOK
<1>9. CASE app' # app /\ RecoveryPickLands(i)
  <2>1. pick[i].seen = "workspace" /\ app.modal.kind = "missing"
    BY <1>9 DEF RecoveryPickLands
  <2>2. PICK m : m = [app.modal EXCEPT !.root = pick[i].root]
    OBVIOUS
  <2>3. m \in Modals /\ m.kind = "missing" /\ m.root = pick[i].root
    BY <1>6, <1>7, <2>1, <2>2 DEF Modals
  <2>4. Show(m)
    BY <1>9, <2>2 DEF RecoveryPickLands
  <2>5. Marked(m.root)
    BY <2>1, <2>3 DEF WorkspaceIInv, Guarded, MarksOK
  <2> QED
    BY <1>2, <1>4, <1>5, <1>6, <2>1, <2>3, <2>4, <2>5, ShowIs, UsedStays, KeepsPicks
<1>10. CASE app' # app /\ PickLands(i)
  <2>1. /\ pick[i].seen \in {"empty", "workspace"} /\ app.modal.kind = "settings"
        /\ Show(Confirm(IF pick[i].seen = "empty" THEN "init" ELSE "adopt", pick[i].root))
    BY <1>10 DEF PickLands, PickMayOpen
  <2>2. PICK m : m = Confirm(IF pick[i].seen = "empty" THEN "init" ELSE "adopt", pick[i].root)
    OBVIOUS
  <2>3. /\ m \in Modals /\ m.kind = "confirm" /\ m.root = pick[i].root
        /\ m.mode = IF pick[i].seen = "empty" THEN "init" ELSE "adopt"
    BY <1>7, <2>2 DEF Confirm, Modals, Modes
  <2>4. Rooted(m.mode, m.root)
    BY <1>7, <2>3, WorkspaceAssumption DEF Rooted
  <2>5. m.mode = "adopt" => Marked(m.root)
    BY <2>1, <2>3 DEF WorkspaceIInv, Guarded, MarksOK
  <2>6. app' \in Windows /\ app'.modal = m /\ app'.up = app.up /\ app'.ctx = app.ctx
    BY <1>6, <2>1, <2>2, <2>3, ShowIs
  <2> QED
    BY <1>2, <1>4, <1>5, <1>6, <2>1, <2>3, <2>4, <2>5, <2>6, UsedStays, KeepsPicks
<1> QED
  BY <1>8, <1>9, <1>10

-----------------------------------------------------------------------------
(* Switches *)

LEMMA KeepsStutter ==
    ASSUME WorkspaceIInv, UNCHANGED <<pointer, files, folder, aside, app, pick, job, imp, used>>
    PROVE  WorkspaceIInv'
BY DEF WorkspaceIInv, WorkspaceTypeOK, Guarded, WindowOK, ListsOK, MarksOK, Marked, Pointed, BlockedIsAsked

(* The blocking dialog is answered: pointer and context change together.   *)
LEMMA KeepsAnswers ==
    ASSUME WorkspaceIInv, ConfirmRecovery \/ UseLocalProfile
    PROVE  WorkspaceIInv'
<1>1. UNCHANGED <<files, folder, aside, pick, job, imp, used>>
  BY DEF ConfirmRecovery, UseLocalProfile
<1>2. CASE UNCHANGED <<pointer, app>>
  BY <1>1, <1>2, KeepsStutter
<1>3. CASE ~UNCHANGED <<pointer, app>>
  <2>1. app.modal.kind = "missing" /\ app \in Windows /\ app.modal \in Modals
    BY DEF ConfirmRecovery, UseLocalProfile, WorkspaceIInv, WorkspaceTypeOK, Windows
  <2>2. PICK place \in Locations :
          /\ pointer' = IF place = Profile THEN Nil ELSE place
          /\ Marked(place) /\ ApplyContext(place)
    <3>1. CASE ConfirmRecovery
      <4>1. app.modal.root \in Roots /\ app.modal.root # Nil
        BY <2>1, <3>1 DEF ConfirmRecovery, Modals
      <4>2. pointer' = app.modal.root /\ ApplyContext(app.modal.root)
        BY <1>3, <3>1 DEF ConfirmRecovery
      <4> QED
        BY <2>1, <4>1, <4>2, WorkspaceAssumption DEF WorkspaceIInv, Guarded, MarksOK, Locations
    <3>2. CASE UseLocalProfile
      <4>1. pointer' = Nil /\ ApplyContext(Profile)
        BY <1>3, <3>2 DEF UseLocalProfile
      <4> QED
        BY <4>1, WorkspaceAssumption DEF Locations, Marked
    <3> QED
      BY <3>1, <3>2
  <2>3. /\ app' \in Windows /\ app'.modal = Closed /\ app'.ctx = place
        /\ app'.up = app.up
    BY <2>1, <2>2, ApplyIs
  <2>4. app'.modal.kind = "none"
    BY <2>3, ClosedIs
  <2>5. job.pc = "idle" /\ app.up /\ app.ctx = Blocked /\ imp.by # "window"
    BY <2>1, WorkspaceAssumption DEF WorkspaceIInv, WorkspaceTypeOK, Imports, Guarded, WindowOK,
      Locations, Blocked
  <2>6. pointer' \in Roots \cup {Nil} /\ place # Blocked
    BY <2>2, WorkspaceAssumption DEF Locations, Blocked
  <2>7. WorkspaceTypeOK'
    BY <1>1, <2>3, <2>6 DEF WorkspaceIInv, WorkspaceTypeOK
  <2>8. WindowOK' /\ ListsOK'
    BY <1>1, <2>3, <2>4, <2>5 DEF WorkspaceIInv, Guarded, WindowOK, ListsOK
  <2>9. MarksOK'
    BY <1>1, <2>2, <2>3, <2>4 DEF WorkspaceIInv, Guarded, MarksOK, Marked
  <2>10. Pointed' /\ BlockedIsAsked'
    BY <2>2, <2>3, <2>6, WorkspaceAssumption DEF Pointed, BlockedIsAsked
  <2> QED
    BY <2>7, <2>8, <2>9, <2>10 DEF WorkspaceIInv, Guarded
<1> QED
  BY <1>2, <1>3

LEMMA KeepsStartLeave ==
    ASSUME WorkspaceIInv, StartLeave
    PROVE  WorkspaceIInv'
<1>1. /\ app.modal.kind = "settings" /\ Ask /\ UNCHANGED <<disk, pick, job, imp>>
      /\ Show(Confirm("toprofile", Nil))
  BY DEF StartLeave
<1>2. PICK m : m = Confirm("toprofile", Nil)
  OBVIOUS
<1>3. m \in Modals /\ m.kind = "confirm" /\ m.root = Nil /\ m.mode = "toprofile"
  BY <1>2 DEF Confirm, Modals, Modes
<1>4. app \in Windows /\ WorkspaceTypeOK /\ pick \in [Slots -> Picks]
  BY DEF WorkspaceIInv, WorkspaceTypeOK
<1>5. app' \in Windows /\ app'.modal = m /\ app'.up = app.up /\ app'.ctx = app.ctx
  BY <1>1, <1>2, <1>3, <1>4, ShowIs
<1>6. Rooted(m.mode, m.root)
  BY <1>3 DEF Rooted
<1>7. \A j \in Slots :
        /\ pick'[j].kind # "none" => pick'[j].root \in Roots
        /\ pick'[j].seen # "no" => pick'[j].kind # "none"
        /\ pick'[j].seen = "workspace" => Marked(pick'[j].root)
  BY <1>1 DEF WorkspaceIInv, Guarded, MarksOK
<1> QED
  BY <1>1, <1>3, <1>4, <1>5, <1>6, <1>7, AskIs, KeepsPicks

LEMMA KeepsConfirmWorkspace ==
    ASSUME WorkspaceIInv, ConfirmWorkspace
    PROVE  WorkspaceIInv'
<1>1. /\ app.modal.kind = "confirm" /\ job.pc = "idle"
      /\ Show([app.modal EXCEPT !.running = TRUE]) /\ UNCHANGED <<disk, pick, imp, used>>
  BY DEF ConfirmWorkspace
<1>2. app \in Windows /\ app.modal \in Modals /\ app.up
  BY DEF WorkspaceIInv, WorkspaceTypeOK, Windows, ConfirmWorkspace, UserFree, UiFree
<1>3. PICK m : m = [app.modal EXCEPT !.running = TRUE]
  OBVIOUS
<1>4. m \in Modals /\ m.kind = "confirm" /\ m.root = app.modal.root /\ m.mode = app.modal.mode
  BY <1>1, <1>2, <1>3 DEF Modals
<1>5. app' \in Windows /\ app'.modal = m /\ app'.up = app.up /\ app'.ctx = app.ctx
  BY <1>1, <1>2, <1>3, <1>4, ShowIs
<1>6. job' = [NoJob EXCEPT !.pc = IF app.modal.mode = "init" THEN "check" ELSE "pointer",
                           !.mode = app.modal.mode, !.root = app.modal.root]
  BY DEF ConfirmWorkspace
<1>7. /\ job' \in Jobs /\ job'.mode = app.modal.mode /\ job'.root = app.modal.root
      /\ job'.pc = IF app.modal.mode = "init" THEN "check" ELSE "pointer"
  BY <1>2, <1>6, OrdersConstants DEF NoJob, Jobs, Modals
<1>8. Rooted(app.modal.mode, app.modal.root)
  BY <1>1 DEF WorkspaceIInv, Guarded, WindowOK
<1>9. app.modal.mode \in {"init", "adopt", "toprofile"}
  BY <1>2, <1>8 DEF Modals, Modes, Rooted
<1>10. job'.pc = "pointer" => Marked(job'.root)
  <2>1. CASE app.modal.mode = "adopt"
    BY <1>1, <1>7, <2>1 DEF WorkspaceIInv, Guarded, MarksOK
  <2>2. CASE app.modal.mode = "toprofile"
    BY <1>7, <1>8, <2>2, WorkspaceAssumption DEF Rooted, Marked
  <2> QED
    BY <1>7, <1>9, <2>1, <2>2
<1>11. WorkspaceTypeOK'
  BY <1>1, <1>5, <1>7 DEF WorkspaceIInv, WorkspaceTypeOK, disk
<1>12. WindowOK' /\ ListsOK'
  BY <1>1, <1>2, <1>4, <1>5, <1>7, <1>8 DEF WorkspaceIInv, Guarded, WindowOK, ListsOK, Rooted, disk
<1>13. MarksOK'
  BY <1>1, <1>4, <1>5, <1>7, <1>10 DEF WorkspaceIInv, Guarded, MarksOK, Marked, disk
<1>14. Pointed' /\ BlockedIsAsked'
  BY <1>1, <1>4, <1>5, <1>7 DEF WorkspaceIInv, Guarded, Pointed, BlockedIsAsked, disk
<1> QED
  BY <1>11, <1>12, <1>13, <1>14 DEF WorkspaceIInv, Guarded

-----------------------------------------------------------------------------
(* The background job *)

LEMMA FilesTypes ==
    ASSUME files \in [Locations -> [Names -> Contents]], NEW p \in Locations, NEW s \in Names,
           NEW c \in Contents, files' = [files EXCEPT ![p][s] = c]
    PROVE  /\ files' \in [Locations -> [Names -> Contents]]
           /\ \A q \in Locations : q # p => files'[q] = files[q]
           /\ files'[p][s] = c
           /\ \A n \in Names : n # s => files'[p][n] = files[p][n]
<1>1. [files[p] EXCEPT ![s] = c] \in [Names -> Contents]
  OBVIOUS
<1> QED
  BY <1>1

(* A step of the job that is not its last one. *)
LEMMA KeepsJob ==
    ASSUME WorkspaceIInv, UNCHANGED <<app, pick, imp, used>>, app.up, job.pc \notin {"idle", "ok"},
           job' \in Jobs, job'.mode = job.mode, job'.root = job.root,
           pointer' = pointer \/ (job'.pc = "ok" /\ pointer' = job.root),
           files' \in [Locations -> [Names -> Contents]], folder' \in [Roots -> Folders],
           aside' = aside, job'.pc # "idle",
           \A r \in Roots : folder'[r].mark # folder[r].mark =>
              r = job.root /\ folder'[r].mark = "ok" /\ job'.pc = "pointer",
           job'.pc \in {"check", "copy", "scripts", "marker"} => job'.mode = "init",
           job'.pc = "ok" => pointer' = job.root,
           job'.pc \in {"copy", "scripts", "marker"} => folder'[job.root].mark = "none",
           job'.pc \in {"pointer", "ok"} => Marked(job.root)'
    PROVE  WorkspaceIInv'
<1>1. pointer' \in Roots \cup {Nil, Corrupt}
  BY DEF WorkspaceIInv, WorkspaceTypeOK, Jobs
<1>2. WorkspaceTypeOK'
  BY <1>1 DEF WorkspaceIInv, WorkspaceTypeOK
<1>3. WindowOK' /\ ListsOK'
  BY DEF WorkspaceIInv, Guarded, WindowOK, ListsOK, Rooted
<1>4. \A r : Marked(r) => Marked(r)'
  BY DEF Marked
<1>5. MarksOK'
  BY <1>4 DEF WorkspaceIInv, Guarded, MarksOK
<1>6. Pointed'
  BY DEF WorkspaceIInv, Guarded, Pointed, WindowOK
<1>7. BlockedIsAsked'
  BY DEF WorkspaceIInv, Guarded, BlockedIsAsked
<1> QED
  BY <1>2, <1>3, <1>5, <1>6, <1>7 DEF WorkspaceIInv, Guarded

LEMMA JobSteps ==
    ASSUME WorkspaceIInv,
           JobChecks \/ JobCopies \/ JobMakesScripts \/ JobMarks \/ JobPoints
    PROVE  WorkspaceIInv'
<1> USE DEF JobStep
<1>1. /\ UNCHANGED <<app, pick, imp, used>> /\ app.up
      /\ job.pc \in {"check", "copy", "scripts", "marker", "pointer"}
  BY DEF JobChecks, JobCopies, JobMakesScripts, JobMarks, JobPoints
<1>2. /\ job \in Jobs /\ folder \in [Roots -> Folders]
      /\ files \in [Locations -> [Names -> Contents]] /\ WorkspaceTypeOK
  BY DEF WorkspaceIInv, WorkspaceTypeOK
<1>3. /\ Rooted(job.mode, job.root)
      /\ job.pc # "pointer" => job.mode = "init"
      /\ job.root \in Roots \cup {Nil}
  BY <1>1, <1>2 DEF WorkspaceIInv, Guarded, WindowOK, Jobs
<1>4. job.pc # "pointer" => job.root \in Roots
  BY <1>3 DEF Rooted
<1>5. /\ job.pc \in {"copy", "scripts", "marker"} => folder[job.root].mark = "none"
      /\ job.pc = "pointer" => Marked(job.root)
  BY DEF WorkspaceIInv, Guarded, MarksOK
<1>6. CASE JobGoes("err") /\ UNCHANGED disk
  <2>1. job' \in Jobs /\ job'.pc = "err" /\ job'.mode = job.mode /\ job'.root = job.root
    BY <1>2, <1>6, JobGoesIs
  <2> QED
    BY <1>1, <1>2, <1>6, <2>1, KeepsJob DEF disk
<1>7. CASE JobChecks
  <2>1. PICK pc \in {"copy", "err"} :
          JobGoes(pc) /\ (pc = "copy" => Classify(job.root) = "empty")
    BY <1>7 DEF JobChecks
  <2>2. job' \in Jobs /\ job'.pc = pc /\ job'.mode = job.mode /\ job'.root = job.root
    BY <1>2, <2>1, JobGoesIs
  <2>3. UNCHANGED disk /\ job.pc = "check"
    BY <1>7 DEF JobChecks
  <2>4. job'.pc = "copy" => folder[job.root].mark = "none"
    BY <1>2, <1>4, <2>1, <2>2, <2>3, ClassifyIs
  <2> QED
    BY <1>1, <1>2, <1>3, <2>2, <2>3, <2>4, KeepsJob DEF disk
<1>8. CASE JobCopies /\ ~JobFails
  <2>1. job.pc = "copy" /\ job.todo # <<>>
    BY <1>8 DEF JobCopies
  <2>2. PICK there \in BOOLEAN :
          /\ files' = IF there THEN [files EXCEPT ![job.root][Head(job.todo)]
                                                    = files[Profile][Head(job.todo)]]
                               ELSE files
          /\ job' = [job EXCEPT !.todo = Tail(@)]
          /\ UNCHANGED <<pointer, folder, aside>>
    BY <1>8 DEF JobCopies, Probe
  <2>3. job.todo \in Orders /\ Tail(job.todo) \in Orders /\ Head(job.todo) \in Names
    BY <1>2, <2>1, TailElems DEF Jobs
  <2>4. job' \in Jobs /\ job'.pc = "copy" /\ job'.mode = job.mode /\ job'.root = job.root
    BY <1>2, <2>1, <2>2, <2>3 DEF Jobs
  <2>5. files[Profile][Head(job.todo)] \in Contents /\ job.root \in Locations
    BY <1>2, <1>4, <2>1, <2>3 DEF Locations
  <2>6. files' \in [Locations -> [Names -> Contents]]
    BY <1>2, <2>2, <2>3, <2>5, FilesTypes
  <2> QED
    BY <1>1, <1>2, <1>3, <1>5, <2>1, <2>2, <2>4, <2>6, KeepsJob
<1>9. CASE JobMakesScripts /\ job.pc = "copy"
  <2>1. JobGoes("scripts") /\ UNCHANGED disk
    BY <1>9 DEF JobMakesScripts
  <2>2. job' \in Jobs /\ job'.pc = "scripts" /\ job'.mode = job.mode /\ job'.root = job.root
    BY <1>2, <2>1, JobGoesIs
  <2> QED
    BY <1>1, <1>2, <1>3, <1>5, <1>9, <2>1, <2>2, KeepsJob DEF disk
<1>10. CASE JobMakesScripts /\ job.pc # "copy" /\ ~JobFails
  <2>1. /\ job.pc = "scripts" /\ JobGoes("marker") /\ UNCHANGED <<pointer, files, aside>>
        /\ folder' = [folder EXCEPT ![job.root].other = TRUE]
    BY <1>10 DEF JobMakesScripts
  <2>2. job' \in Jobs /\ job'.pc = "marker" /\ job'.mode = job.mode /\ job'.root = job.root
    BY <1>2, <2>1, JobGoesIs
  <2>3. folder' \in [Roots -> Folders] /\ \A r \in Roots : folder'[r].mark = folder[r].mark
    BY <1>2, <2>1 DEF Folders
  <2> QED
    BY <1>1, <1>2, <1>3, <1>4, <1>5, <2>1, <2>2, <2>3, KeepsJob
<1>11. CASE JobMarks /\ ~JobFails
  <2>1. /\ job.pc = "marker" /\ JobGoes("pointer") /\ UNCHANGED <<pointer, files, aside>>
        /\ folder' = [folder EXCEPT ![job.root].mark = "ok"]
    BY <1>11 DEF JobMarks
  <2>2. job' \in Jobs /\ job'.pc = "pointer" /\ job'.mode = job.mode /\ job'.root = job.root
    BY <1>2, <2>1, JobGoesIs
  <2>3. /\ folder' \in [Roots -> Folders] /\ folder'[job.root].mark = "ok"
        /\ \A r \in Roots \ {job.root} : folder'[r].mark = folder[r].mark
    BY <1>2, <1>4, <2>1 DEF Folders
  <2>4. Marked(job.root)'
    BY <2>2, <2>3 DEF Marked
  <2> QED
    BY <1>1, <1>2, <1>3, <1>4, <1>5, <2>1, <2>2, <2>3, <2>4, KeepsJob
<1>12. CASE JobPoints /\ ~JobFails
  <2>1. /\ job.pc = "pointer" /\ JobGoes("ok") /\ UNCHANGED <<files, folder, aside>>
        /\ pointer' = job.root
    BY <1>12 DEF JobPoints
  <2>2. job' \in Jobs /\ job'.pc = "ok" /\ job'.mode = job.mode /\ job'.root = job.root
    BY <1>2, <2>1, JobGoesIs
  <2>3. Marked(job.root)'
    BY <1>5, <2>1, <2>2 DEF Marked
  <2> QED
    BY <1>1, <1>2, <1>3, <1>5, <2>1, <2>2, <2>3, KeepsJob
<1> QED
  BY <1>1, <1>6, <1>7, <1>8, <1>9, <1>10, <1>11, <1>12
     DEF JobFails, JobCopies, JobMakesScripts, JobMarks, JobPoints

LEMMA KeepsJobLands ==
    ASSUME WorkspaceIInv, JobLands
    PROVE  WorkspaceIInv'
<1>1. /\ job' = NoJob /\ UNCHANGED <<disk, pick, imp, used>> /\ job.pc \in {"ok", "err"}
      /\ app.up /\ imp.by # "window"
  BY DEF JobLands, UiFree
<1>2. job' \in Jobs /\ job'.pc = "idle"
  BY <1>1, Constants DEF NoJob
<1>3. app \in Windows /\ app.modal \in Modals /\ job \in Jobs
  BY DEF WorkspaceIInv, WorkspaceTypeOK, Windows
<1>4. CASE job.pc = "ok"
  <2>1. /\ pointer = job.root /\ Rooted(job.mode, job.root) /\ Marked(job.root)
        /\ job.root \in Roots \cup {Nil}
    BY <1>3, <1>4 DEF WorkspaceIInv, Guarded, WindowOK, MarksOK, Jobs
  <2>2. PICK place \in Locations :
          /\ place = IF job.mode = "toprofile" THEN Profile ELSE job.root
          /\ pointer = IF place = Profile THEN Nil ELSE place
    BY <2>1, WorkspaceAssumption DEF Rooted, Locations
  <2>3. ApplyContext(place)
    BY <1>4, <2>2 DEF JobLands
  <2>4. app' \in Windows /\ app'.modal.kind = "none" /\ app'.ctx = place /\ app'.up = app.up
    BY <1>3, <2>3, ApplyIs, ClosedIs
  <2>5. Marked(place) /\ place # Blocked
    BY <2>1, <2>2, WorkspaceAssumption DEF Marked, Locations, Blocked
  <2>6. WorkspaceTypeOK'
    BY <1>1, <1>2, <2>4 DEF WorkspaceIInv, WorkspaceTypeOK, disk
  <2>7. WindowOK' /\ ListsOK'
    BY <1>1, <1>2, <2>4 DEF WorkspaceIInv, Guarded, WindowOK, ListsOK, disk
  <2>8. MarksOK'
    BY <1>1, <1>2, <2>4, <2>5 DEF WorkspaceIInv, Guarded, MarksOK, Marked, disk
  <2>9. Pointed' /\ BlockedIsAsked'
    BY <1>1, <2>2, <2>4, <2>5, WorkspaceAssumption DEF Pointed, BlockedIsAsked, disk
  <2> QED
    BY <2>6, <2>7, <2>8, <2>9 DEF WorkspaceIInv, Guarded
<1>5. CASE job.pc = "err"
  <2>1. /\ app' \in Windows /\ app'.up = app.up /\ app'.ctx = app.ctx
        /\ app'.modal.kind = app.modal.kind /\ app'.modal.mode = app.modal.mode
        /\ app'.modal.root = app.modal.root
    <3>1. CASE app' = app
      BY <1>3, <3>1
    <3>2. CASE app' # app
      <4>1. PICK m : m = [app.modal EXCEPT !.running = FALSE]
        OBVIOUS
      <4>2. /\ m \in Modals /\ m.kind = app.modal.kind /\ m.mode = app.modal.mode
            /\ m.root = app.modal.root
        BY <1>3, <4>1 DEF Modals
      <4>3. Show(m)
        BY <1>5, <3>2, <4>1 DEF JobLands
      <4> QED
        BY <1>3, <4>2, <4>3, ShowIs
    <3> QED
      BY <3>1, <3>2
  <2>2. WorkspaceTypeOK'
    BY <1>1, <1>2, <2>1 DEF WorkspaceIInv, WorkspaceTypeOK, disk
  <2>3. WindowOK' /\ ListsOK'
    BY <1>1, <1>2, <2>1 DEF WorkspaceIInv, Guarded, WindowOK, ListsOK, disk
  <2>4. MarksOK'
    BY <1>1, <1>2, <2>1 DEF WorkspaceIInv, Guarded, MarksOK, Marked, disk
  <2>5. Pointed' /\ BlockedIsAsked'
    BY <1>1, <1>5, <2>1 DEF WorkspaceIInv, Guarded, Pointed, BlockedIsAsked, disk
  <2> QED
    BY <2>2, <2>3, <2>4, <2>5 DEF WorkspaceIInv, Guarded
<1> QED
  BY <1>1, <1>4, <1>5

-----------------------------------------------------------------------------
(* The import *)

LEMMA TouchesIs ==
    ASSUME job \in Jobs, Touches \/ job' = job
    PROVE  /\ job' \in Jobs /\ job'.pc = job.pc /\ job'.mode = job.mode /\ job'.root = job.root
           /\ job'.todo = job.todo
BY DEF Touches, Jobs

(* A step of the import that is neither its first nor its last. *)
LEMMA KeepsImport ==
    ASSUME WorkspaceIInv, UNCHANGED <<pointer, folder, app, pick, used>>, Touches \/ job' = job,
           files' \in [Locations -> [Names -> Contents]], aside' \subseteq Copies,
           imp' \in Imports, imp.pc # "idle", imp'.pc # "idle",
           imp'.by = imp.by, imp'.place = imp.place, ListsOK'
    PROVE  WorkspaceIInv'
<1>1. /\ job' \in Jobs /\ job'.pc = job.pc /\ job'.mode = job.mode /\ job'.root = job.root
  BY TouchesIs DEF WorkspaceIInv, WorkspaceTypeOK
<1>2. WorkspaceTypeOK'
  BY <1>1 DEF WorkspaceIInv, WorkspaceTypeOK
<1>3. WindowOK'
  BY <1>1 DEF WorkspaceIInv, Guarded, WindowOK
<1>4. MarksOK'
  BY <1>1 DEF WorkspaceIInv, Guarded, MarksOK, Marked
<1>5. Pointed' /\ BlockedIsAsked'
  BY <1>1 DEF WorkspaceIInv, Guarded, Pointed, BlockedIsAsked
<1> QED
  BY <1>2, <1>3, <1>4, <1>5 DEF WorkspaceIInv, Guarded

LEMMA ImpFacts ==
    ASSUME WorkspaceIInv
    PROVE  /\ imp \in Imports /\ imp.place \in Locations /\ imp.content \in Contents
           /\ imp.todo \in Orders /\ imp.moved \in Orders /\ imp.written \in Orders
           /\ imp.plan \in Orders /\ imp.stamp \in 0 .. MaxAsks
           /\ files \in [Locations -> [Names -> Contents]] /\ aside \subseteq Copies
<1>1. imp.content \in 0 .. MaxAsks => imp.content \in Contents
  BY WorkspaceAssumption DEF Contents, Theirs
<1> QED
  BY <1>1 DEF WorkspaceIInv, WorkspaceTypeOK, Imports

LEMMA KeepsSetAside ==
    ASSUME WorkspaceIInv, SetAside
    PROVE  WorkspaceIInv'
<1> USE DEF ImpStep
<1>1. /\ imp.pc = "aside" /\ imp.todo # <<>> /\ UNCHANGED <<pointer, folder, app, pick, used>>
  BY DEF SetAside
<1>2. PICK s : s = Head(imp.todo)
  OBVIOUS
<1>3. /\ s \in Names /\ Tail(imp.todo) \in Orders
      /\ Elems(imp.todo) = Elems(Tail(imp.todo)) \cup {s} /\ s \notin Elems(Tail(imp.todo))
  BY <1>1, <1>2, ImpFacts, TailElems
<1>4. imp.written = <<>> /\ Elems(imp.todo) \cap Elems(imp.moved) = {}
  BY <1>1 DEF WorkspaceIInv, Guarded, ListsOK
<1>5. CASE imp' = [imp EXCEPT !.todo = Tail(@)] /\ UNCHANGED <<files, aside, job>>
  <2>1. /\ imp' \in Imports /\ imp'.pc = "aside" /\ imp'.by = imp.by /\ imp'.place = imp.place
        /\ imp'.todo = Tail(imp.todo) /\ imp'.moved = imp.moved /\ imp'.written = imp.written
    BY <1>1, <1>3, <1>5, ImpFacts DEF Imports
  <2>2. ListsOK'
    BY <1>3, <1>4, <2>1 DEF ListsOK
  <2> QED
    BY <1>1, <1>5, <2>1, <2>2, ImpFacts, KeepsImport
<1>6. CASE /\ aside' = {a \in aside : <<a.place, a.store, a.stamp>> # <<imp.place, s, imp.stamp>>}
                       \cup {[place |-> imp.place, store |-> s, stamp |-> imp.stamp,
                              content |-> files[imp.place][s]]}
           /\ files' = [files EXCEPT ![imp.place][s] = Absent]
           /\ imp' = [imp EXCEPT !.todo = Tail(@), !.moved = Append(@, s)]
           /\ Touches
  <2>1. s \notin Elems(imp.moved)
    BY <1>3, <1>4
  <2>2. Append(imp.moved, s) \in Orders /\ Elems(Append(imp.moved, s)) = Elems(imp.moved) \cup {s}
    BY <1>3, <2>1, ImpFacts, AppendElems
  <2>3. /\ imp' \in Imports /\ imp'.pc = "aside" /\ imp'.by = imp.by /\ imp'.place = imp.place
        /\ imp'.todo = Tail(imp.todo) /\ imp'.moved = Append(imp.moved, s)
        /\ imp'.written = imp.written
    BY <1>1, <1>3, <1>6, <2>2, ImpFacts DEF Imports
  <2>4. ListsOK'
    BY <1>3, <1>4, <2>2, <2>3 DEF ListsOK
  <2>5. files' \in [Locations -> [Names -> Contents]]
    BY <1>3, <1>6, ImpFacts, Constants, FilesTypes
  <2>6. files[imp.place][s] \in Contents
    BY <1>3, ImpFacts
  <2>7. aside' \subseteq Copies
    BY <1>3, <1>6, <2>6, ImpFacts DEF Copies
  <2> QED
    BY <1>1, <1>6, <2>3, <2>4, <2>5, <2>7, KeepsImport
<1>7. CASE imp' = [imp EXCEPT !.pc = "undo"] /\ UNCHANGED <<files, aside, job>>
  <2>1. /\ imp' \in Imports /\ imp'.pc = "undo" /\ imp'.by = imp.by /\ imp'.place = imp.place
    BY <1>7, ImpFacts DEF Imports
  <2>2. ListsOK'
    BY <2>1 DEF ListsOK
  <2> QED
    BY <1>1, <1>7, <2>1, <2>2, ImpFacts, KeepsImport
<1> QED
  BY <1>1, <1>2, <1>5, <1>6, <1>7 DEF SetAside

LEMMA KeepsWriteStore ==
    ASSUME WorkspaceIInv, WriteStore
    PROVE  WorkspaceIInv'
<1> USE DEF ImpStep
<1>1. UNCHANGED <<pointer, folder, app, pick, used, aside>> /\ imp.pc \in {"aside", "write"}
  BY DEF WriteStore
<1>2. CASE imp.pc = "aside"
  <2>1. /\ imp.todo = <<>> /\ UNCHANGED <<files, job>>
        /\ imp' = [imp EXCEPT !.pc = "write", !.todo = imp.plan]
    BY <1>2 DEF WriteStore
  <2>2. /\ imp' \in Imports /\ imp'.pc = "write" /\ imp'.by = imp.by /\ imp'.place = imp.place
        /\ imp'.written = imp.written
    BY <2>1, ImpFacts DEF Imports
  <2>3. Elems(imp.written) = {}
    BY <1>2, ElemsAre DEF WorkspaceIInv, Guarded, ListsOK
  <2>4. ListsOK'
    BY <2>2, <2>3 DEF ListsOK
  <2> QED
    BY <1>1, <1>2, <2>1, <2>2, <2>4, ImpFacts, KeepsImport
<1>3. CASE imp.pc = "write" /\ imp' = [imp EXCEPT !.pc = "undo"]
  <2>1. UNCHANGED <<files, job>>
    BY <1>3, ImpFacts DEF WriteStore, Imports
  <2>2. /\ imp' \in Imports /\ imp'.pc = "undo" /\ imp'.by = imp.by /\ imp'.place = imp.place
    BY <1>3, ImpFacts DEF Imports
  <2>3. ListsOK'
    BY <2>2 DEF ListsOK
  <2> QED
    BY <1>1, <2>1, <2>2, <2>3, ImpFacts, KeepsImport
<1>4. CASE imp.pc = "write" /\ imp' # [imp EXCEPT !.pc = "undo"]
  <2>1. PICK s : s = Head(imp.todo)
    OBVIOUS
  <2>2. /\ imp.todo # <<>> /\ files' = [files EXCEPT ![imp.place][s] = imp.content]
        /\ imp' = [imp EXCEPT !.todo = Tail(@), !.written = Append(@, s)] /\ Touches
    BY <1>4, <2>1 DEF WriteStore
  <2>3. /\ s \in Names /\ Tail(imp.todo) \in Orders
        /\ Elems(imp.todo) = Elems(Tail(imp.todo)) \cup {s} /\ s \notin Elems(Tail(imp.todo))
    BY <2>1, <2>2, ImpFacts, TailElems
  <2>4. Elems(imp.todo) \cap Elems(imp.written) = {}
    BY <1>4 DEF WorkspaceIInv, Guarded, ListsOK
  <2>5. Append(imp.written, s) \in Orders
        /\ Elems(Append(imp.written, s)) = Elems(imp.written) \cup {s}
    BY <2>3, <2>4, ImpFacts, AppendElems
  <2>6. /\ imp' \in Imports /\ imp'.pc = "write" /\ imp'.by = imp.by /\ imp'.place = imp.place
        /\ imp'.todo = Tail(imp.todo) /\ imp'.written = Append(imp.written, s)
    BY <1>4, <2>2, <2>3, <2>5, ImpFacts DEF Imports
  <2>7. ListsOK'
    BY <2>3, <2>4, <2>5, <2>6 DEF ListsOK
  <2>8. files' \in [Locations -> [Names -> Contents]]
    BY <2>2, <2>3, ImpFacts, FilesTypes
  <2> QED
    BY <1>1, <1>4, <2>2, <2>6, <2>7, <2>8, ImpFacts, KeepsImport
<1> QED
  BY <1>1, <1>2, <1>3, <1>4

LEMMA RollbackSteps ==
    ASSUME WorkspaceIInv, Remove \/ PutBack
    PROVE  WorkspaceIInv'
<1> USE DEF ImpStep
<1>1. UNCHANGED <<pointer, folder, app, pick, used>> /\ imp.pc = "undo"
  BY DEF Remove, PutBack
<1>2. CASE Remove
  <2>1. PICK rest : rest = [imp EXCEPT !.written = Tail(@)]
    OBVIOUS
  <2>2. imp.written # <<>>
    BY <1>2 DEF Remove
  <2>3. Tail(imp.written) \in Orders /\ Head(imp.written) \in Names
    BY <2>2, ImpFacts, TailElems
  <2>4. rest \in Imports /\ rest.pc = "undo" /\ rest.by = imp.by /\ rest.place = imp.place
    BY <1>1, <2>1, <2>3, ImpFacts DEF Imports
  <2>5. CASE UndoFails(rest)
    <3>1. imp' \in Imports /\ imp'.pc = "undo" /\ imp'.by = imp.by /\ imp'.place = imp.place
      BY <2>4, <2>5 DEF UndoFails, Imports
    <3>2. ListsOK'
      BY <3>1 DEF ListsOK
    <3> QED
      BY <1>1, <2>5, <3>1, <3>2, ImpFacts, KeepsImport DEF UndoFails
  <2>6. CASE ~UndoFails(rest)
    <3>1. /\ files' = [files EXCEPT ![imp.place][Head(imp.written)] = Absent]
          /\ imp' = rest /\ Touches /\ UNCHANGED aside
      BY <1>2, <2>1, <2>6 DEF Remove
    <3>2. ListsOK'
      BY <2>4, <3>1 DEF ListsOK
    <3>3. files' \in [Locations -> [Names -> Contents]]
      BY <2>3, <3>1, ImpFacts, Constants, FilesTypes
    <3> QED
      BY <1>1, <2>4, <3>1, <3>2, <3>3, ImpFacts, KeepsImport
  <2> QED
    BY <2>5, <2>6
<1>3. CASE PutBack
  <2>1. PICK rest : rest = [imp EXCEPT !.moved = Tail(@)]
    OBVIOUS
  <2>2. imp.moved # <<>>
    BY <1>3 DEF PutBack
  <2>3. Tail(imp.moved) \in Orders /\ Head(imp.moved) \in Names
    BY <2>2, ImpFacts, TailElems
  <2>4. rest \in Imports /\ rest.pc = "undo" /\ rest.by = imp.by /\ rest.place = imp.place
    BY <1>1, <2>1, <2>3, ImpFacts DEF Imports
  <2>5. CASE UndoFails(rest)
    <3>1. imp' \in Imports /\ imp'.pc = "undo" /\ imp'.by = imp.by /\ imp'.place = imp.place
      BY <2>4, <2>5 DEF UndoFails, Imports
    <3>2. ListsOK'
      BY <3>1 DEF ListsOK
    <3> QED
      BY <1>1, <2>5, <3>1, <3>2, ImpFacts, KeepsImport DEF UndoFails
  <2>6. CASE ~UndoFails(rest)
    <3>1. PICK a \in aside :
            /\ files' = [files EXCEPT ![imp.place][Head(imp.moved)] = a.content]
            /\ aside' = aside \ {a}
      BY <1>3, <2>1, <2>6 DEF PutBack
    <3>2. imp' = rest /\ Touches
      BY <1>3, <2>1, <2>6 DEF PutBack
    <3>3. ListsOK'
      BY <2>4, <3>2 DEF ListsOK
    <3>4. a.content \in Contents /\ aside' \subseteq Copies
      BY <3>1, ImpFacts DEF Copies
    <3>5. files' \in [Locations -> [Names -> Contents]]
      BY <2>3, <3>1, <3>4, ImpFacts, FilesTypes
    <3> QED
      BY <1>1, <2>4, <3>2, <3>3, <3>4, <3>5, KeepsImport
  <2> QED
    BY <2>5, <2>6
<1> QED
  BY <1>2, <1>3

LEMMA KeepsApplied ==
    ASSUME WorkspaceIInv, Applied
    PROVE  WorkspaceIInv'
<1>1. PICK pc \in {"ok", "err"} : imp' = [imp EXCEPT !.pc = pc]
  BY DEF Applied
<1>2. UNCHANGED <<pointer, files, folder, aside, app, pick, job, used>> /\ imp.pc # "idle"
  BY DEF Applied, disk
<1>3. imp' \in Imports /\ imp'.pc = pc /\ imp'.by = imp.by /\ imp'.place = imp.place
  BY <1>1, ImpFacts DEF Imports
<1>4. ListsOK'
  BY <1>3 DEF ListsOK
<1> QED
  BY <1>2, <1>3, <1>4, ImpFacts, KeepsImport

LEMMA KeepsImportReturns ==
    ASSUME WorkspaceIInv, ImportReturns
    PROVE  WorkspaceIInv'
<1>1. /\ imp' = NoImport /\ UNCHANGED <<disk, pick, job, used>> /\ imp.pc \in {"ok", "err"}
  BY DEF ImportReturns
<1>2. NoImport.pc = "idle" /\ NoImport.by = "none"
  BY DEF NoImport
<1>3. app \in Windows
  BY DEF WorkspaceIInv, WorkspaceTypeOK
<1>4. /\ app' \in Windows /\ app'.up = app.up /\ app'.ctx = app.ctx
      /\ app' = app \/ (app'.modal.kind = "none" /\ app.up /\ app.ctx \in Locations)
  <2>1. CASE imp.by = "window" /\ imp.pc = "ok"
    <3>1. ApplyContext(app.ctx)
      BY <2>1 DEF ImportReturns
    <3>2. app.ctx \in Locations /\ app.up
      BY <2>1, ImpFacts DEF WorkspaceIInv, Guarded, WindowOK
    <3> QED
      BY <1>3, <3>1, <3>2, ApplyIs, ClosedIs
  <2>2. CASE ~(imp.by = "window" /\ imp.pc = "ok")
    BY <1>3, <2>2 DEF ImportReturns
  <2> QED
    BY <2>1, <2>2
<1>5. WorkspaceTypeOK'
  BY <1>1, <1>4, Constants DEF WorkspaceIInv, WorkspaceTypeOK, disk
<1>6. WindowOK'
  BY <1>1, <1>2, <1>4 DEF WorkspaceIInv, Guarded, WindowOK, disk
<1>7. ListsOK'
  BY <1>1, <1>2 DEF ListsOK
<1>8. MarksOK'
  BY <1>1, <1>2, <1>4 DEF WorkspaceIInv, Guarded, MarksOK, Marked, disk
<1>9. Pointed'
  BY <1>1, <1>4 DEF WorkspaceIInv, Guarded, Pointed, disk
<1>10. BlockedIsAsked'
  BY <1>1, <1>4, WorkspaceAssumption DEF WorkspaceIInv, Guarded, BlockedIsAsked, Locations, Blocked
<1> QED
  BY <1>5, <1>6, <1>7, <1>8, <1>9, <1>10 DEF WorkspaceIInv, Guarded

(* What the first step of bundle::apply leaves. *)
LEMMA ApplyImportIs ==
    ASSUME WorkspaceTypeOK, NEW by \in {"window", "cli"}, NEW place \in Locations,
           NEW content, content = used.asks + 1, used.asks < MaxAsks, Apply(by, place, content)
    PROVE  /\ imp' \in Imports /\ imp'.pc = "aside" /\ imp'.by = by /\ imp'.place = place
           /\ imp'.plan \in Plans /\ imp'.todo = imp'.plan /\ imp'.moved = <<>>
           /\ imp'.written = <<>> /\ imp'.content = content /\ imp'.before = files[place]
           /\ imp'.spoiled = FALSE
           /\ imp'.stamp = used.stamp + 1 \/ SameSecond
           /\ imp'.stamp = used'.stamp
           /\ used' \in [asks : 0 .. MaxAsks, faults : 0 .. MaxFaults, stamp : 0 .. MaxAsks]
           /\ used'.stamp <= used'.asks /\ used'.asks = content
           /\ imp.pc = "idle"
<1>1. /\ used.asks \in 0 .. MaxAsks /\ used.stamp \in 0 .. MaxAsks /\ used.stamp <= used.asks
      /\ MaxAsks \in Nat
  BY WorkspaceAssumption DEF WorkspaceTypeOK
<1>2. content \in 0 .. MaxAsks
  BY <1>1
<1>3. PICK plan \in Plans,
           stamp \in IF SameSecond THEN {used.stamp, used.stamp + 1} ELSE {used.stamp + 1} :
        /\ imp' = [NoImport EXCEPT !.pc = "aside", !.by = by, !.place = place, !.plan = plan,
                                   !.todo = plan, !.content = content, !.stamp = stamp,
                                   !.before = files[place]]
        /\ used' = [used EXCEPT !.stamp = stamp, !.asks = content]
  BY DEF Apply
<1>4. stamp \in 0 .. MaxAsks /\ stamp <= content
  BY <1>1
<1>5. files[place] \in [Names -> Contents] /\ plan \in Orders
  BY OrdersConstants DEF WorkspaceTypeOK
<1>6. imp' = [pc |-> "aside", by |-> by, place |-> place, plan |-> plan, todo |-> plan,
              moved |-> <<>>, written |-> <<>>, content |-> content, stamp |-> stamp,
              before |-> files[place], spoiled |-> FALSE]
  BY <1>3 DEF NoImport
<1>7. /\ imp' \in Imports /\ imp'.pc = "aside" /\ imp'.by = by /\ imp'.place = place
      /\ imp'.plan = plan /\ imp'.todo = plan /\ imp'.moved = <<>> /\ imp'.written = <<>>
      /\ imp'.content = content /\ imp'.before = files[place] /\ imp'.spoiled = FALSE
      /\ imp'.stamp = stamp
  BY <1>2, <1>4, <1>5, <1>6, OrdersConstants DEF Imports
<1>8. /\ used' \in [asks : 0 .. MaxAsks, faults : 0 .. MaxFaults, stamp : 0 .. MaxAsks]
      /\ used'.asks = content /\ used'.stamp = stamp
  BY <1>2, <1>3, <1>4 DEF WorkspaceTypeOK
<1>9. stamp = used.stamp + 1 \/ SameSecond
  OBVIOUS
<1>10. imp.pc = "idle"
  BY DEF Apply
<1> QED
  BY <1>3, <1>4, <1>7, <1>8, <1>9, <1>10

LEMMA ImportBegins ==
    ASSUME WorkspaceIInv, ConfirmImport \/ CliImport
    PROVE  WorkspaceIInv'
<1>1. PICK by \in {"window", "cli"}, place \in Locations \cup {Blocked} :
        /\ Apply(by, place, used.asks + 1)
        /\ place = IF by = "window" THEN app.ctx ELSE Resolve
        /\ by = "window" => app.up /\ app.modal.kind = "import"
        /\ by = "cli" => Resolve # Blocked
  BY ResolveIs DEF ConfirmImport, CliImport, UserFree, UiFree, WorkspaceIInv, WorkspaceTypeOK, Windows
<1>2. UNCHANGED <<disk, app, pick, job>> /\ used.asks < MaxAsks
  BY DEF ConfirmImport, CliImport
<1>3. place \in Locations /\ Marked(place)
  <2>1. CASE by = "window"
    BY <1>1, <2>1 DEF WorkspaceIInv, WorkspaceTypeOK, Windows, Guarded, MarksOK, BlockedIsAsked
  <2>2. CASE by = "cli"
    BY <1>1, <2>2, ResolveIs DEF WorkspaceIInv
  <2> QED
    BY <2>1, <2>2
<1>4. /\ imp' \in Imports /\ imp'.pc = "aside" /\ imp'.by = by /\ imp'.place = place
      /\ imp'.moved = <<>> /\ imp'.written = <<>>
      /\ used' \in [asks : 0 .. MaxAsks, faults : 0 .. MaxFaults, stamp : 0 .. MaxAsks]
      /\ used'.stamp <= used'.asks
  BY <1>1, <1>2, <1>3, ApplyImportIs DEF WorkspaceIInv
<1>5. WorkspaceTypeOK'
  BY <1>2, <1>4 DEF WorkspaceIInv, WorkspaceTypeOK, disk
<1>6. WindowOK'
  BY <1>1, <1>2, <1>4 DEF WorkspaceIInv, Guarded, WindowOK, disk
<1>7. ListsOK'
  BY <1>4, ElemsAre DEF ListsOK
<1>8. MarksOK'
  BY <1>2, <1>3, <1>4 DEF WorkspaceIInv, Guarded, MarksOK, Marked, disk
<1>9. Pointed' /\ BlockedIsAsked'
  BY <1>2 DEF WorkspaceIInv, Guarded, Pointed, BlockedIsAsked, disk
<1> QED
  BY <1>5, <1>6, <1>7, <1>8, <1>9 DEF WorkspaceIInv, Guarded

-----------------------------------------------------------------------------
(* Faults *)

LEMMA FaultIs ==
    ASSUME WorkspaceTypeOK, Fault
    PROVE  /\ used' \in [asks : 0 .. MaxAsks, faults : 0 .. MaxFaults, stamp : 0 .. MaxAsks]
           /\ used'.stamp = used.stamp /\ used'.asks = used.asks /\ used'.stamp <= used'.asks
<1>1. used.faults \in 0 .. MaxFaults /\ used.faults < MaxFaults /\ MaxFaults \in Nat
  BY WorkspaceAssumption DEF WorkspaceTypeOK, Fault
<1>2. PICK n : n = used.faults + 1
  OBVIOUS
<1>3. n \in 0 .. MaxFaults
  BY <1>1, <1>2
<1>4. used' = [used EXCEPT !.faults = n]
  BY <1>2 DEF Fault
<1> QED
  BY <1>3, <1>4 DEF WorkspaceTypeOK

LEMMA FaultSteps ==
    ASSUME WorkspaceIInv, Crash \/ CliCrash \/ Turn
    PROVE  WorkspaceIInv'
<1>1. /\ used' \in [asks : 0 .. MaxAsks, faults : 0 .. MaxFaults, stamp : 0 .. MaxAsks]
      /\ used'.stamp <= used'.asks
  BY FaultIs DEF WorkspaceIInv, Crash, CliCrash, Turn
<1>2. app \in Windows /\ imp \in Imports /\ folder \in [Roots -> Folders]
  BY DEF WorkspaceIInv, WorkspaceTypeOK
<1>3. NoImport.pc = "idle" /\ NoImport.by = "none" /\ NoJob.pc = "idle"
  BY DEF NoImport, NoJob
<1>4. CASE Crash
  <2>1. /\ app' = [app EXCEPT !.up = FALSE, !.modal = Closed, !.asking = FALSE]
        /\ pick' = [i \in Slots |-> Pickless] /\ job' = NoJob
        /\ imp' = IF imp.by = "window" THEN NoImport ELSE imp
        /\ UNCHANGED disk
    BY <1>4 DEF Crash
  <2>2. app' \in Windows /\ ~app'.up /\ app'.modal.kind = "none"
    BY <1>2, <2>1, Constants, ClosedIs DEF Windows
  <2>3. imp' \in Imports /\ imp'.by # "window" /\ (imp' = imp \/ imp'.pc = "idle")
    BY <1>2, <1>3, <2>1, Constants
  <2>4. \A i \in Slots : pick'[i].kind = "none" /\ pick'[i].seen = "no"
    BY <2>1 DEF Pickless
  <2>5. WorkspaceTypeOK'
    BY <1>1, <2>1, <2>2, <2>3, Constants DEF WorkspaceIInv, WorkspaceTypeOK, disk
  <2>6. WindowOK'
    BY <1>3, <2>1, <2>2, <2>3 DEF WorkspaceIInv, Guarded, WindowOK, disk
  <2>7. ListsOK'
    BY <2>3 DEF WorkspaceIInv, Guarded, ListsOK
  <2>8. MarksOK'
    BY <1>3, <2>1, <2>2, <2>3, <2>4 DEF WorkspaceIInv, Guarded, MarksOK, Marked, disk
  <2>9. Pointed' /\ BlockedIsAsked'
    BY <2>2 DEF Pointed, BlockedIsAsked
  <2> QED
    BY <2>5, <2>6, <2>7, <2>8, <2>9 DEF WorkspaceIInv, Guarded
<1>5. CASE CliCrash
  <2>1. imp' = NoImport /\ UNCHANGED <<disk, app, pick, job>>
    BY <1>5 DEF CliCrash
  <2>2. WorkspaceTypeOK'
    BY <1>1, <2>1, Constants DEF WorkspaceIInv, WorkspaceTypeOK, disk
  <2>3. WindowOK'
    BY <1>3, <2>1 DEF WorkspaceIInv, Guarded, WindowOK, disk
  <2>4. ListsOK'
    BY <1>3, <2>1 DEF ListsOK
  <2>5. MarksOK'
    BY <1>3, <2>1 DEF WorkspaceIInv, Guarded, MarksOK, Marked, disk
  <2>6. Pointed' /\ BlockedIsAsked'
    BY <2>1 DEF WorkspaceIInv, Guarded, Pointed, BlockedIsAsked, disk
  <2> QED
    BY <2>2, <2>3, <2>4, <2>5, <2>6 DEF WorkspaceIInv, Guarded
<1>6. CASE Turn
  <2>1. UNCHANGED <<pointer, files, aside, app, pick, job, imp>>
    BY <1>6 DEF Turn
  <2>2. PICK r \in Roots : folder' = [folder EXCEPT ![r].there = ~@]
    BY <1>6 DEF Turn
  <2>3. folder' \in [Roots -> Folders] /\ \A q \in Roots : folder'[q].mark = folder[q].mark
    BY <1>2, <2>2 DEF Folders
  <2>4. WorkspaceTypeOK'
    BY <1>1, <2>1, <2>3 DEF WorkspaceIInv, WorkspaceTypeOK
  <2>5. WindowOK' /\ ListsOK'
    BY <2>1 DEF WorkspaceIInv, Guarded, WindowOK, ListsOK
  <2>6. \A q : Marked(q)' <=> Marked(q)
    BY <2>3 DEF Marked
  <2>7. job.pc \in {"copy", "scripts", "marker"} => job.root \in Roots
    BY WorkspaceAssumption DEF WorkspaceIInv, WorkspaceTypeOK, Jobs, Guarded, WindowOK, Rooted
  <2>8. MarksOK'
    BY <2>1, <2>3, <2>6, <2>7 DEF WorkspaceIInv, Guarded, MarksOK
  <2>9. Pointed' /\ BlockedIsAsked'
    BY <2>1 DEF WorkspaceIInv, Guarded, Pointed, BlockedIsAsked
  <2> QED
    BY <2>4, <2>5, <2>8, <2>9 DEF WorkspaceIInv, Guarded
<1> QED
  BY <1>4, <1>5, <1>6

-----------------------------------------------------------------------------
LEMMA InitIInv == WorkspaceInit => WorkspaceIInv
<1> SUFFICES ASSUME WorkspaceInit PROVE WorkspaceIInv
  OBVIOUS
<1>1. folder \in [Roots -> Folders]
  BY DEF WorkspaceInit
<1>2. files \in [Locations -> [Names -> Contents]]
  BY Constants DEF WorkspaceInit
<1>3. app \in Windows /\ ~app.up /\ app.modal = Closed
  BY Constants DEF WorkspaceInit, Windows, Locations
<1>4. used \in [asks : 0 .. MaxAsks, faults : 0 .. MaxFaults, stamp : 0 .. MaxAsks]
      /\ used.stamp <= used.asks
  BY WorkspaceAssumption DEF WorkspaceInit
<1>5. WorkspaceTypeOK
  BY <1>1, <1>2, <1>3, <1>4, Constants DEF WorkspaceInit, WorkspaceTypeOK
<1>6. job.pc = "idle" /\ imp.pc = "idle" /\ imp.by = "none"
  BY DEF WorkspaceInit, NoJob, NoImport
<1>7. \A i \in Slots : pick[i].kind = "none" /\ pick[i].seen = "no"
  BY DEF WorkspaceInit, Pickless
<1>8. WindowOK /\ ListsOK
  BY <1>3, <1>6, ClosedIs DEF WindowOK, ListsOK
<1>9. MarksOK
  BY <1>3, <1>6, <1>7, ClosedIs DEF MarksOK
<1>10. Pointed /\ BlockedIsAsked
  BY <1>3 DEF Pointed, BlockedIsAsked
<1> QED
  BY <1>5, <1>8, <1>9, <1>10 DEF WorkspaceIInv, Guarded

LEMMA NextIInv == WorkspaceIInv /\ [WorkspaceNext]_workspaceVars => WorkspaceIInv'
<1> SUFFICES ASSUME WorkspaceIInv, [WorkspaceNext]_workspaceVars PROVE WorkspaceIInv'
  OBVIOUS
<1>1. CASE WorkspaceSystem
  BY <1>1, KeepsStart, KeepsClassifyPick, KeepsLandings, JobSteps, KeepsJobLands, KeepsSetAside,
     KeepsWriteStore, RollbackSteps, KeepsApplied, KeepsImportReturns DEF WorkspaceSystem
<1>2. CASE WorkspaceUser
  BY <1>2, DialogSteps, PickSteps, KeepsAnswers, KeepsStartLeave, KeepsConfirmWorkspace,
     ImportBegins DEF WorkspaceUser
<1>3. CASE Crash \/ CliCrash \/ Turn
  BY <1>3, FaultSteps
<1>4. CASE UNCHANGED workspaceVars
  BY <1>4, KeepsStutter DEF workspaceVars
<1> QED
  BY <1>1, <1>2, <1>3, <1>4 DEF WorkspaceNext

LEMMA Invariance == WorkspaceSpec => []WorkspaceIInv
<1>1. WorkspaceInit => WorkspaceIInv
  BY InitIInv
<1>2. WorkspaceIInv /\ [WorkspaceNext]_workspaceVars => WorkspaceIInv'
  BY NextIInv
<1> QED
  BY <1>1, <1>2, PTL DEF WorkspaceSpec

(* At every moment the context on the screen is the one the pointer names, *)
(* and a pointer that leads nowhere is asked about.                        *)
THEOREM ContextIsPointed == WorkspaceSpec => []WorkspaceInv
<1>1. WorkspaceIInv => WorkspaceInv
  BY DEF WorkspaceIInv, Guarded, WorkspaceInv
<1> QED
  BY <1>1, Invariance, PTL

-----------------------------------------------------------------------------
(* No switch goes unseen *)

(* While file dialogs are modal, the dialog in which the user agreed to a  *)
(* switch stays until the switch is over.                                  *)
DialogsOK ==
    /\ job.pc # "idle" => /\ app.modal.kind = "confirm" /\ app.modal.running
                          /\ app.modal.mode = job.mode
    /\ app.modal.running => app.modal.kind = "confirm" /\ ~app.asking
    /\ imp.by = "window" => job.pc = "idle"

LEMMA JobStepIs ==
    ASSUME WorkspaceIInv, JobChecks \/ JobCopies \/ JobMakesScripts \/ JobMarks \/ JobPoints
    PROVE  job'.mode = job.mode /\ job.pc # "idle" /\ app' = app /\ imp' = imp
<1>1. job \in Jobs
  BY DEF WorkspaceIInv, WorkspaceTypeOK
<1>2. \/ \E pc : JobGoes(pc)
      \/ job' = [job EXCEPT !.todo = Tail(@)]
  BY DEF JobChecks, JobCopies, JobMakesScripts, JobMarks, JobPoints, JobFails
<1>3. job'.mode = job.mode
  BY <1>1, <1>2 DEF JobGoes, Jobs
<1> QED
  BY <1>3 DEF JobChecks, JobCopies, JobMakesScripts, JobMarks, JobPoints, JobStep

LEMMA ImportStepIs ==
    ASSUME WorkspaceIInv, SetAside \/ WriteStore \/ Remove \/ PutBack \/ Applied
    PROVE  /\ app' = app /\ imp'.by = imp.by /\ imp'.place = imp.place
           /\ job'.pc = job.pc /\ job'.mode = job.mode /\ job'.root = job.root
           /\ job'.todo = job.todo
<1>1. job \in Jobs /\ imp \in Imports
  BY DEF WorkspaceIInv, WorkspaceTypeOK
<1>2. app' = app /\ (Touches \/ job' = job)
  BY DEF SetAside, WriteStore, Remove, PutBack, Applied, ImpStep, UndoFails
<1>3. imp'.by = imp.by /\ imp'.place = imp.place
  <2>1. CASE SetAside
    BY <1>1, <2>1 DEF SetAside, Imports
  <2>2. CASE WriteStore
    BY <1>1, <2>2 DEF WriteStore, Imports
  <2>3. CASE Remove
    BY <1>1, <2>3 DEF Remove, UndoFails, Imports
  <2>4. CASE PutBack
    BY <1>1, <2>4 DEF PutBack, UndoFails, Imports
  <2>5. CASE Applied
    BY <1>1, <2>5 DEF Applied, Imports
  <2> QED
    BY <2>1, <2>2, <2>3, <2>4, <2>5
<1> QED
  BY <1>1, <1>2, <1>3, TouchesIs

LEMMA InitDialogs == WorkspaceInit => DialogsOK
BY ClosedIs DEF WorkspaceInit, DialogsOK, NoJob, NoImport

LEMMA NextDialogs ==
    ASSUME ~LiveDialogs, WorkspaceIInv, DialogsOK, [WorkspaceNext]_workspaceVars
    PROVE  DialogsOK' /\ (app.up /\ app'.up /\ app'.ctx # app.ctx =>
              \/ app.modal.kind = "missing"
              \/ app.modal.kind = "confirm" /\ app.modal.running /\ app.modal.mode = job.mode)
<1> DEFINE Seen == app.up /\ app'.up /\ app'.ctx # app.ctx =>
                      \/ app.modal.kind = "missing"
                      \/ app.modal.kind = "confirm" /\ app.modal.running
                         /\ app.modal.mode = job.mode
<1>0. app \in Windows /\ app.modal \in Modals /\ job \in Jobs
  BY DEF WorkspaceIInv, WorkspaceTypeOK, Windows
<1>1. ASSUME app' = app, imp'.by = "window" => imp.by = "window",
             job'.pc # "idle" => job.pc # "idle" /\ job'.mode = job.mode
      PROVE  DialogsOK' /\ Seen
  BY <1>1 DEF DialogsOK
<1>2. ASSUME app'.ctx = app.ctx, ~app'.modal.running, job.pc = "idle", job' = job, imp' = imp
      PROVE  DialogsOK' /\ Seen
  BY <1>2 DEF DialogsOK
<1>3. CASE Start
  <2>1. ~app.up /\ job.pc = "idle" /\ imp.by # "window" /\ UNCHANGED <<job, imp>>
    BY <1>3 DEF Start, WorkspaceIInv, Guarded, WindowOK
  <2>2. app'.modal \in {Modal("missing"), Closed}
    BY <1>0, <1>3 DEF Start, Windows
  <2>3. ~app'.modal.running
    BY <2>2, ModalIs, ClosedIs
  <2> QED
    BY <2>1, <2>3 DEF DialogsOK
<1>4. ASSUME NEW i \in Slots, ClassifyPick(i) \/ RecoveryPickLands(i) \/ PickLands(i)
      PROVE  DialogsOK' /\ Seen
  <2>1. UNCHANGED <<job, imp>>
    BY <1>4 DEF ClassifyPick, RecoveryPickLands, PickLands, Landing
  <2>2. CASE app' = app
    BY <1>1, <2>1, <2>2
  <2>3. CASE app' # app
    <3>1. app.modal.kind \in {"missing", "settings"}
      BY <1>4, <2>3 DEF ClassifyPick, RecoveryPickLands, PickLands, PickMayOpen
    <3>2. job.pc = "idle" /\ ~app.modal.running
      BY <3>1 DEF DialogsOK
    <3>3. \E r, mode : \/ Show([app.modal EXCEPT !.root = r])
                       \/ Show(Confirm(mode, r))
      BY <1>4, <2>3 DEF ClassifyPick, RecoveryPickLands, PickLands
    <3>4. app'.ctx = app.ctx /\ ~app'.modal.running
      BY <1>0, <3>2, <3>3 DEF Show, Confirm, Windows, Modals
    <3> QED
      BY <1>2, <2>1, <3>2, <3>4
  <2> QED
    BY <2>2, <2>3
<1>5. CASE JobChecks \/ JobCopies \/ JobMakesScripts \/ JobMarks \/ JobPoints
  BY <1>1, <1>5, JobStepIs
<1>6. CASE JobLands
  <2>1. job' = NoJob /\ imp' = imp /\ job.pc # "idle"
    BY <1>6 DEF JobLands
  <2>2. Seen
    BY <2>1 DEF DialogsOK
  <2>3. ~app'.modal.running
    <3>1. job.pc = "ok" => \E place : ApplyContext(place)
      BY <1>6 DEF JobLands
    <3>2. job.pc # "ok" => Show([app.modal EXCEPT !.running = FALSE])
      BY <1>6, <2>1 DEF JobLands, DialogsOK
    <3> QED
      BY <1>0, <3>1, <3>2, ClosedIs DEF ApplyContext, Show, Windows, Modals
  <2>4. DialogsOK'
    BY <2>1, <2>3 DEF DialogsOK, NoJob
  <2> QED
    BY <2>2, <2>4
<1>7. CASE SetAside \/ WriteStore \/ Remove \/ PutBack \/ Applied
  BY <1>1, <1>7, ImportStepIs
<1>8. CASE ImportReturns
  <2>1. imp' = NoImport /\ job' = job
    BY <1>8 DEF ImportReturns
  <2>2. CASE app' = app
    BY <1>1, <2>1, <2>2 DEF NoImport
  <2>3. CASE app' # app
    <3>1. imp.by = "window" /\ ApplyContext(app.ctx)
      BY <1>8, <2>3 DEF ImportReturns
    <3>2. app'.ctx = app.ctx /\ ~app'.modal.running /\ job.pc = "idle"
      BY <1>0, <3>1, ClosedIs DEF ApplyContext, Windows, DialogsOK
    <3> QED
      BY <2>1, <3>2 DEF DialogsOK
  <2> QED
    BY <2>2, <2>3
<1>9. CASE OpenDialog \/ CloseDialog \/ CancelRecovery \/ StartLeave
  <2>1. ~app.modal.running /\ UNCHANGED <<job, imp>>
    BY <1>9 DEF OpenDialog, CloseDialog, CancelRecovery, StartLeave, DialogsOK
  <2>2. job.pc = "idle"
    BY <2>1 DEF DialogsOK
  <2>3. \E m : Show(m) /\ ~m.running
    <3>1. CASE OpenDialog \/ CancelRecovery
      <4>1. PICK kind \in {"settings", "other", "missing"} : Show(Modal(kind))
        BY <3>1 DEF OpenDialog, CancelRecovery
      <4>2. ~Modal(kind).running
        BY ModalIs
      <4> QED
        BY <4>1, <4>2
    <3>2. CASE CloseDialog
      BY <3>2, ClosedIs DEF CloseDialog
    <3>3. CASE StartLeave
      <4>1. ~Confirm("toprofile", Nil).running
        BY DEF Confirm
      <4> QED
        BY <3>3, <4>1 DEF StartLeave
    <3> QED
      BY <1>9, <3>1, <3>2, <3>3
  <2>4. app'.ctx = app.ctx /\ ~app'.modal.running
    BY <1>0, <2>3 DEF Show, Windows
  <2> QED
    BY <1>2, <2>1, <2>2, <2>4
<1>10. CASE StartPick \/ StartRecoveryPick \/ CliImport \/ CliCrash \/ Turn
  <2>1. app' = app /\ job' = job
    BY <1>10 DEF StartPick, StartRecoveryPick, CliImport, CliCrash, Turn
  <2>2. imp'.by = "window" => imp.by = "window"
    <3>1. CASE CliImport
      <4>1. used.asks < MaxAsks /\ Resolve \in Locations /\ Apply("cli", Resolve, used.asks + 1)
        BY <3>1, ResolveIs DEF CliImport, WorkspaceIInv
      <4>2. imp'.by = "cli"
        BY <4>1, ApplyImportIs DEF WorkspaceIInv
      <4> QED
        BY <4>2
    <3>2. CASE StartPick \/ StartRecoveryPick \/ CliCrash \/ Turn
      BY <3>2 DEF StartPick, StartRecoveryPick, CliCrash, Turn, NoImport
    <3> QED
      BY <1>10, <3>1, <3>2
  <2> QED
    BY <1>1, <2>1, <2>2
<1>11. CASE ConfirmRecovery \/ UseLocalProfile
  <2>1. app.modal.kind = "missing" /\ UNCHANGED <<job, imp>>
    BY <1>11 DEF ConfirmRecovery, UseLocalProfile
  <2>2. job.pc = "idle" /\ ~app.modal.running
    BY <2>1 DEF DialogsOK
  <2>3. app' = app \/ \E place : ApplyContext(place)
    BY <1>11 DEF ConfirmRecovery, UseLocalProfile
  <2>4. ~app'.modal.running
    BY <1>0, <2>2, <2>3, ClosedIs DEF ApplyContext, Windows
  <2>5. DialogsOK'
    BY <2>1, <2>2, <2>4 DEF DialogsOK
  <2> QED
    BY <2>1, <2>5
<1>12. CASE ConfirmWorkspace
  <2>1. /\ app.modal.kind = "confirm" /\ ~app.asking /\ imp' = imp /\ imp.by # "window"
        /\ app' = [app EXCEPT !.modal = [app.modal EXCEPT !.running = TRUE]]
        /\ job' = [NoJob EXCEPT !.pc = IF app.modal.mode = "init" THEN "check" ELSE "pointer",
                                !.mode = app.modal.mode, !.root = app.modal.root]
    BY <1>12 DEF ConfirmWorkspace, UserFree, UiFree, Show
  <2>2. job'.mode = app.modal.mode
    BY <2>1 DEF NoJob
  <2>3. /\ app'.ctx = app.ctx /\ ~app'.asking /\ app'.modal.kind = "confirm" /\ app'.modal.running
        /\ app'.modal.mode = app.modal.mode
    BY <1>0, <2>1 DEF Windows, Modals
  <2> QED
    BY <2>1, <2>2, <2>3 DEF DialogsOK
<1>13. CASE StartImport \/ ImportAsked \/ ImportDialogCancelled
  <2>1. UNCHANGED <<job, imp>>
    BY <1>13 DEF StartImport, ImportAsked, ImportDialogCancelled
  <2>2. ~app.modal.running
    BY <1>13 DEF StartImport, ImportAsked, ImportDialogCancelled, DialogsOK
  <2>3. job.pc = "idle"
    BY <2>2 DEF DialogsOK
  <2>4. app'.ctx = app.ctx /\ (app'.modal = app.modal \/ app'.modal = Modal("import"))
    BY <1>0, <1>13 DEF StartImport, ImportAsked, ImportDialogCancelled, Windows
  <2>5. ~app'.modal.running
    BY <2>2, <2>4, ModalIs
  <2> QED
    BY <1>2, <2>1, <2>3, <2>4, <2>5
<1>14. CASE ConfirmImport
  <2>1. app.modal.kind = "import" /\ app' = app /\ job' = job
    BY <1>14 DEF ConfirmImport
  <2> QED
    BY <2>1 DEF DialogsOK
<1>15. CASE Crash
  <2>1. /\ app' = [app EXCEPT !.up = FALSE, !.modal = Closed, !.asking = FALSE]
        /\ job' = NoJob
    BY <1>15 DEF Crash
  <2>2. ~app'.up /\ ~app'.modal.running
    BY <1>0, <2>1, ClosedIs DEF Windows
  <2> QED
    BY <2>1, <2>2 DEF DialogsOK, NoJob
<1>16. CASE UNCHANGED workspaceVars
  BY <1>1, <1>16 DEF workspaceVars
<1> QED
  BY <1>3, <1>4, <1>5, <1>6, <1>7, <1>8, <1>9, <1>10, <1>11, <1>12, <1>13, <1>14, <1>15, <1>16
     DEF WorkspaceNext, WorkspaceSystem, WorkspaceUser

(* While file dialogs are modal to the window, the context on the screen   *)
(* changes only under the dialog in which the user agreed to it, however   *)
(* picks, jobs and imports land.                                           *)
THEOREM SwitchesAreSeen ==
    ASSUME ~LiveDialogs
    PROVE  WorkspaceSpec => SwapIsSeen
<1> DEFINE Seen == app.up /\ app'.up /\ app'.ctx # app.ctx =>
                      \/ app.modal.kind = "missing"
                      \/ app.modal.kind = "confirm" /\ app.modal.running
                         /\ app.modal.mode = job.mode
<1>1. WorkspaceInit => DialogsOK
  BY InitDialogs
<1>2. WorkspaceIInv /\ DialogsOK /\ [WorkspaceNext]_workspaceVars => DialogsOK' /\ Seen
  BY NextDialogs
<1>3. WorkspaceIInv /\ DialogsOK /\ [WorkspaceNext]_workspaceVars => DialogsOK' /\ [Seen]_workspaceVars
  BY <1>2
<1> QED
  BY <1>1, <1>3, Invariance, PTL DEF WorkspaceSpec, SwapIsSeen

-----------------------------------------------------------------------------
(* A folder that is marked is whole *)

(* Path::exists() says "no" of a file that is there: it errs, or the       *)
(* folder was away for a moment.  The two promises about files below are   *)
(* for behaviours in which no probe does that, or not where it matters.    *)
MissesAFile ==
    \/ /\ imp.pc = "aside" /\ imp.todo # <<>>
       /\ files[imp.place][Head(imp.todo)] # Absent
       /\ imp' = [imp EXCEPT !.todo = Tail(@)]
    \/ /\ job.pc = "copy" /\ job.todo # <<>>
       /\ files[Profile][Head(job.todo)] # Absent
       /\ job' = [job EXCEPT !.todo = Tail(@)] /\ files' = files

(* What init_contents has copied so far. *)
CopyOK ==
    /\ job.pc \in {"scripts", "marker"} => job.todo = <<>>
    /\ job.pc \in {"copy", "scripts", "marker"} /\ ~job.touched =>
         \A s \in Names : files[job.root][s] = IF s \in Elems(job.todo) THEN Absent
                                               ELSE files[Profile][s]

(* An import does not touch the folder that is being filled: it has no     *)
(* marker yet, and imports go to places that have theirs.                  *)
LEMMA ApartFromCopy ==
    ASSUME WorkspaceIInv, job.pc \in {"copy", "scripts", "marker"}, imp.pc # "idle"
    PROVE  imp.place # job.root /\ job.root # Profile /\ job.root \in Roots
<1>1. job.root \in Roots
  BY DEF WorkspaceIInv, WorkspaceTypeOK, Jobs, Guarded, WindowOK, Rooted
<1> QED
  BY <1>1, WorkspaceAssumption DEF WorkspaceIInv, Guarded, MarksOK, Marked

LEMMA ImportFiles ==
    ASSUME WorkspaceIInv, SetAside \/ WriteStore \/ Remove \/ PutBack \/ Applied
    PROVE  /\ \A p \in Locations \ {imp.place} : files'[p] = files[p]
           /\ job' = job \/ (job' = [job EXCEPT !.touched = TRUE] /\ job.pc # "idle")
           /\ files' # files /\ imp.place = Profile /\ job.pc # "idle"
                => job' = [job EXCEPT !.touched = TRUE]
           /\ imp.pc # "idle" /\ folder' = folder
<1>1. files \in [Locations -> [Names -> Contents]]
  BY DEF WorkspaceIInv, WorkspaceTypeOK
<1>2. files' = files \/ (Touches /\ \E s, c : files' = [files EXCEPT ![imp.place][s] = c])
  <2>1. CASE SetAside
    BY <2>1 DEF SetAside
  <2>2. CASE WriteStore
    BY <2>2 DEF WriteStore
  <2>3. CASE Remove
    BY <2>3 DEF Remove, UndoFails
  <2>4. CASE PutBack
    BY <2>4 DEF PutBack, UndoFails
  <2>5. CASE Applied
    BY <2>5 DEF Applied, disk
  <2> QED
    BY <2>1, <2>2, <2>3, <2>4, <2>5
<1>3. Touches \/ job' = job
  BY DEF SetAside, WriteStore, Remove, PutBack, Applied, UndoFails
<1>4. imp.pc # "idle" /\ folder' = folder
  BY DEF SetAside, WriteStore, Remove, PutBack, Applied, ImpStep, disk
<1>5. \A p \in Locations \ {imp.place} : files'[p] = files[p]
  BY <1>1, <1>2
<1> QED
  BY <1>2, <1>3, <1>4, <1>5 DEF Touches

LEMMA NextCopy ==
    ASSUME WorkspaceIInv, CopyOK, [WorkspaceNext]_workspaceVars, ~MissesAFile
    PROVE  CopyOK'
<1>1. job \in Jobs /\ files \in [Locations -> [Names -> Contents]] /\ WorkspaceTypeOK
  BY DEF WorkspaceIInv, WorkspaceTypeOK
<1>2. ASSUME job'.pc \in {"copy", "scripts", "marker"} => job' = job /\ files' = files
      PROVE  CopyOK'
  BY <1>2 DEF CopyOK
<1>3. CASE JobChecks
  <2>1. PICK pc \in {"copy", "err"} : JobGoes(pc) /\ (pc = "copy" => Classify(job.root) = "empty")
    BY <1>3 DEF JobChecks
  <2>2. /\ job'.pc = pc /\ job'.root = job.root
        /\ pc = "copy" => job'.todo = Stores
    BY <1>1, <2>1, JobGoesIs
  <2>3. CASE pc = "copy"
    <3>1. job.root \in Roots
      BY <1>3 DEF JobChecks, JobStep, WorkspaceIInv, WorkspaceTypeOK, Jobs, Guarded, WindowOK, Rooted
    <3>2. files' = files /\ \A s \in Names : files[job.root][s] = Absent
      BY <1>1, <1>3, <2>1, <2>3, <3>1, ClassifyIs DEF JobChecks, disk
    <3>3. \A s \in Names : s \in Elems(Stores)
      BY ElemsAre, NamesAre DEF Stores
    <3> QED
      BY <2>2, <2>3, <3>2, <3>3 DEF CopyOK
  <2>4. CASE pc = "err"
    BY <1>2, <2>2, <2>4
  <2> QED
    BY <2>3, <2>4
<1>4. CASE JobCopies
  <2>1. job.pc = "copy" /\ job.todo # <<>> /\ job.root \in Roots /\ job.root # Profile
    BY <1>4, WorkspaceAssumption
       DEF JobCopies, JobStep, WorkspaceIInv, WorkspaceTypeOK, Jobs, Guarded, WindowOK, Rooted
  <2>2. CASE JobFails
    BY <1>1, <1>2, <2>2, JobGoesIs DEF JobFails
  <2>3. CASE ~JobFails
    <3>1. PICK s : s = Head(job.todo)
      OBVIOUS
    <3>2. PICK there \in BOOLEAN :
            /\ there => files[job.root][s] = Absent
            /\ files' = IF there THEN [files EXCEPT ![job.root][s] = files[Profile][s]] ELSE files
            /\ job' = [job EXCEPT !.todo = Tail(@)]
      BY <1>4, <2>3, <3>1 DEF JobCopies, Probe
    <3>3. /\ s \in Names /\ Tail(job.todo) \in Orders
          /\ Elems(job.todo) = Elems(Tail(job.todo)) \cup {s} /\ s \notin Elems(Tail(job.todo))
      BY <1>1, <2>1, <3>1, TailElems DEF Jobs
    <3>4. /\ job'.pc = "copy" /\ job'.root = job.root /\ job'.touched = job.touched
          /\ job'.todo = Tail(job.todo)
      BY <1>1, <2>1, <3>2 DEF Jobs
    <3>5. job.root \in Locations /\ Profile \in Locations
      BY <2>1 DEF Locations
    <3>6. CASE there
      <4>1. files' = [files EXCEPT ![job.root][s] = files[Profile][s]]
        BY <3>2, <3>6
      <4>2. files[Profile][s] \in Contents
        BY <1>1, <3>3, <3>5
      <4>3. /\ files'[Profile] = files[Profile] /\ files'[job.root][s] = files[Profile][s]
            /\ \A n \in Names : n # s => files'[job.root][n] = files[job.root][n]
        BY <1>1, <2>1, <3>3, <3>5, <4>1, <4>2, FilesTypes
      <4> QED
        BY <2>1, <3>3, <3>4, <4>3 DEF CopyOK
    <3>7. CASE ~there
      <4>1. files[Profile][s] = Absent
        BY <2>1, <3>1, <3>2, <3>7 DEF MissesAFile
      <4> QED
        BY <2>1, <3>2, <3>3, <3>4, <3>7, <4>1 DEF CopyOK
    <3> QED
      BY <3>6, <3>7
  <2> QED
    BY <2>2, <2>3
<1>5. CASE JobMakesScripts \/ JobMarks \/ JobPoints
  <2>1. PICK pc \in {"scripts", "marker", "pointer", "ok", "err"} :
          /\ JobGoes(pc) /\ files' = files
          /\ pc = "scripts" => job.pc = "copy" /\ job.todo = <<>>
          /\ pc = "marker" => job.pc = "scripts"
    BY <1>5 DEF JobMakesScripts, JobMarks, JobPoints, JobStep, JobFails, disk
  <2>2. /\ job'.pc = pc /\ job'.root = job.root /\ job'.touched = job.touched
        /\ job'.todo = <<>>
    BY <1>1, <2>1, JobGoesIs
  <2>3. CASE pc \in {"scripts", "marker"}
    <3>1. job.todo = <<>> /\ job.pc \in {"copy", "scripts"}
      BY <2>1, <2>3 DEF CopyOK
    <3> QED
      BY <2>1, <2>2, <2>3, <3>1 DEF CopyOK
  <2> QED
    BY <1>2, <2>1, <2>2, <2>3
<1>6. CASE SetAside \/ WriteStore \/ Remove \/ PutBack \/ Applied
  <2>1. CASE job' = job
    <3>1. CASE files' = files
      BY <1>2, <2>1, <3>1
    <3>2. CASE files' # files
      <4>1. CASE job.pc \in {"copy", "scripts", "marker"}
        <5>1. imp.pc # "idle"
          BY <1>6, ImportFiles
        <5>2. imp.place # job.root /\ job.root # Profile /\ job.root \in Roots
          BY <4>1, <5>1, ApartFromCopy
        <5>3. job.touched \/ imp.place # Profile
          BY <1>1, <1>6, <2>1, <3>2, <4>1, ImportFiles DEF Jobs
        <5>4. CASE job.touched
          BY <2>1, <5>4 DEF CopyOK
        <5>5. CASE imp.place # Profile
          <6>1. files'[job.root] = files[job.root] /\ files'[Profile] = files[Profile]
            BY <1>6, <5>2, <5>5, ImportFiles DEF Locations
          <6> QED
            BY <2>1, <6>1 DEF CopyOK
        <5> QED
          BY <5>3, <5>4, <5>5
      <4>2. CASE job.pc \notin {"copy", "scripts", "marker"}
        BY <1>2, <2>1, <4>2
      <4> QED
        BY <4>1, <4>2
    <3> QED
      BY <3>1, <3>2
  <2>2. CASE job' # job
    <3>1. job' = [job EXCEPT !.touched = TRUE]
      BY <1>6, <2>2, ImportFiles
    <3>2. job'.touched /\ job'.pc = job.pc /\ job'.todo = job.todo
      BY <1>1, <3>1 DEF Jobs
    <3> QED
      BY <3>2 DEF CopyOK
  <2> QED
    BY <2>1, <2>2
<1>7. CASE JobLands \/ ConfirmWorkspace \/ Crash
  <2>1. job'.pc \in {"idle", "check", "pointer"}
    <3>1. CASE ConfirmWorkspace
      BY <3>1 DEF ConfirmWorkspace, NoJob
    <3>2. CASE JobLands \/ Crash
      BY <3>2 DEF JobLands, Crash, NoJob
    <3> QED
      BY <1>7, <3>1, <3>2
  <2> QED
    BY <1>2, <2>1
<1>8. CASE Start \/ ImportReturns \/ OpenDialog \/ CloseDialog \/ StartPick \/ StartRecoveryPick
            \/ ConfirmRecovery \/ CancelRecovery \/ UseLocalProfile \/ StartLeave \/ StartImport
            \/ ImportAsked \/ ImportDialogCancelled \/ ConfirmImport \/ CliImport \/ CliCrash \/ Turn
  BY <1>2, <1>8 DEF disk, Start, ImportReturns, OpenDialog, CloseDialog, StartPick,
     StartRecoveryPick, ConfirmRecovery, CancelRecovery, UseLocalProfile, StartLeave, StartImport,
     ImportAsked, ImportDialogCancelled, ConfirmImport, CliImport, CliCrash, Turn
<1>9. ASSUME NEW i \in Slots, ClassifyPick(i) \/ RecoveryPickLands(i) \/ PickLands(i)
      PROVE  CopyOK'
  BY <1>2, <1>9 DEF disk, ClassifyPick, RecoveryPickLands, PickLands, Landing
<1>10. CASE UNCHANGED workspaceVars
  BY <1>2, <1>10 DEF workspaceVars
<1> QED
  BY <1>3, <1>4, <1>5, <1>6, <1>7, <1>8, <1>9, <1>10 DEF WorkspaceNext, WorkspaceSystem, WorkspaceUser

(* The step that writes the marker finds the copy complete. *)
MarksWhole ==
    \A r \in Roots : folder'[r].mark = "ok" /\ folder[r].mark # "ok"
        => job.touched \/ files[r] = files[Profile]

LEMMA MarkersAreLast ==
    ASSUME WorkspaceIInv, CopyOK, [WorkspaceNext]_workspaceVars
    PROVE  MarksWhole
<1>1. job \in Jobs /\ files \in [Locations -> [Names -> Contents]] /\ folder \in [Roots -> Folders]
  BY DEF WorkspaceIInv, WorkspaceTypeOK
<1>2. CASE JobMarks
  <2>1. job.pc = "marker"
    BY <1>2 DEF JobMarks, JobStep
  <2>2. ASSUME ~job.touched, job.root \in Roots PROVE files[job.root] = files[Profile]
    <3>1. \A s \in Names : files[job.root][s] = files[Profile][s]
      BY <2>1, <2>2, ElemsAre DEF CopyOK
    <3>2. files[job.root] \in [Names -> Contents] /\ files[Profile] \in [Names -> Contents]
      BY <1>1, <2>2 DEF Locations
    <3> QED
      BY <3>1, <3>2
  <2>3. \A r \in Roots \ {job.root} : folder'[r].mark = folder[r].mark
    BY <1>1, <1>2 DEF JobMarks, JobFails, disk, Folders
  <2> QED
    BY <2>2, <2>3 DEF MarksWhole
<1>3. CASE JobMakesScripts
  <2>1. \A r \in Roots : folder'[r].mark = folder[r].mark
    BY <1>1, <1>3 DEF JobMakesScripts, JobFails, disk, Folders
  <2> QED
    BY <2>1 DEF MarksWhole
<1>4. CASE Turn
  <2>1. \A r \in Roots : folder'[r].mark = folder[r].mark
    BY <1>1, <1>4 DEF Turn, Folders
  <2> QED
    BY <2>1 DEF MarksWhole
<1>5. ASSUME folder' = folder PROVE MarksWhole
  BY <1>5 DEF MarksWhole
<1>6. CASE SetAside \/ WriteStore \/ Remove \/ PutBack \/ Applied
  BY <1>5, <1>6, ImportFiles
<1>7. CASE JobChecks \/ JobCopies \/ JobPoints \/ JobLands
  BY <1>5, <1>7 DEF JobChecks, JobCopies, JobPoints, JobLands, JobFails, disk
<1>8. CASE Start \/ ImportReturns \/ OpenDialog \/ CloseDialog \/ StartPick \/ StartRecoveryPick
            \/ ConfirmRecovery \/ CancelRecovery \/ UseLocalProfile \/ StartLeave \/ StartImport
            \/ ImportAsked \/ ImportDialogCancelled \/ ConfirmImport \/ CliImport \/ CliCrash
            \/ ConfirmWorkspace \/ Crash
  BY <1>5, <1>8 DEF disk, Start, ImportReturns, OpenDialog, CloseDialog, StartPick,
     StartRecoveryPick, ConfirmRecovery, CancelRecovery, UseLocalProfile, StartLeave, StartImport,
     ImportAsked, ImportDialogCancelled, ConfirmImport, CliImport, CliCrash, ConfirmWorkspace, Crash
<1>9. ASSUME NEW i \in Slots, ClassifyPick(i) \/ RecoveryPickLands(i) \/ PickLands(i)
      PROVE  MarksWhole
  BY <1>5, <1>9 DEF disk, ClassifyPick, RecoveryPickLands, PickLands, Landing
<1>10. CASE UNCHANGED workspaceVars
  BY <1>5, <1>10 DEF workspaceVars
<1> QED
  BY <1>2, <1>3, <1>4, <1>6, <1>7, <1>8, <1>9, <1>10 DEF WorkspaceNext, WorkspaceSystem, WorkspaceUser

(* A folder that gets its marker holds a copy of everything the profile    *)
(* has, unless an import changed the profile meanwhile: for any crash, any *)
(* failure and any second process.                                         *)
THEOREM MarksAreWhole == WorkspaceSpec /\ [][~MissesAFile]_workspaceVars => MarkedIsWhole
<1>1. WorkspaceInit => CopyOK
  BY DEF WorkspaceInit, CopyOK, NoJob
<1>2. WorkspaceIInv /\ CopyOK /\ [WorkspaceNext]_workspaceVars /\ [~MissesAFile]_workspaceVars => CopyOK'
  <2>1. ASSUME CopyOK, UNCHANGED workspaceVars PROVE CopyOK'
    BY <2>1 DEF CopyOK, workspaceVars
  <2> QED
    BY <2>1, NextCopy
<1>3. WorkspaceIInv /\ CopyOK /\ [WorkspaceNext]_workspaceVars => [MarksWhole]_workspaceVars
  BY MarkersAreLast
<1> QED
  BY <1>1, <1>2, <1>3, Invariance, PTL DEF WorkspaceSpec, MarkedIsWhole, MarksWhole

-----------------------------------------------------------------------------
(* Imports keep what was in force *)

Active == imp.pc \in {"aside", "write", "undo"}
StoreHeld(s) == files[imp.place][s]
Kept(s) == [place |-> imp.place, store |-> s, stamp |-> imp.stamp, content |-> imp.before[s]]
Aside(s) == {a \in aside : <<a.place, a.store, a.stamp>> = <<imp.place, s, imp.stamp>>}

(* Where a store of the import's place is, while the import is at work:    *)
(* in its place, under its backup's name, or replaced.                     *)
Moved(s) ==
    s \in Elems(imp.moved) => imp.before[s] # Absent /\ Aside(s) = {Kept(s)}

SettingAside(s) ==
    /\ s \in Elems(imp.todo) => s \in Elems(imp.plan) /\ Aside(s) = {}
    /\ s \in Elems(imp.todo) \/ s \notin Elems(imp.plan) =>
          StoreHeld(s) = imp.before[s] /\ s \notin Elems(imp.moved)
    /\ s \in Elems(imp.plan) /\ s \notin Elems(imp.todo) =>
          StoreHeld(s) = Absent /\ (imp.before[s] # Absent => s \in Elems(imp.moved))

Writing(s) ==
    /\ s \in Elems(imp.todo) => s \in Elems(imp.plan) /\ StoreHeld(s) = Absent
    /\ s \in Elems(imp.plan) /\ imp.before[s] # Absent => s \in Elems(imp.moved)
    /\ s \in Elems(imp.plan) /\ s \notin Elems(imp.todo) =>
          StoreHeld(s) = imp.content /\ s \in Elems(imp.written)
    /\ s \notin Elems(imp.plan) =>
          StoreHeld(s) = imp.before[s] /\ s \notin Elems(imp.moved) /\ s \notin Elems(imp.written)

Undoing(s) ==
    /\ s \in Elems(imp.written) => StoreHeld(s) = imp.content
    /\ s \in Elems(imp.moved) /\ s \notin Elems(imp.written) => StoreHeld(s) \in {Absent, imp.content}
    /\ ~imp.spoiled =>
         /\ s \notin Elems(imp.written) =>
               StoreHeld(s) = IF s \in Elems(imp.moved) THEN Absent ELSE imp.before[s]
         /\ s \in Elems(imp.written) /\ s \notin Elems(imp.moved) => imp.before[s] = Absent

StoresOK ==
    \A s \in Names :
        /\ Active => Moved(s)
        /\ imp.pc = "aside" => SettingAside(s)
        /\ imp.pc = "write" => Writing(s)
        /\ imp.pc = "undo" => Undoing(s)

(* An import's backups and its content are nobody else's. *)
FreshOK ==
    /\ imp.pc \in {"aside", "write"} => ~imp.spoiled
    /\ Active => /\ imp.content # Absent /\ imp.content <= used.asks /\ imp.stamp <= used.stamp
                 /\ \A t \in ever : t.content # imp.content

BoundsOK ==
    /\ \A a \in aside : a.stamp <= used.stamp
    /\ ever \subseteq [place : Locations, store : Names, content : Contents \ {Absent}]
    /\ \A t \in ever : t.content <= used.asks \/ t.content > MaxAsks

SettingsInv == StoresOK /\ FreshOK /\ BoundsOK /\ ImportsKeepSettings

LEMMA KeepsBounds ==
    ASSUME WorkspaceTypeOK, BoundsOK, used'.asks \in 0 .. MaxAsks, used'.stamp \in 0 .. MaxAsks,
           used.asks <= used'.asks, used.stamp <= used'.stamp, ever' = ever,
           \A a \in aside' : a \in aside \/ a.stamp <= used'.stamp
    PROVE  BoundsOK'
<1>1. used.asks \in 0 .. MaxAsks /\ used.stamp \in 0 .. MaxAsks /\ MaxAsks \in Nat
  BY WorkspaceAssumption DEF WorkspaceTypeOK
<1>2. ASSUME NEW a \in aside' PROVE a.stamp <= used'.stamp
  <2>1. CASE a \in aside
    <3>1. a.stamp <= used.stamp /\ a.stamp \in 0 .. MaxAsks
      BY <2>1 DEF BoundsOK, WorkspaceTypeOK, Copies
    <3>2. PICK n \in 0 .. MaxAsks : n = a.stamp
      BY <3>1
    <3>3. n <= used.stamp
      BY <3>1, <3>2
    <3>4. n <= used'.stamp
      BY <1>1, <3>3
    <3> QED
      BY <3>2, <3>4
  <2> QED
    BY <1>2, <2>1
<1>3. ASSUME NEW t \in ever PROVE t.content <= used'.asks \/ t.content > MaxAsks
  <2>1. t.content \in Contents /\ (t.content <= used.asks \/ t.content > MaxAsks)
    BY DEF BoundsOK
  <2>2. PICK n \in Nat : n = t.content
    BY <1>1, <2>1 DEF Contents, Theirs
  <2>3. n <= used'.asks \/ n > MaxAsks
    BY <1>1, <2>1, <2>2
  <2> QED
    BY <2>2, <2>3
<1> QED
  BY <1>2, <1>3 DEF BoundsOK

LEMMA UsedGrows ==
    ASSUME WorkspaceIInv, [WorkspaceNext]_workspaceVars
    PROVE  /\ used'.asks \in 0 .. MaxAsks /\ used'.stamp \in 0 .. MaxAsks
           /\ used.asks <= used'.asks /\ used.stamp <= used'.stamp
<1> DEFINE Grows == used.asks <= used'.asks /\ used.stamp <= used'.stamp
<1>1. used'.asks \in 0 .. MaxAsks /\ used'.stamp \in 0 .. MaxAsks
  BY NextIInv DEF WorkspaceIInv, WorkspaceTypeOK
<1>2. used.asks \in 0 .. MaxAsks /\ used.stamp \in 0 .. MaxAsks /\ MaxAsks \in Nat /\ WorkspaceTypeOK
  BY WorkspaceAssumption DEF WorkspaceIInv, WorkspaceTypeOK
<1>3. ASSUME used' = used PROVE Grows
  BY <1>2, <1>3
<1>4. ASSUME StartPick \/ StartRecoveryPick \/ StartLeave
      PROVE  Grows
  <2>1. used'.asks = used.asks + 1 /\ used'.stamp = used.stamp
    BY <1>2, <1>4, AskIs DEF StartPick, StartRecoveryPick, StartLeave
  <2> QED
    BY <1>2, <2>1
<1>5. ASSUME Crash \/ CliCrash \/ Turn
      PROVE  Grows
  <2>1. used'.asks = used.asks /\ used'.stamp = used.stamp
    BY <1>2, <1>5, FaultIs DEF Crash, CliCrash, Turn
  <2> QED
    BY <1>2, <2>1
<1>6. ASSUME ConfirmImport \/ CliImport
      PROVE  Grows
  <2>1. PICK by, place : Apply(by, place, used.asks + 1)
    BY <1>6 DEF ConfirmImport, CliImport
  <2>2. PICK n : n = used.asks + 1
    OBVIOUS
  <2>3. PICK stamp \in {used.stamp, used.stamp + 1} : used' = [used EXCEPT !.stamp = stamp, !.asks = n]
    BY <2>1, <2>2 DEF Apply
  <2>4. used'.asks = n /\ used'.stamp = stamp
    BY <1>2, <2>3 DEF WorkspaceTypeOK
  <2> QED
    BY <1>2, <2>2, <2>4
<1>7. ASSUME WorkspaceSystem
      PROVE  Grows
  <2>1. used' = used
    BY <1>7 DEF WorkspaceSystem, Start, ClassifyPick, RecoveryPickLands, PickLands, Landing, JobChecks,
       JobCopies, JobMakesScripts, JobMarks, JobPoints, JobStep, JobLands, SetAside, WriteStore,
       Remove, PutBack, ImpStep, Applied, ImportReturns
  <2> QED
    BY <1>3, <2>1
<1>8. ASSUME OpenDialog \/ CloseDialog \/ ConfirmRecovery \/ CancelRecovery \/ UseLocalProfile
            \/ ConfirmWorkspace \/ StartImport \/ ImportAsked \/ ImportDialogCancelled
            \/ UNCHANGED workspaceVars
      PROVE  Grows
  BY <1>3, <1>8 DEF OpenDialog, CloseDialog, ConfirmRecovery, CancelRecovery, UseLocalProfile,
     ConfirmWorkspace, StartImport, ImportAsked, ImportDialogCancelled, workspaceVars
<1>9. Grows
  BY <1>4, <1>5, <1>6, <1>7, <1>8 DEF WorkspaceNext, WorkspaceUser
<1> QED
  BY <1>1, <1>9

(* Steps of others: the import's files, its backups and what was in force  *)
(* stay as they are, and nothing but an empty place is filled.             *)
LEMMA OthersKeepSettings ==
    ASSUME WorkspaceIInv, SettingsInv, [WorkspaceNext]_workspaceVars, UNCHANGED <<aside, ever>>,
           imp' = imp \/ imp'.pc = "idle",
           imp.pc # "idle" => files'[imp.place] = files[imp.place],
           \A p \in Locations, s \in Names : files'[p][s] = files[p][s] \/ files[p][s] = Absent
    PROVE  SettingsInv'
<1>1. BoundsOK'
  BY UsedGrows, KeepsBounds DEF SettingsInv, WorkspaceIInv
<1>2. OldSettingsSurvive'
  <2> SUFFICES ASSUME NEW t \in ever
               PROVE  \/ files'[t.place][t.store] = t.content
                      \/ \E a \in aside : <<a.place, a.store, a.content>>
                                            = <<t.place, t.store, t.content>>
    BY DEF OldSettingsSurvive
  <2>1. t.place \in Locations /\ t.store \in Names /\ t.content # Absent
    BY DEF SettingsInv, BoundsOK
  <2> QED
    BY <2>1 DEF SettingsInv, ImportsKeepSettings, OldSettingsSurvive
<1>3. CASE imp'.pc = "idle"
  BY <1>1, <1>2, <1>3
     DEF SettingsInv, StoresOK, Active, FreshOK, ImportsKeepSettings, ImportIsWhole
<1>4. CASE imp' = imp /\ imp.pc # "idle"
  <2>1. \A s : StoreHeld(s)' = StoreHeld(s)
    BY <1>4 DEF StoreHeld
  <2>2. \A s : Aside(s)' = Aside(s) /\ Kept(s)' = Kept(s)
    BY <1>4 DEF Aside, Kept
  <2>3. StoresOK'
    BY <1>4, <2>1, <2>2
       DEF SettingsInv, StoresOK, Active, Moved, SettingAside, Writing, Undoing
  <2>4. /\ imp.content <= used.asks => imp.content <= used'.asks
        /\ imp.stamp <= used.stamp => imp.stamp <= used'.stamp
    <3>1. /\ imp.content \in 0 .. MaxAsks /\ used.asks \in 0 .. MaxAsks /\ MaxAsks \in Nat
          /\ imp.stamp \in 0 .. MaxAsks /\ used.stamp \in 0 .. MaxAsks
      BY WorkspaceAssumption DEF WorkspaceIInv, WorkspaceTypeOK, Imports
    <3>2. /\ used'.asks \in 0 .. MaxAsks /\ used.asks <= used'.asks
          /\ used'.stamp \in 0 .. MaxAsks /\ used.stamp <= used'.stamp
      BY UsedGrows
    <3> QED
      BY <3>1, <3>2
  <2>5. FreshOK'
    BY <1>4, <2>4 DEF SettingsInv, FreshOK, Active
  <2>6. ImportIsWhole'
    BY <1>4 DEF SettingsInv, ImportsKeepSettings, ImportIsWhole
  <2> QED
    BY <1>1, <1>2, <2>3, <2>5, <2>6 DEF SettingsInv, ImportsKeepSettings
<1> QED
  BY <1>3, <1>4

(* What was in force survives a step that leaves, or sets aside, what it   *)
(* finds, and takes from what was set aside only what it puts back.        *)
LEMMA Survives ==
    ASSUME OldSettingsSurvive, ever' = ever,
           \A t \in ever : files[t.place][t.store] = t.content =>
              \/ files'[t.place][t.store] = t.content
              \/ \E a \in aside' : <<a.place, a.store, a.content>> = <<t.place, t.store, t.content>>,
           \A a \in aside : a \in aside' \/ files'[a.place][a.store] = a.content
    PROVE  OldSettingsSurvive'
BY DEF OldSettingsSurvive

(* A write over a content that was never in force. *)
LEMMA SurvivesWrite ==
    ASSUME WorkspaceIInv, SettingsInv, ever' = ever, aside' = aside,
           NEW s \in Names, NEW c, files' = [files EXCEPT ![imp.place][s] = c],
           \A t \in ever : t.content # files[imp.place][s]
    PROVE  OldSettingsSurvive'
<1>1. ASSUME NEW t \in ever, files[t.place][t.store] = t.content
      PROVE  files'[t.place][t.store] = t.content
  <2>1. <<t.place, t.store>> # <<imp.place, s>>
    BY <1>1
  <2>2. t.place \in Locations /\ t.store \in Names
    BY DEF SettingsInv, BoundsOK
  <2> QED
    BY <1>1, <2>1, <2>2, ImpFacts, FilesTypes
<1> QED
  BY <1>1, Survives DEF SettingsInv, ImportsKeepSettings

(* A step of the import that leaves it at work. *)
SameImport ==
    /\ imp'.place = imp.place /\ imp'.plan = imp.plan /\ imp'.content = imp.content
    /\ imp'.stamp = imp.stamp /\ imp'.before = imp.before

LEMMA OwnStep ==
    ASSUME WorkspaceIInv, SettingsInv, UNCHANGED <<used, ever>>, Active, Active', SameImport,
           imp'.pc \in {"aside", "write"} => ~imp'.spoiled,
           \A a \in aside' : a \in aside \/ a.stamp = imp.stamp,
           OldSettingsSurvive', StoresOK'
    PROVE  SettingsInv'
<1>1. BoundsOK'
  <2>1. imp.stamp <= used'.stamp
    BY DEF SettingsInv, FreshOK
  <2>2. /\ used'.asks \in 0 .. MaxAsks /\ used'.stamp \in 0 .. MaxAsks
        /\ used.asks <= used'.asks /\ used.stamp <= used'.stamp
    BY WorkspaceAssumption DEF WorkspaceIInv, WorkspaceTypeOK
  <2>3. \A a \in aside' : a \in aside \/ a.stamp <= used'.stamp
    BY <2>1
  <2> QED
    BY <2>2, <2>3, KeepsBounds DEF SettingsInv, WorkspaceIInv
<1>2. FreshOK'
  BY DEF SettingsInv, FreshOK, SameImport
<1>3. ImportIsWhole'
  BY DEF Active, ImportIsWhole
<1> QED
  BY <1>1, <1>2, <1>3 DEF SettingsInv, ImportsKeepSettings

LEMMA BeginKeepsSettings ==
    ASSUME WorkspaceIInv, SettingsInv, ~SameSecond, ConfirmImport \/ CliImport
    PROVE  SettingsInv'
<1>1. PICK by \in {"window", "cli"}, place \in Locations : Apply(by, place, used.asks + 1)
  <2>1. app.ctx \in Locations \/ app.ctx = Blocked
    BY DEF WorkspaceIInv, WorkspaceTypeOK, Windows
  <2>2. CASE ConfirmImport
    <3>1. app.ctx # Blocked
      BY <2>2 DEF ConfirmImport, UserFree, UiFree, WorkspaceIInv, Guarded, BlockedIsAsked
    <3> QED
      BY <2>1, <2>2, <3>1 DEF ConfirmImport
  <2>3. CASE CliImport
    BY <2>3, ResolveIs DEF CliImport, WorkspaceIInv
  <2> QED
    BY <2>2, <2>3
<1>2. PICK n : n = used.asks + 1
  OBVIOUS
<1>3. used.asks < MaxAsks /\ WorkspaceTypeOK /\ UNCHANGED <<files, aside, ever>>
  BY DEF ConfirmImport, CliImport, WorkspaceIInv, disk
<1>4. /\ imp'.pc = "aside" /\ imp'.place = place /\ imp'.todo = imp'.plan /\ imp'.moved = <<>>
      /\ imp'.content = n /\ imp'.before = files[place] /\ imp'.spoiled = FALSE
      /\ imp'.stamp = used.stamp + 1 /\ imp'.stamp = used'.stamp /\ used'.asks = n
      /\ imp' \in Imports
  BY <1>1, <1>2, <1>3, ApplyImportIs
<1>5. /\ used.asks \in 0 .. MaxAsks /\ used.stamp \in 0 .. MaxAsks /\ MaxAsks \in Nat
      /\ used'.asks \in 0 .. MaxAsks /\ used'.stamp \in 0 .. MaxAsks
      /\ used.asks <= used'.asks /\ used.stamp <= used'.stamp
  BY <1>3, UsedGrows, WorkspaceAssumption DEF WorkspaceTypeOK, WorkspaceNext, WorkspaceUser
<1>6. BoundsOK'
  BY <1>3, <1>5, KeepsBounds DEF SettingsInv
<1>7. OldSettingsSurvive'
  BY <1>3 DEF SettingsInv, ImportsKeepSettings, OldSettingsSurvive
<1>8. \A s : Aside(s)' = {}
  <2>1. ASSUME NEW a \in aside PROVE a.stamp # imp'.stamp
    <3>1. a.stamp <= used.stamp /\ a.stamp \in 0 .. MaxAsks
      BY <1>3 DEF SettingsInv, BoundsOK, WorkspaceTypeOK, Copies
    <3> QED
      BY <1>4, <1>5, <3>1
  <2> QED
    BY <1>3, <2>1 DEF Aside
<1>9. StoresOK'
  BY <1>3, <1>4, <1>8, ElemsAre DEF StoresOK, Active, Moved, SettingAside, StoreHeld
<1>10. n # Absent /\ n <= used'.asks /\ imp'.stamp <= used'.stamp
  BY <1>2, <1>4, <1>5 DEF Absent
<1>11. ASSUME NEW t \in ever PROVE t.content # n
  <2>1. t.content <= used.asks \/ t.content > MaxAsks
    BY DEF SettingsInv, BoundsOK
  <2>2. n <= MaxAsks /\ used.asks < n
    BY <1>2, <1>3, <1>5
  <2>3. t.content \in Nat
    BY <1>5 DEF SettingsInv, BoundsOK, Contents, Theirs
  <2> QED
    BY <1>2, <1>5, <2>1, <2>2, <2>3
<1>12. FreshOK'
  BY <1>3, <1>4, <1>10, <1>11 DEF FreshOK
<1>13. ImportIsWhole'
  BY <1>4 DEF ImportIsWhole
<1> QED
  BY <1>6, <1>7, <1>9, <1>12, <1>13 DEF SettingsInv, ImportsKeepSettings

LEMMA SetAsideKeepsSettings ==
    ASSUME WorkspaceIInv, SettingsInv, SetAside, ~MissesAFile
    PROVE  SettingsInv'
<1>1. imp.pc = "aside" /\ imp.todo # <<>> /\ UNCHANGED <<used, ever>>
  BY DEF SetAside, ImpStep
<1>2. PICK x : x = Head(imp.todo)
  OBVIOUS
<1>3. /\ x \in Names /\ Tail(imp.todo) \in Orders
      /\ Elems(imp.todo) = Elems(Tail(imp.todo)) \cup {x} /\ x \notin Elems(Tail(imp.todo))
  BY <1>1, <1>2, ImpFacts, TailElems
<1>4. /\ Elems(imp.written) = {} /\ Elems(imp.todo) \cap Elems(imp.moved) = {} /\ ~imp.spoiled
      /\ \A s \in Names : Moved(s) /\ SettingAside(s)
  BY <1>1, ElemsAre DEF WorkspaceIInv, Guarded, ListsOK, SettingsInv, StoresOK, FreshOK, Active
<1>5. Aside(x) = {} /\ StoreHeld(x) = imp.before[x] /\ x \notin Elems(imp.moved) /\ x \in Elems(imp.plan)
  BY <1>3, <1>4 DEF SettingAside
<1>6. OldSettingsSurvive
  BY DEF SettingsInv, ImportsKeepSettings
<1>7. CASE imp' = [imp EXCEPT !.todo = Tail(@)] /\ UNCHANGED <<files, aside, job>>
  <2>1. /\ imp'.pc = "aside" /\ SameImport /\ imp'.todo = Tail(imp.todo) /\ imp'.moved = imp.moved
        /\ imp'.spoiled = imp.spoiled
    BY <1>1, <1>7, ImpFacts DEF Imports, SameImport
  <2>2. StoreHeld(x) = Absent
    BY <1>1, <1>2, <1>7 DEF MissesAFile, StoreHeld
  <2>3. \A s : StoreHeld(s)' = StoreHeld(s) /\ Aside(s)' = Aside(s) /\ Kept(s)' = Kept(s)
    BY <1>7, <2>1 DEF StoreHeld, Aside, Kept, SameImport
  <2>4. StoresOK'
    BY <1>3, <1>4, <1>5, <2>1, <2>2, <2>3 DEF StoresOK, Moved, SettingAside, SameImport
  <2>5. OldSettingsSurvive'
    BY <1>1, <1>6, <1>7, Survives
  <2> QED
    BY <1>1, <1>4, <1>7, <2>1, <2>4, <2>5, OwnStep DEF Active
<1>8. CASE imp' = [imp EXCEPT !.pc = "undo"] /\ UNCHANGED <<files, aside, job>>
  <2>1. /\ imp'.pc = "undo" /\ SameImport /\ imp'.moved = imp.moved /\ imp'.written = imp.written
        /\ imp'.spoiled = imp.spoiled
    BY <1>1, <1>8, ImpFacts DEF Imports, SameImport
  <2>2. \A s : StoreHeld(s)' = StoreHeld(s) /\ Aside(s)' = Aside(s) /\ Kept(s)' = Kept(s)
    BY <1>8, <2>1 DEF StoreHeld, Aside, Kept, SameImport
  <2>3. StoresOK'
    <3> SUFFICES ASSUME NEW s \in Names PROVE Moved(s)' /\ Undoing(s)'
      BY <2>1 DEF StoresOK
    <3>1. Moved(s) /\ SettingAside(s)
      BY <1>4
    <3>2. Moved(s)'
      BY <2>1, <2>2, <3>1 DEF Moved, SameImport
    <3>3. s \notin Elems(imp.written)
      BY <1>4
    <3>4. StoreHeld(s) = IF s \in Elems(imp.moved) THEN Absent ELSE imp.before[s]
      BY <1>4, <3>1 DEF SettingAside
    <3>5. Undoing(s)'
      BY <2>1, <2>2, <3>3, <3>4 DEF Undoing, SameImport
    <3> QED
      BY <3>2, <3>5
  <2>4. OldSettingsSurvive'
    BY <1>1, <1>6, <1>8, Survives
  <2> QED
    BY <1>1, <1>8, <2>1, <2>3, <2>4, OwnStep DEF Active
<1>9. CASE /\ files[imp.place][x] # Absent
           /\ aside' = {a \in aside : <<a.place, a.store, a.stamp>> # <<imp.place, x, imp.stamp>>}
                       \cup {[place |-> imp.place, store |-> x, stamp |-> imp.stamp,
                              content |-> files[imp.place][x]]}
           /\ files' = [files EXCEPT ![imp.place][x] = Absent]
           /\ imp' = [imp EXCEPT !.todo = Tail(@), !.moved = Append(@, x)]
  <2>1. Append(imp.moved, x) \in Orders /\ Elems(Append(imp.moved, x)) = Elems(imp.moved) \cup {x}
    BY <1>3, <1>5, ImpFacts, AppendElems
  <2>2. /\ imp'.pc = "aside" /\ SameImport /\ imp'.todo = Tail(imp.todo)
        /\ imp'.moved = Append(imp.moved, x) /\ imp'.spoiled = imp.spoiled
    BY <1>1, <1>9, ImpFacts DEF Imports, SameImport
  <2>3. imp.before[x] # Absent /\ aside' = aside \cup {Kept(x)}
    BY <1>5, <1>9 DEF Aside, Kept, StoreHeld
  <2>4. /\ StoreHeld(x)' = Absent /\ Aside(x)' = {Kept(x)} /\ Kept(x)' = Kept(x)
        /\ \A s \in Names \ {x} : StoreHeld(s)' = StoreHeld(s) /\ Aside(s)' = Aside(s) /\ Kept(s)' = Kept(s)
    <3>1. StoreHeld(x)' = Absent /\ \A s \in Names \ {x} : StoreHeld(s)' = StoreHeld(s)
      BY <1>3, <1>9, <2>2, ImpFacts, FilesTypes DEF StoreHeld, SameImport
    <3>2. \A s : Kept(s)' = Kept(s)
      BY <2>2 DEF Kept, SameImport
    <3>3. \A s : s # x => Aside(s)' = Aside(s)
      BY <2>2, <2>3 DEF Aside, Kept, SameImport
    <3>4. Aside(x)' = {Kept(x)}
      BY <1>5, <2>2, <2>3 DEF Aside, Kept, SameImport
    <3> QED
      BY <3>1, <3>2, <3>3, <3>4
  <2>5. StoresOK'
    <3> SUFFICES ASSUME NEW s \in Names PROVE Moved(s)' /\ SettingAside(s)'
      BY <2>2 DEF StoresOK
    <3>1. Moved(s) /\ SettingAside(s)
      BY <1>4
    <3>2. CASE s = x
      BY <1>3, <1>5, <2>1, <2>2, <2>3, <2>4, <3>2 DEF Moved, SettingAside, SameImport
    <3>3. CASE s # x
      BY <1>3, <2>1, <2>2, <2>4, <3>1, <3>3 DEF Moved, SettingAside, SameImport
    <3> QED
      BY <3>2, <3>3
  <2>6. OldSettingsSurvive'
    <3>1. ASSUME NEW t \in ever, files[t.place][t.store] = t.content
          PROVE  \/ files'[t.place][t.store] = t.content
                 \/ \E a \in aside' : <<a.place, a.store, a.content>>
                                        = <<t.place, t.store, t.content>>
      <4>1. t.place \in Locations /\ t.store \in Names
        BY DEF SettingsInv, BoundsOK
      <4>2. CASE <<t.place, t.store>> = <<imp.place, x>>
        <5>1. t.place = imp.place /\ t.store = x
          BY <4>2
        <5>2. Kept(x) \in aside' /\ Kept(x).content = t.content
          BY <1>5, <2>3, <3>1, <5>1 DEF Kept, StoreHeld
        <5>3. Kept(x).place = t.place /\ Kept(x).store = t.store
          BY <5>1 DEF Kept
        <5> QED
          BY <5>2, <5>3
      <4>3. CASE <<t.place, t.store>> # <<imp.place, x>>
        BY <1>3, <1>9, <3>1, <4>1, <4>3, ImpFacts, FilesTypes
      <4> QED
        BY <4>2, <4>3
    <3>2. aside \subseteq aside'
      BY <2>3
    <3> QED
      BY <1>1, <1>6, <3>1, <3>2, Survives
  <2>7. \A a \in aside' : a \in aside \/ a.stamp = imp.stamp
    BY <2>3 DEF Kept
  <2> QED
    BY <1>1, <1>4, <2>2, <2>5, <2>6, <2>7, OwnStep DEF Active
<1> QED
  BY <1>2, <1>7, <1>8, <1>9 DEF SetAside, Probe

LEMMA WriteStoreKeepsSettings ==
    ASSUME WorkspaceIInv, SettingsInv, WriteStore
    PROVE  SettingsInv'
<1>1. UNCHANGED <<used, ever, aside>> /\ imp.pc \in {"aside", "write"}
  BY DEF WriteStore, ImpStep
<1>2. ~imp.spoiled /\ OldSettingsSurvive /\ \A s \in Names : Moved(s)
  BY <1>1 DEF SettingsInv, ImportsKeepSettings, StoresOK, FreshOK, Active
<1>3. \A s : SameImport => Aside(s)' = Aside(s) /\ Kept(s)' = Kept(s)
  BY <1>1 DEF Aside, Kept, SameImport
<1>4. CASE imp.pc = "aside"
  <2>1. /\ imp.todo = <<>> /\ UNCHANGED <<files, job>>
        /\ imp' = [imp EXCEPT !.pc = "write", !.todo = imp.plan]
    BY <1>4 DEF WriteStore, ImpStep
  <2>2. /\ imp'.pc = "write" /\ SameImport /\ imp'.todo = imp.plan /\ imp'.moved = imp.moved
        /\ imp'.written = imp.written /\ imp'.spoiled = imp.spoiled
    BY <2>1, ImpFacts DEF Imports, SameImport
  <2>3. \A s : StoreHeld(s)' = StoreHeld(s)
    BY <2>1, <2>2 DEF StoreHeld, SameImport
  <2>4. Elems(imp.todo) = {} /\ Elems(imp.written) = {}
    BY <1>4, <2>1, ElemsAre DEF WorkspaceIInv, Guarded, ListsOK
  <2>5. \A s \in Names : SettingAside(s)
    BY <1>4 DEF SettingsInv, StoresOK
  <2>6. StoresOK'
    <3> SUFFICES ASSUME NEW s \in Names PROVE Moved(s)' /\ Writing(s)'
      BY <2>2 DEF StoresOK
    <3>1. Moved(s)'
      BY <1>2, <1>3, <2>2 DEF Moved, SameImport
    <3>2. SettingAside(s)
      BY <2>5
    <3>3. Writing(s)'
      BY <2>2, <2>3, <2>4, <3>2 DEF Writing, SettingAside, SameImport
    <3> QED
      BY <3>1, <3>3
  <2>7. OldSettingsSurvive'
    BY <1>1, <1>2, <2>1, Survives
  <2> QED
    BY <1>1, <1>2, <1>4, <2>2, <2>6, <2>7, OwnStep DEF Active
<1>5. CASE imp.pc = "write" /\ imp' = [imp EXCEPT !.pc = "undo"]
  <2>1. files' = files
    BY <1>5, ImpFacts DEF WriteStore, ImpStep, Imports
  <2>2. /\ imp'.pc = "undo" /\ SameImport /\ imp'.moved = imp.moved /\ imp'.written = imp.written
        /\ imp'.spoiled = imp.spoiled
    BY <1>5, ImpFacts DEF Imports, SameImport
  <2>3. \A s : StoreHeld(s)' = StoreHeld(s)
    BY <2>1, <2>2 DEF StoreHeld, SameImport
  <2>4. Elems(imp.todo) \cap Elems(imp.written) = {} /\ \A s \in Names : Writing(s)
    BY <1>5 DEF WorkspaceIInv, Guarded, ListsOK, SettingsInv, StoresOK
  <2>5. StoresOK'
    <3> SUFFICES ASSUME NEW s \in Names PROVE Moved(s)' /\ Undoing(s)'
      BY <2>2 DEF StoresOK
    <3>1. Moved(s)'
      BY <1>2, <1>3, <2>2 DEF Moved, SameImport
    <3>2. Writing(s) /\ Moved(s)
      BY <1>2, <2>4
    <3>3. s \in Elems(imp.written) => StoreHeld(s) = imp.content
      BY <2>4, <3>2 DEF Writing
    <3>4. s \notin Elems(imp.written) =>
            StoreHeld(s) = IF s \in Elems(imp.moved) THEN Absent ELSE imp.before[s]
      BY <3>2 DEF Writing
    <3>5. s \in Elems(imp.written) /\ s \notin Elems(imp.moved) => imp.before[s] = Absent
      BY <3>2 DEF Writing
    <3>6. Undoing(s)'
      BY <2>2, <2>3, <3>3, <3>4, <3>5 DEF Undoing, SameImport
    <3> QED
      BY <3>1, <3>6
  <2>6. OldSettingsSurvive'
    BY <1>1, <1>2, <2>1, Survives
  <2> QED
    BY <1>1, <1>5, <2>2, <2>5, <2>6, OwnStep DEF Active
<1>6. CASE imp.pc = "write" /\ imp' # [imp EXCEPT !.pc = "undo"]
  <2>1. PICK x : x = Head(imp.todo)
    OBVIOUS
  <2>2. /\ imp.todo # <<>> /\ files' = [files EXCEPT ![imp.place][x] = imp.content]
        /\ imp' = [imp EXCEPT !.todo = Tail(@), !.written = Append(@, x)]
    BY <1>6, <2>1 DEF WriteStore, ImpStep
  <2>3. /\ x \in Names /\ Tail(imp.todo) \in Orders
        /\ Elems(imp.todo) = Elems(Tail(imp.todo)) \cup {x} /\ x \notin Elems(Tail(imp.todo))
    BY <2>1, <2>2, ImpFacts, TailElems
  <2>4. Elems(imp.todo) \cap Elems(imp.written) = {} /\ \A s \in Names : Writing(s)
    BY <1>6 DEF WorkspaceIInv, Guarded, ListsOK, SettingsInv, StoresOK
  <2>5. Elems(Append(imp.written, x)) = Elems(imp.written) \cup {x}
    BY <2>3, <2>4, ImpFacts, AppendElems
  <2>6. /\ imp'.pc = "write" /\ SameImport /\ imp'.todo = Tail(imp.todo) /\ imp'.moved = imp.moved
        /\ imp'.written = Append(imp.written, x) /\ imp'.spoiled = imp.spoiled
    BY <1>6, <2>2, ImpFacts DEF Imports, SameImport
  <2>7. StoreHeld(x)' = imp.content /\ \A s \in Names \ {x} : StoreHeld(s)' = StoreHeld(s)
    BY <2>2, <2>3, <2>6, ImpFacts, FilesTypes DEF StoreHeld, SameImport
  <2>8. StoreHeld(x) = Absent /\ x \in Elems(imp.plan)
    BY <2>3, <2>4 DEF Writing
  <2>9. StoresOK'
    <3> SUFFICES ASSUME NEW s \in Names PROVE Moved(s)' /\ Writing(s)'
      BY <2>6 DEF StoresOK
    <3>1. Moved(s)'
      BY <1>2, <1>3, <2>6 DEF Moved, SameImport
    <3>2. Writing(s)
      BY <2>4
    <3>3. CASE s = x
      BY <2>3, <2>5, <2>6, <2>7, <2>8, <3>1, <3>2, <3>3 DEF Writing, SameImport
    <3>4. CASE s # x
      BY <2>3, <2>5, <2>6, <2>7, <3>1, <3>2, <3>4 DEF Writing, SameImport
    <3> QED
      BY <3>3, <3>4
  <2>10. OldSettingsSurvive'
    <3>1. \A t \in ever : t.content # files[imp.place][x]
      BY <2>8 DEF StoreHeld, SettingsInv, BoundsOK
    <3> QED
      BY <1>1, <2>2, <2>3, <3>1, SurvivesWrite
  <2> QED
    BY <1>1, <1>2, <1>6, <2>6, <2>9, <2>10, OwnStep DEF Active
<1> QED
  BY <1>1, <1>4, <1>5, <1>6

LEMMA RemoveKeepsSettings ==
    ASSUME WorkspaceIInv, SettingsInv, Remove
    PROVE  SettingsInv'
<1>1. imp.pc = "undo" /\ imp.written # <<>> /\ UNCHANGED <<used, ever>>
  BY DEF Remove, ImpStep
<1>2. PICK x : x = Head(imp.written)
  OBVIOUS
<1>3. /\ x \in Names /\ Tail(imp.written) \in Orders
      /\ Elems(imp.written) = Elems(Tail(imp.written)) \cup {x}
      /\ x \notin Elems(Tail(imp.written))
  BY <1>1, <1>2, ImpFacts, TailElems
<1>4. OldSettingsSurvive /\ \A s \in Names : Moved(s) /\ Undoing(s)
  BY <1>1 DEF SettingsInv, ImportsKeepSettings, StoresOK, Active
<1>5. StoreHeld(x) = imp.content
  BY <1>3, <1>4 DEF Undoing
<1>6. PICK rest : rest = [imp EXCEPT !.written = Tail(@)]
  OBVIOUS
<1>7. /\ rest \in Imports /\ rest.pc = "undo" /\ rest.written = Tail(imp.written)
      /\ rest.moved = imp.moved /\ rest.spoiled = imp.spoiled /\ rest.place = imp.place
      /\ rest.plan = imp.plan /\ rest.content = imp.content /\ rest.stamp = imp.stamp
      /\ rest.before = imp.before
  BY <1>1, <1>3, <1>6, ImpFacts DEF Imports
<1>8. aside' = aside
  BY DEF Remove, UndoFails
<1>9. \A s : SameImport => Aside(s)' = Aside(s) /\ Kept(s)' = Kept(s)
  BY <1>8 DEF Aside, Kept, SameImport
<1>10. CASE UndoFails(rest)
  <2>1. imp' = [rest EXCEPT !.spoiled = TRUE] /\ files' = files
    BY <1>10 DEF UndoFails
  <2>2. /\ imp'.pc = "undo" /\ SameImport /\ imp'.written = Tail(imp.written)
        /\ imp'.moved = imp.moved /\ imp'.spoiled
    BY <1>7, <2>1 DEF Imports, SameImport
  <2>3. \A s : StoreHeld(s)' = StoreHeld(s)
    BY <2>1, <2>2 DEF StoreHeld, SameImport
  <2>4. StoresOK'
    <3> SUFFICES ASSUME NEW s \in Names PROVE Moved(s)' /\ Undoing(s)'
      BY <2>2 DEF StoresOK
    <3>1. Moved(s) /\ Undoing(s)
      BY <1>4
    <3>2. Moved(s)'
      BY <1>9, <2>2, <3>1 DEF Moved, SameImport
    <3>3. Undoing(s)'
      BY <1>3, <1>5, <2>2, <2>3, <3>1 DEF Undoing, SameImport
    <3> QED
      BY <3>2, <3>3
  <2>5. OldSettingsSurvive'
    BY <1>1, <1>4, <1>8, <2>1, Survives
  <2> QED
    BY <1>1, <1>8, <2>2, <2>4, <2>5, OwnStep DEF Active
<1>11. CASE ~UndoFails(rest)
  <2>1. files' = [files EXCEPT ![imp.place][x] = Absent] /\ imp' = rest
    BY <1>2, <1>6, <1>11 DEF Remove
  <2>2. imp'.pc = "undo" /\ SameImport
    BY <1>7, <2>1 DEF SameImport
  <2>3. StoreHeld(x)' = Absent /\ \A s \in Names \ {x} : StoreHeld(s)' = StoreHeld(s)
    BY <1>3, <2>1, <2>2, ImpFacts, FilesTypes DEF StoreHeld, SameImport
  <2>4. StoresOK'
    <3> SUFFICES ASSUME NEW s \in Names PROVE Moved(s)' /\ Undoing(s)'
      BY <2>2 DEF StoresOK
    <3>1. Moved(s) /\ Undoing(s)
      BY <1>4
    <3>2. Moved(s)'
      BY <1>7, <1>9, <2>1, <2>2, <3>1 DEF Moved, SameImport
    <3>3. CASE s = x
      BY <1>3, <1>7, <2>1, <2>3, <3>1, <3>2, <3>3 DEF Undoing
    <3>4. CASE s # x
      BY <1>3, <1>7, <2>1, <2>3, <3>1, <3>2, <3>4 DEF Undoing
    <3> QED
      BY <3>3, <3>4
  <2>5. OldSettingsSurvive'
    <3>1. \A t \in ever : t.content # files[imp.place][x]
      BY <1>1, <1>5 DEF StoreHeld, SettingsInv, FreshOK, Active
    <3> QED
      BY <1>1, <1>3, <1>8, <2>1, <3>1, SurvivesWrite
  <2> QED
    BY <1>1, <1>8, <2>2, <2>4, <2>5, OwnStep DEF Active
<1> QED
  BY <1>10, <1>11

LEMMA PutBackKeepsSettings ==
    ASSUME WorkspaceIInv, SettingsInv, PutBack
    PROVE  SettingsInv'
<1>1. imp.pc = "undo" /\ imp.written = <<>> /\ imp.moved # <<>> /\ UNCHANGED <<used, ever>>
  BY DEF PutBack, ImpStep
<1>2. PICK x : x = Head(imp.moved)
  OBVIOUS
<1>3. /\ x \in Names /\ Tail(imp.moved) \in Orders
      /\ Elems(imp.moved) = Elems(Tail(imp.moved)) \cup {x} /\ x \notin Elems(Tail(imp.moved))
      /\ Elems(imp.written) = {}
  BY <1>1, <1>2, ImpFacts, TailElems, ElemsAre
<1>4. OldSettingsSurvive /\ \A s \in Names : Moved(s) /\ Undoing(s)
  BY <1>1 DEF SettingsInv, ImportsKeepSettings, StoresOK, Active
<1>5. /\ StoreHeld(x) \in {Absent, imp.content} /\ Aside(x) = {Kept(x)} /\ imp.before[x] # Absent
      /\ ~imp.spoiled => StoreHeld(x) = Absent
  BY <1>3, <1>4 DEF Undoing, Moved
<1>6. PICK rest : rest = [imp EXCEPT !.moved = Tail(@)]
  OBVIOUS
<1>7. /\ rest \in Imports /\ rest.pc = "undo" /\ rest.moved = Tail(imp.moved)
      /\ rest.written = imp.written /\ rest.spoiled = imp.spoiled /\ rest.place = imp.place
      /\ rest.plan = imp.plan /\ rest.content = imp.content /\ rest.stamp = imp.stamp
      /\ rest.before = imp.before
  BY <1>1, <1>3, <1>6, ImpFacts DEF Imports
<1>8. CASE UndoFails(rest)
  <2>1. imp' = [rest EXCEPT !.spoiled = TRUE] /\ files' = files /\ aside' = aside
    BY <1>8 DEF UndoFails
  <2>2. /\ imp'.pc = "undo" /\ SameImport /\ imp'.written = imp.written
        /\ imp'.moved = Tail(imp.moved) /\ imp'.spoiled
    BY <1>7, <2>1 DEF Imports, SameImport
  <2>3. \A s : StoreHeld(s)' = StoreHeld(s) /\ Aside(s)' = Aside(s) /\ Kept(s)' = Kept(s)
    BY <2>1, <2>2 DEF StoreHeld, Aside, Kept, SameImport
  <2>4. StoresOK'
    <3> SUFFICES ASSUME NEW s \in Names PROVE Moved(s)' /\ Undoing(s)'
      BY <2>2 DEF StoresOK
    <3>1. Moved(s) /\ Undoing(s)
      BY <1>4
    <3>2. Moved(s)'
      BY <1>3, <2>2, <2>3, <3>1 DEF Moved, SameImport
    <3>3. Undoing(s)'
      BY <1>3, <2>2, <2>3, <3>1 DEF Undoing, SameImport
    <3> QED
      BY <3>2, <3>3
  <2>5. OldSettingsSurvive'
    BY <1>1, <1>4, <2>1, Survives
  <2> QED
    BY <1>1, <2>1, <2>2, <2>4, <2>5, OwnStep DEF Active
<1>9. CASE ~UndoFails(rest)
  <2>1. imp' = rest
    BY <1>6, <1>9 DEF PutBack
  <2>2. PICK a \in aside :
          /\ <<a.place, a.store, a.stamp>> = <<imp.place, x, imp.stamp>>
          /\ files' = [files EXCEPT ![imp.place][x] = a.content]
          /\ aside' = aside \ {a}
    BY <1>2, <1>6, <1>9 DEF PutBack
  <2>3. a = Kept(x)
    BY <1>5, <2>2 DEF Aside
  <2>4. /\ a.content = imp.before[x] /\ a.place = imp.place /\ a.store = x
    BY <2>3 DEF Kept
  <2>5. imp'.pc = "undo" /\ SameImport
    BY <1>7, <2>1 DEF SameImport
  <2>6. StoreHeld(x)' = imp.before[x] /\ \A s \in Names \ {x} : StoreHeld(s)' = StoreHeld(s)
    BY <1>3, <2>2, <2>4, <2>5, ImpFacts, FilesTypes DEF StoreHeld, SameImport
  <2>7. \A s : s # x => Aside(s)' = Aside(s) /\ Kept(s)' = Kept(s)
    BY <2>2, <2>4, <2>5 DEF Aside, Kept, SameImport
  <2>8. StoresOK'
    <3> SUFFICES ASSUME NEW s \in Names PROVE Moved(s)' /\ Undoing(s)'
      BY <2>5 DEF StoresOK
    <3>1. Moved(s) /\ Undoing(s)
      BY <1>4
    <3>2. CASE s = x
      BY <1>3, <1>7, <2>1, <2>6, <3>2 DEF Moved, Undoing
    <3>3. CASE s # x
      BY <1>3, <1>7, <2>1, <2>6, <2>7, <3>1, <3>3 DEF Moved, Undoing
    <3> QED
      BY <3>2, <3>3
  <2>9. OldSettingsSurvive'
    <3>1. ASSUME NEW t \in ever, files[t.place][t.store] = t.content
          PROVE  files'[t.place][t.store] = t.content
      <4>1. t.place \in Locations /\ t.store \in Names /\ t.content # Absent /\ t.content # imp.content
        BY <1>1 DEF SettingsInv, BoundsOK, FreshOK, Active
      <4>2. <<t.place, t.store>> # <<imp.place, x>>
        BY <1>5, <3>1, <4>1 DEF StoreHeld
      <4> QED
        BY <1>3, <2>2, <3>1, <4>1, <4>2, ImpFacts, FilesTypes
    <3>2. ASSUME NEW b \in aside
          PROVE  b \in aside' \/ files'[b.place][b.store] = b.content
      <4>1. CASE b = a
        BY <2>4, <2>5, <2>6, <4>1 DEF StoreHeld, SameImport
      <4>2. CASE b # a
        BY <2>2, <4>2
      <4> QED
        BY <4>1, <4>2
    <3> QED
      BY <1>1, <1>4, <3>1, <3>2, Survives
  <2>10. \A b \in aside' : b \in aside
    BY <2>2
  <2> QED
    BY <1>1, <2>5, <2>8, <2>9, <2>10, OwnStep DEF Active
<1> QED
  BY <1>8, <1>9

LEMMA OrderHolds ==
    ASSUME NEW q \in Orders
    PROVE  Elems(q) \subseteq Names
<1>1. CASE q = <<>>
  BY <1>1, ElemsAre
<1>2. CASE q # <<>>
  <2>1. Tail(q) \in Orders /\ Elems(q) = Elems(Tail(q)) \cup {Head(q)} /\ Head(q) \in Names
    BY <1>2, TailElems
  <2>2. Tail(q) = <<>> \/ Elems(Tail(q)) \subseteq Names
    BY NamesAre, ElemsAre, <2>1 DEF Orders, Stores
  <2> QED
    BY <2>1, <2>2, ElemsAre
<1> QED
  BY <1>1, <1>2

LEMMA AppliedKeepsSettings ==
    ASSUME WorkspaceIInv, SettingsInv, Applied
    PROVE  SettingsInv'
<1>1. UNCHANGED <<files, aside, used>> /\ imp \in Imports
  BY ImpFacts DEF Applied, disk
<1>2. files[imp.place] \in [Names -> Contents] /\ imp.before \in [Names -> Contents]
  BY ImpFacts DEF Imports
<1>3. CASE imp.pc = "write"
  <2>1. /\ imp.todo = <<>> /\ imp' = [imp EXCEPT !.pc = "ok"]
        /\ ever' = ever \cup {[place |-> imp.place, store |-> imp.plan[i], content |-> imp.content]
                                : i \in DOMAIN imp.plan}
    BY <1>3 DEF Applied
  <2>2. imp'.pc = "ok" /\ SameImport
    BY <1>1, <2>1 DEF Imports, SameImport
  <2>3. ever' = ever \cup [place : {imp.place}, store : Elems(imp.plan), content : {imp.content}]
    BY <2>1 DEF Elems
  <2>4. \A s \in Names : Writing(s)
    BY <1>3 DEF SettingsInv, StoresOK
  <2>5. \A s \in Names : StoreHeld(s) = IF s \in Elems(imp.plan) THEN imp.content ELSE imp.before[s]
    BY <2>1, <2>4, ElemsAre DEF Writing
  <2>6. ImportIsWhole'
    <3>1. files[imp.place] = [s \in Names |-> IF s \in Elems(imp.plan) THEN imp.content
                                              ELSE imp.before[s]]
      BY <1>2, <2>5 DEF StoreHeld
    <3> QED
      BY <1>1, <2>2, <3>1 DEF ImportIsWhole, Elems, SameImport
  <2>7. Elems(imp.plan) \subseteq Names /\ imp.content \in Contents /\ imp.place \in Locations
    BY ImpFacts, OrderHolds
  <2>8. OldSettingsSurvive'
    <3> SUFFICES ASSUME NEW t \in ever'
                 PROVE  \/ files[t.place][t.store] = t.content
                        \/ \E a \in aside : <<a.place, a.store, a.content>>
                                              = <<t.place, t.store, t.content>>
      BY <1>1 DEF OldSettingsSurvive
    <3>1. CASE t \in ever
      BY <3>1 DEF SettingsInv, ImportsKeepSettings, OldSettingsSurvive
    <3>2. CASE t \notin ever
      <4>1. t.place = imp.place /\ t.store \in Elems(imp.plan) /\ t.content = imp.content
        BY <2>3, <3>2
      <4> QED
        BY <2>5, <2>7, <4>1 DEF StoreHeld
    <3> QED
      BY <3>1, <3>2
  <2>9. imp.content # Absent /\ imp.content <= used.asks
    BY <1>3 DEF SettingsInv, FreshOK, Active
  <2>10. BoundsOK'
    <3>1. ever' \subseteq [place : Locations, store : Names, content : Contents \ {Absent}]
      BY <2>3, <2>7, <2>9 DEF SettingsInv, BoundsOK
    <3>2. ASSUME NEW t \in ever' PROVE t.content <= used.asks \/ t.content > MaxAsks
      BY <2>3, <2>9 DEF SettingsInv, BoundsOK
    <3> QED
      BY <1>1, <3>1, <3>2 DEF SettingsInv, BoundsOK
  <2>11. StoresOK' /\ FreshOK'
    BY <2>2 DEF StoresOK, FreshOK, Active
  <2> QED
    BY <2>6, <2>8, <2>10, <2>11 DEF SettingsInv, ImportsKeepSettings
<1>4. CASE imp.pc # "write"
  <2>1. /\ imp.pc = "undo" /\ imp.written = <<>> /\ imp.moved = <<>>
        /\ imp' = [imp EXCEPT !.pc = "err"] /\ ever' = ever
    BY <1>4 DEF Applied
  <2>2. imp'.pc = "err" /\ SameImport /\ imp'.spoiled = imp.spoiled
    BY <1>1, <2>1 DEF Imports, SameImport
  <2>3. \A s \in Names : Undoing(s)
    BY <2>1 DEF SettingsInv, StoresOK
  <2>4. ImportIsWhole'
    <3>1. ASSUME ~imp.spoiled PROVE files[imp.place] = imp.before
      <4>1. \A s \in Names : files[imp.place][s] = imp.before[s]
        BY <2>1, <2>3, <3>1, ElemsAre DEF Undoing, StoreHeld
      <4> QED
        BY <1>2, <4>1
    <3> QED
      BY <1>1, <2>2, <3>1 DEF ImportIsWhole, SameImport
  <2>5. StoresOK' /\ FreshOK'
    BY <2>2 DEF StoresOK, FreshOK, Active
  <2>6. BoundsOK' /\ OldSettingsSurvive'
    BY <1>1, <2>1 DEF SettingsInv, BoundsOK, ImportsKeepSettings, OldSettingsSurvive
  <2> QED
    BY <2>4, <2>5, <2>6 DEF SettingsInv, ImportsKeepSettings
<1> QED
  BY <1>3, <1>4

LEMMA NextSettings ==
    ASSUME WorkspaceIInv, SettingsInv, ~SameSecond, ~MissesAFile, [WorkspaceNext]_workspaceVars
    PROVE  SettingsInv'
<1>1. ASSUME UNCHANGED <<files, aside, ever>>, imp' = imp \/ imp'.pc = "idle"
      PROVE  SettingsInv'
  BY <1>1, OthersKeepSettings
<1>2. CASE ConfirmImport \/ CliImport
  BY <1>2, BeginKeepsSettings
<1>3. CASE SetAside
  BY <1>3, SetAsideKeepsSettings
<1>4. CASE WriteStore
  BY <1>4, WriteStoreKeepsSettings
<1>5. CASE Remove
  BY <1>5, RemoveKeepsSettings
<1>6. CASE PutBack
  BY <1>6, PutBackKeepsSettings
<1>7. CASE Applied
  BY <1>7, AppliedKeepsSettings
<1>8. CASE JobCopies
  <2>1. UNCHANGED <<aside, ever, imp>> /\ job.pc = "copy"
    BY <1>8 DEF JobCopies, JobStep, JobFails, disk
  <2>2. \/ files' = files
        \/ /\ files[job.root][Head(job.todo)] = Absent
           /\ files' = [files EXCEPT ![job.root][Head(job.todo)] =
                          files[Profile][Head(job.todo)]]
    BY <1>8 DEF JobCopies, JobFails, disk
  <2>3. imp.pc # "idle" => files'[imp.place] = files[imp.place]
    BY <2>1, <2>2, ApartFromCopy, ImpFacts
  <2>4. \A p \in Locations, s \in Names : files'[p][s] = files[p][s] \/ files[p][s] = Absent
    BY <2>2, ImpFacts
  <2> QED
    BY <2>1, <2>3, <2>4, OthersKeepSettings
<1>9. CASE JobChecks \/ JobMakesScripts \/ JobMarks \/ JobPoints \/ JobLands
  <2>1. UNCHANGED <<files, aside, ever, imp>>
    BY <1>9 DEF JobChecks, JobMakesScripts, JobMarks, JobPoints, JobLands, JobStep, JobFails, disk
  <2> QED
    BY <1>1, <2>1
<1>10. CASE ImportReturns \/ Crash \/ CliCrash
  <2>1. UNCHANGED <<files, aside, ever>> /\ (imp' = imp \/ imp' = NoImport)
    BY <1>10 DEF ImportReturns, Crash, CliCrash, disk
  <2>2. NoImport.pc = "idle"
    BY DEF NoImport
  <2> QED
    BY <1>1, <2>1, <2>2
<1>11. CASE Start \/ OpenDialog \/ CloseDialog \/ StartPick \/ StartRecoveryPick
             \/ ConfirmRecovery \/ CancelRecovery \/ UseLocalProfile \/ StartLeave \/ StartImport
             \/ ImportAsked \/ ImportDialogCancelled \/ ConfirmWorkspace \/ Turn
  <2>1. UNCHANGED <<files, aside, ever, imp>>
    BY <1>11 DEF disk, Start, OpenDialog, CloseDialog, StartPick, StartRecoveryPick,
       ConfirmRecovery, CancelRecovery, UseLocalProfile, StartLeave, StartImport, ImportAsked,
       ImportDialogCancelled, ConfirmWorkspace, Turn
  <2> QED
    BY <1>1, <2>1
<1>12. ASSUME NEW i \in Slots, ClassifyPick(i) \/ RecoveryPickLands(i) \/ PickLands(i)
       PROVE  SettingsInv'
  <2>1. UNCHANGED <<files, aside, ever, imp>>
    BY <1>12 DEF disk, ClassifyPick, RecoveryPickLands, PickLands, Landing
  <2> QED
    BY <1>1, <2>1
<1>13. CASE UNCHANGED workspaceVars
  BY <1>1, <1>13 DEF workspaceVars
<1> QED
  BY <1>2, <1>3, <1>4, <1>5, <1>6, <1>7, <1>8, <1>9, <1>10, <1>11, <1>12, <1>13
     DEF WorkspaceNext, WorkspaceSystem, WorkspaceUser

LEMMA InitSettings == WorkspaceInit => SettingsInv
<1> SUFFICES ASSUME WorkspaceInit PROVE SettingsInv
  OBVIOUS
<1>1. imp.pc = "idle" /\ aside = {}
  BY DEF WorkspaceInit, NoImport
<1>2. ever = {t \in [place : Locations, store : Names, content : {Own, Theirs}] :
                 files[t.place][t.store] = t.content}
  BY DEF WorkspaceInit
<1>3. Own > MaxAsks /\ Theirs > MaxAsks /\ Own # Absent /\ Theirs # Absent
  BY WorkspaceAssumption DEF Own, Theirs, Absent
<1>4. BoundsOK
  BY <1>1, <1>2, <1>3, Constants DEF BoundsOK
<1>5. StoresOK /\ FreshOK /\ ImportIsWhole
  BY <1>1 DEF StoresOK, FreshOK, Active, ImportIsWhole
<1>6. OldSettingsSurvive
  BY <1>2 DEF OldSettingsSurvive
<1> QED
  BY <1>4, <1>5, <1>6 DEF SettingsInv, ImportsKeepSettings

(* Imports lose nothing: whatever was once in force is in its place or set *)
(* aside, after any failures, crashes and repetitions; an import that says *)
(* yes is in force with all it has, one that says no has left no trace,    *)
(* unless its rollback failed too.  As long as no two imports fall in one  *)
(* second, and Path::exists() misses no file that is there.                *)
THEOREM SettingsAreKept ==
    ASSUME ~SameSecond
    PROVE  WorkspaceSpec /\ [][~MissesAFile]_workspaceVars => []ImportsKeepSettings
<1>1. WorkspaceIInv /\ SettingsInv /\ [WorkspaceNext]_workspaceVars /\ [~MissesAFile]_workspaceVars => SettingsInv'
  <2>1. ASSUME WorkspaceIInv, SettingsInv, UNCHANGED workspaceVars PROVE SettingsInv'
    BY <2>1, OthersKeepSettings DEF workspaceVars
  <2> QED
    BY <2>1, NextSettings
<1>2. SettingsInv => ImportsKeepSettings
  BY DEF SettingsInv
<1> QED
  BY <1>1, <1>2, InitSettings, Invariance, PTL DEF WorkspaceSpec
=============================================================================
