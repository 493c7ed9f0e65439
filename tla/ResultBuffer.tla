---------------------------- MODULE ResultBuffer ----------------------------
(***************************************************************************)
(* dbc-buffer: the columnar store of a query's rows, as operators on a     *)
(* buffer record.  Batches that fit stay in memory, the others go to a     *)
(* file each in a temporary directory; offsets[i] is the number of rows    *)
(* before slot i; reads of files go through a cache of one slot.           *)
(*                                                                         *)
(* A row is its position in the server's stream (1, 2, ...), a batch a     *)
(* sequence of rows.  The two caps (rows and bytes) are one: the length of *)
(* a batch stands for its weight in either.  A file is whole or torn (by a *)
(* write that failed half way); nobody else touches the directory.         *)
(***************************************************************************)
EXTENDS Integers, Sequences, FiniteSets

CONSTANT CapRows   \* what may stay in memory

ASSUME ResultBufferAssumption == CapRows \in Nat

Torn == [whole |-> FALSE, batch |-> <<>>]
Whole(batch) == [whole |-> TRUE, batch |-> batch]

Mem(batch) == [mem |-> TRUE, batch |-> batch, file |-> 0]
Spilled(ix) == [mem |-> FALSE, batch |-> <<>>, file |-> ix]

NoCache == [slot |-> 0, batch |-> <<>>]

SpillError == 0   \* what a cell shows instead of a row that cannot be read

NewBuffer ==
    [slots |-> <<>>, offsets |-> <<0>>, memRows |-> 0, spillFiles |-> 0,
     dir |-> FALSE, files |-> <<>>, cache |-> NoCache]

RowCount(b) == b.offsets[Len(b.offsets)]

Fits(b, batch) == b.memRows + Len(batch) <= CapRows

CommitOffset(b, n) == Append(b.offsets, RowCount(b) + n)

CommitMem(b, batch) ==
    [b EXCEPT !.memRows = @ + Len(batch),
              !.slots = Append(@, Mem(batch)),
              !.offsets = CommitOffset(b, Len(batch))]

BeginSpill(b) == [b EXCEPT !.dir = TRUE]

(* The index is taken when the spill begins, and used up only by its       *)
(* commit: after a failed write the next spill overwrites the torn file.   *)
SpillIndex(b) == b.spillFiles

Write(b, ix, content) ==
    [b EXCEPT !.files = IF ix < Len(@) THEN [@ EXCEPT ![ix + 1] = content]
                                       ELSE Append(@, content)]

CommitSpill(b, ix, n) ==
    [b EXCEPT !.slots = Append(@, Spilled(ix)),
              !.spillFiles = @ + 1,
              !.offsets = CommitOffset(b, n)]

-----------------------------------------------------------------------------
(* Reading; row counts from 0, slots from 1. *)

SlotOf(b, row) == Cardinality({i \in DOMAIN b.offsets : b.offsets[i] <= row})

(* Mutant: whatever is cached is taken for the slot.                       *)
Cached_AnySlot(b, si) == b.cache # NoCache

Cached(b, si) == b.cache.slot = si

FileOf(b, si) == b.files[b.slots[si].file + 1]

Readable(b, si) == b.slots[si].mem \/ Cached(b, si) \/ FileOf(b, si).whole

SlotBatch(b, si) ==
    IF b.slots[si].mem THEN b.slots[si].batch
    ELSE IF Cached(b, si) THEN b.cache.batch
    ELSE FileOf(b, si).batch

(* slot_batch keeps what it has read from a file.                          *)
AfterRead(b, si) ==
    IF b.slots[si].mem \/ ~Readable(b, si) THEN b
    ELSE [b EXCEPT !.cache = [slot |-> si, batch |-> SlotBatch(b, si)]]

CellText(b, row) ==
    LET si == SlotOf(b, row)
    IN IF Readable(b, si) THEN SlotBatch(b, si)[row - b.offsets[si] + 1] ELSE SpillError
=============================================================================
