------------------------------- MODULE Buffer -------------------------------
(***************************************************************************)
(* The growing buffer of core.c, t_as_smpp_buffer.  The allocated memory   *)
(* is the sequence ptr, whose length is the field capacity of the code;    *)
(* the first dataLen cells of it are the data.  What lies behind them is   *)
(* whatever was written there before, or what malloc and realloc returned. *)
(* A cell is one unit of data: an octet, or a field for the callers that   *)
(* write whole fields.                                                     *)
(***************************************************************************)
EXTENDS Integers, Sequences

CONSTANTS
  Slack,        \* what ensure_capacity allocates beyond the block, 16 in the code
  Garbage       \* the content of memory that was never written

Fresh(n) == [i \in 1..n |-> Garbage]

\* A buffer over memory whose cells are in Cell, with its data inside the memory.
BufferOf(Cell) == {b \in [ptr : Seq(Cell), dataLen : Nat] : b.dataLen <= Len(b.ptr)}

\* The data in the buffer.
Data(b) == SubSeq(b.ptr, 1, b.dataLen)

as_smpp_buffer_init(capacity) == [ptr |-> Fresh(capacity), dataLen |-> 0]

\* Mutant of ensure_capacity: what is in the buffer already is not counted.
EnsureBlock(b, blockSize) ==
  IF blockSize > Len(b.ptr)
    THEN [ptr |-> b.ptr \o Fresh(blockSize + Slack), dataLen |-> b.dataLen]
    ELSE b

\* Mutant of ensure_capacity: the memory grows every time.
GrowAlways(b, blockSize) == [ptr |-> b.ptr \o Fresh(blockSize + Slack), dataLen |-> b.dataLen]

as_smpp_buffer_ensure_capacity(b, blockSize) ==
  IF b.dataLen + blockSize > Len(b.ptr)
    THEN [ptr |-> b.ptr \o Fresh(blockSize + Slack), dataLen |-> b.dataLen]
    ELSE b

\* Append the cells s to the data: as_smpp_buffer_copy, and every serialize
\* function, which ensures the capacity and then writes from dataLen on.
as_smpp_buffer_copy(b, s) ==
  LET memory == as_smpp_buffer_ensure_capacity(b, Len(s)).ptr
      end == b.dataLen + Len(s)
  IN [ptr |-> [i \in 1..Len(memory) |->
                 IF b.dataLen < i /\ i <= end THEN s[i - b.dataLen] ELSE memory[i]],
      dataLen |-> end]

\* Mutant of remove: the data is not moved.
RemoveInPlace(b, index, len) ==
  [ptr |-> b.ptr, dataLen |-> IF b.dataLen <= len THEN index ELSE b.dataLen - len + index]

\* Move the data behind the first len cells down to index (memmove).
as_smpp_buffer_remove(b, index, len) ==
  IF b.dataLen <= len
    THEN [ptr |-> b.ptr, dataLen |-> index]
    ELSE LET end == index + b.dataLen - len
         IN [ptr |-> [i \in 1..Len(b.ptr) |->
                        IF index < i /\ i <= end THEN b.ptr[i + len - index] ELSE b.ptr[i]],
             dataLen |-> end]

=============================================================================
