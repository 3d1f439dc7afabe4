------------------------------ MODULE FastAlloc ------------------------------
(***************************************************************************)
(* The bump allocator behind every data structure of the compiler.  It     *)
(* cuts allocations off the front of a chunk obtained from malloc and gets *)
(* another chunk when the rest is too small; nothing is freed before the   *)
(* end of the compilation.  fastrealloc grows an allocation where it is    *)
(* when it was the last to be cut, and otherwise moves it.                 *)
(*                                                                         *)
(* A pointer is a chunk and an offset into it.  Chunks come from malloc    *)
(* with a header between them, so the end of one is never the start of     *)
(* another.  The owners of allocations, which are the rest of the          *)
(* compiler, write any of their bytes and pass fastrealloc the size they   *)
(* asked for last.                                                         *)
(***************************************************************************)
EXTENDS Naturals, Sequences

CONSTANTS
  Byte,       (* the values of a byte                                       *)
  Junk,       (* those of them that uninitialised memory is seen to hold     *)
  ChunkMin,   (* bytes of a chunk, unless more are asked for: 1024          *)
  Sizes,      (* the sizes that are asked for, 0 for an empty array         *)
  Strings,    (* the strings that are duplicated, with their terminator     *)
  MaxChunks,  (* bound: chunks malloc has memory for                        *)
  MaxRetired, (* bound: entries of the list of full chunks                  *)
  MaxAllocs   (* bound: allocations                                         *)

ASSUME FastAllocAssumption ==
  /\ Junk \subseteq Byte
  /\ ChunkMin \in Nat \ {0}
  /\ Sizes \subseteq Nat
  /\ Strings \subseteq Seq(Byte)

VARIABLES
  mem,         (* the contents of every chunk obtained from malloc          *)
  chunks,      (* the full chunks, as the pointers that get recorded        *)
  chunk,       (* where the next allocation is cut                          *)
  chunk_left,  (* bytes from there to the end of the chunk                  *)
  allocs       (* every allocation, as its owner knows it                   *)

vars == <<mem, chunks, chunk, chunk_left, allocs>>

Pointer == [chunk : Nat, off : Nat]
Null == [chunk |-> 0, off |-> 0]

Plus(p, bytes) == [p EXCEPT !.off = @ + bytes]

(* Memory m after s has been copied to pointer p. *)
Copy(m, p, s) ==
  [m EXCEPT ![p.chunk] = [i \in DOMAIN m[p.chunk] |->
     IF i > p.off /\ i <= p.off + Len(s) THEN s[i - p.off] ELSE m[p.chunk][i]]]

(* The bytes of allocation k. *)
Contents(k) ==
  [i \in 1 .. allocs[k].size |-> mem[allocs[k].ptr.chunk][allocs[k].ptr.off + i]]

-----------------------------------------------------------------------------
(* fastalloc(bytes) *)

(* Faulty variant: room is looked for without counting the last byte. *)
NeedsChunkLate(bytes) == chunk = Null \/ bytes > chunk_left + 1

NeedsChunk(bytes) == chunk = Null \/ bytes > chunk_left

ChunkSize(bytes) == IF bytes > ChunkMin THEN bytes * 2 ELSE ChunkMin

(* What it returns, when malloc does not fail. *)
Allocated(bytes) ==
  IF NeedsChunk(bytes) THEN [chunk |-> Len(mem) + 1, off |-> 0] ELSE chunk

(* The memory it leaves: a new chunk holds whatever was there. *)
MemoryWith(bytes) ==
  IF NeedsChunk(bytes)
  THEN {Append(mem, [i \in 1 .. ChunkSize(bytes) |-> junk]) : junk \in Junk}
  ELSE {mem}

Recorded == IF chunk = Null THEN chunks ELSE Append(chunks, chunk)

(* Faulty variant: what is left of the old chunk is added to the new one. *)
BumpCarryingOver(bytes) ==
  /\ chunk' = Plus(Allocated(bytes), bytes)
  /\ IF NeedsChunk(bytes)
     THEN /\ Len(mem) < MaxChunks /\ Len(chunks) < MaxRetired
          /\ chunks' = Recorded
          /\ chunk_left' = chunk_left + ChunkSize(bytes) - bytes
     ELSE chunk_left' = chunk_left - bytes /\ UNCHANGED chunks

Bump(bytes) ==
  /\ chunk' = Plus(Allocated(bytes), bytes)
  /\ IF NeedsChunk(bytes)
     THEN /\ Len(mem) < MaxChunks /\ Len(chunks) < MaxRetired
          /\ chunks' = Recorded
          /\ chunk_left' = ChunkSize(bytes) - bytes
     ELSE chunk_left' = chunk_left - bytes /\ UNCHANGED chunks

Alloc(bytes) ==
  /\ Len(allocs) < MaxAllocs
  /\ Bump(bytes)
  /\ mem' \in MemoryWith(bytes)
  /\ allocs' = Append(allocs, [ptr |-> Allocated(bytes), size |-> bytes])

(* malloc has no memory: the old chunk has been recorded by then, and NULL *)
(* is returned with the chunk still in use.                                *)
AllocFails(bytes) ==
  /\ NeedsChunk(bytes) /\ Len(chunks) < MaxRetired
  /\ chunks' = Recorded
  /\ UNCHANGED <<mem, chunk, chunk_left, allocs>>

(* faststrdup(str) *)
StrDup(str) ==
  /\ Len(allocs) < MaxAllocs
  /\ Bump(Len(str))
  /\ \E m \in MemoryWith(Len(str)) : mem' = Copy(m, Allocated(Len(str)), str)
  /\ allocs' = Append(allocs, [ptr |-> Allocated(Len(str)), size |-> Len(str)])

-----------------------------------------------------------------------------
(* fastrealloc(old, oldBytes, newBytes) on allocation k *)

(* It was cut last, and the chunk has room for the rest. *)
CanGrow(k, newBytes) ==
  /\ Plus(allocs[k].ptr, allocs[k].size) = chunk
  /\ newBytes - allocs[k].size <= chunk_left

(* Faulty variant: the bytes it no longer needs go back to the chunk. *)
ShrinkGivingBack(k, newBytes) ==
  /\ newBytes <= allocs[k].size
  /\ allocs' = [allocs EXCEPT ![k].size = newBytes]
  /\ chunk_left' = chunk_left + (allocs[k].size - newBytes)
  /\ chunk' = [chunk EXCEPT !.off = @ - (allocs[k].size - newBytes)]
  /\ UNCHANGED <<mem, chunks>>

(* Not more than it has: it stays, and its owner uses less of it. *)
Shrink(k, newBytes) ==
  /\ newBytes <= allocs[k].size
  /\ allocs' = [allocs EXCEPT ![k].size = newBytes]
  /\ UNCHANGED <<mem, chunks, chunk, chunk_left>>

GrowInPlace(k, newBytes) ==
  /\ newBytes > allocs[k].size
  /\ CanGrow(k, newBytes)
  /\ Bump(newBytes - allocs[k].size)
  /\ allocs' = [allocs EXCEPT ![k].size = newBytes]
  /\ UNCHANGED mem

(* Faulty variant: the bytes are not copied along. *)
MoveWithoutCopy(k, newBytes) ==
  /\ newBytes > allocs[k].size
  /\ ~CanGrow(k, newBytes)
  /\ Bump(newBytes)
  /\ mem' \in MemoryWith(newBytes)
  /\ allocs' = [allocs EXCEPT ![k] = [ptr |-> Allocated(newBytes), size |-> newBytes]]

Move(k, newBytes) ==
  /\ newBytes > allocs[k].size
  /\ ~CanGrow(k, newBytes)
  /\ Bump(newBytes)
  /\ \E m \in MemoryWith(newBytes) :
       mem' = Copy(m, Allocated(newBytes), Contents(k))
  /\ allocs' = [allocs EXCEPT ![k] = [ptr |-> Allocated(newBytes), size |-> newBytes]]

-----------------------------------------------------------------------------
(* The owner of allocation k writes to it. *)
Write(k) ==
  /\ \E i \in 1 .. allocs[k].size, b \in Byte :
       mem' = [mem EXCEPT ![allocs[k].ptr.chunk][allocs[k].ptr.off + i] = b]
  /\ UNCHANGED <<chunks, chunk, chunk_left, allocs>>

Init ==
  /\ mem = <<>>
  /\ chunks = <<>>
  /\ chunk = Null
  /\ chunk_left = 0
  /\ allocs = <<>>

Next ==
  \/ \E bytes \in Sizes : Alloc(bytes) \/ AllocFails(bytes)
  \/ \E str \in Strings : StrDup(str)
  \/ \E k \in DOMAIN allocs :
       \/ Write(k)
       \/ \E bytes \in Sizes :
            Shrink(k, bytes) \/ GrowInPlace(k, bytes) \/ Move(k, bytes)

Spec == Init /\ [][Next]_vars

-----------------------------------------------------------------------------
TypeOK ==
  /\ mem \in Seq(Seq(Byte))
  /\ chunk \in Pointer
  /\ chunk_left \in Nat
  /\ allocs \in Seq([ptr : Pointer, size : Nat])

Span(a) == a.ptr.off + 1 .. a.ptr.off + a.size

(* No two allocations share a byte, whatever sequence of allocations and   *)
(* reallocations made them: growing in place never reaches into another.   *)
NoOverlap ==
  \A j, k \in DOMAIN allocs :
    j # k /\ allocs[j].ptr.chunk = allocs[k].ptr.chunk
      => Span(allocs[j]) \cap Span(allocs[k]) = {}

(* Every allocation lies in memory that malloc returned, and what is left  *)
(* of the current chunk is counted exactly: chunk_left, reset for a new    *)
(* chunk and unsigned in the code, is the distance to the end of the       *)
(* chunk that is being cut.                                                *)
InsideChunks ==
  /\ \A k \in DOMAIN allocs :
       /\ allocs[k].ptr.chunk \in DOMAIN mem
       /\ allocs[k].ptr.off + allocs[k].size <= Len(mem[allocs[k].ptr.chunk])
  /\ chunk # Null => chunk.off + chunk_left = Len(mem[chunk.chunk])

(* What the owners see of the memory: the bytes of every allocation. *)
View == [k \in DOMAIN allocs |-> Contents(k)]

AbstractHeap == INSTANCE Heap WITH blocks <- View

(* To its users the allocator is a heap of separate blocks: no call and no *)
(* write changes the bytes of an allocation that is not its own, and a     *)
(* reallocation keeps those that fit, moved or not.                        *)
HeapSpec == AbstractHeap!Spec

=============================================================================
