-------------------------- MODULE FastAllocProofs --------------------------
(***************************************************************************)
(* Proofs about the bump allocator, for chunks and requests of any size    *)
(* and any number of them.                                                 *)
(***************************************************************************)
EXTENDS FastAlloc, TLAPS

(* Nothing has been cut from the rest of the current chunk, which is the   *)
(* last one malloc returned: what makes cutting and growing safe.          *)
RestIsFree ==
  /\ chunk.chunk = Len(mem)
  /\ Len(mem) = 0 => chunk = Null
  /\ \A k \in DOMAIN allocs : allocs[k].ptr.chunk = chunk.chunk =>
       allocs[k].ptr.off + allocs[k].size <= chunk.off

IInv == TypeOK /\ InsideChunks /\ RestIsFree /\ NoOverlap

Allocation == [ptr : Pointer, size : Nat]

(* Offsets into a chunk, as numbers. *)
LEMMA OffsetInside ==
  ASSUME NEW o \in Nat, NEW len \in Nat, NEW n \in Nat, o + len <= n,
         NEW i \in 1 .. len
  PROVE  /\ o + i \in 1 .. n
         /\ o + i > o
         /\ o + i <= o + len
         /\ (o + i) - o = i
OBVIOUS

LEMMA StillBelow ==
  ASSUME NEW o \in Nat, NEW len \in Nat, NEW n \in Nat, NEW d \in Nat,
         o + len <= n
  PROVE  o + len <= n + d
OBVIOUS

(* Memory is a sequence of chunks, none of which a copy makes longer; it   *)
(* changes the bytes at its destination and no others.                     *)
LEMMA CopyFacts ==
  ASSUME NEW m \in Seq(Seq(Byte)), NEW p \in Pointer, NEW s \in Seq(Byte),
         p.chunk \in 1 .. Len(m), p.off + Len(s) <= Len(m[p.chunk])
  PROVE  /\ Copy(m, p, s) \in Seq(Seq(Byte))
         /\ Len(Copy(m, p, s)) = Len(m)
         /\ \A c \in 1 .. Len(m) : Len(Copy(m, p, s)[c]) = Len(m[c])
         /\ \A c \in 1 .. Len(m) : \A i \in 1 .. Len(m[c]) :
              ~(c = p.chunk /\ i > p.off /\ i <= p.off + Len(s))
                => Copy(m, p, s)[c][i] = m[c][i]
         /\ \A i \in 1 .. Len(s) : Copy(m, p, s)[p.chunk][p.off + i] = s[i]
<1> DEFINE n == Len(m[p.chunk])
           d == [i \in 1 .. n |->
                   IF i > p.off /\ i <= p.off + Len(s) THEN s[i - p.off]
                   ELSE m[p.chunk][i]]
<1>1. n \in Nat /\ DOMAIN m[p.chunk] = 1 .. n /\ p.off \in Nat /\ Len(s) \in Nat
      /\ m[p.chunk] \in Seq(Byte) /\ p.off + Len(s) <= n
  BY DEF Pointer
<1>2. Copy(m, p, s) = [m EXCEPT ![p.chunk] = d]
  BY <1>1 DEF Copy
<1>3. d \in Seq(Byte) /\ Len(d) = n
  <2>1. \A i \in 1 .. n : i > p.off /\ i <= p.off + Len(s) => s[i - p.off] \in Byte
    BY <1>1
  <2>2. \A i \in 1 .. n : m[p.chunk][i] \in Byte
    BY <1>1
  <2>3. \A i \in 1 .. n : d[i] \in Byte
    BY <2>1, <2>2
  <2>4. d \in [1 .. n -> Byte]
    BY <2>3
  <2> QED BY <2>4, <1>1
<1>4. \A i \in 1 .. Len(s) : d[p.off + i] = s[i]
  <2> TAKE i \in 1 .. Len(s)
  <2> HIDE DEF n, d
  <2>1. p.off + i \in 1 .. n /\ p.off + i > p.off /\ p.off + i <= p.off + Len(s)
        /\ (p.off + i) - p.off = i
    BY <1>1, OffsetInside
  <2> USE DEF d
  <2> QED BY <2>1
<1>5. \A i \in 1 .. n : ~(i > p.off /\ i <= p.off + Len(s)) => d[i] = m[p.chunk][i]
  OBVIOUS
<1> HIDE DEF d, n
<1> QED BY <1>1, <1>2, <1>3, <1>4, <1>5 DEF n

(* What cutting an allocation gives: a pointer into the last chunk, behind *)
(* everything that was cut from it, with room for the bytes asked for.     *)
LEMMA CutFacts ==
  ASSUME IInv, NEW bytes \in Nat, NEW m \in MemoryWith(bytes), Bump(bytes)
  PROVE  /\ m \in Seq(Seq(Byte))
         /\ Len(m) >= Len(mem)
         /\ \A c \in 1 .. Len(mem) : m[c] = mem[c]
         /\ Allocated(bytes) \in Pointer
         /\ Allocated(bytes).chunk = Len(m) /\ Len(m) > 0
         /\ chunk' = [chunk |-> Len(m), off |-> Allocated(bytes).off + bytes]
         /\ chunk_left' \in Nat
         /\ chunk'.off + chunk_left' = Len(m[Len(m)])
         /\ \A k \in DOMAIN allocs : allocs[k].ptr.chunk = Len(m) =>
              allocs[k].ptr.off + allocs[k].size <= Allocated(bytes).off
<1>1. mem \in Seq(Seq(Byte)) /\ chunk \in Pointer /\ chunk_left \in Nat
      /\ allocs \in Seq(Allocation) /\ Len(mem) \in Nat
  BY DEF IInv, TypeOK, Allocation
<1>2. CASE NeedsChunk(bytes)
  <2>1. PICK junk \in Junk :
          m = Append(mem, [i \in 1 .. ChunkSize(bytes) |-> junk])
    BY <1>2 DEF MemoryWith
  <2>2. ChunkSize(bytes) \in Nat /\ bytes <= ChunkSize(bytes)
    BY FastAllocAssumption DEF ChunkSize
  <2> DEFINE new == [i \in 1 .. ChunkSize(bytes) |-> junk]
  <2>3. new \in Seq(Byte) /\ Len(new) = ChunkSize(bytes)
    BY <2>2, FastAllocAssumption
  <2> HIDE DEF new
  <2>4. /\ m \in Seq(Seq(Byte)) /\ Len(m) = Len(mem) + 1 /\ m[Len(m)] = new
        /\ \A c \in 1 .. Len(mem) : m[c] = mem[c]
    BY <1>1, <2>1, <2>3 DEF new
  <2>5. Allocated(bytes) = [chunk |-> Len(m), off |-> 0]
    BY <1>2, <2>4 DEF Allocated
  <2>6. chunk_left' = ChunkSize(bytes) - bytes
    BY <1>2 DEF Bump
  <2>7. chunk' = [chunk |-> Len(m), off |-> 0 + bytes]
    BY <2>4, <2>5 DEF Bump, Plus
  <2>8. \A k \in DOMAIN allocs : allocs[k].ptr.chunk \in 1 .. Len(mem)
    BY <1>1 DEF IInv, InsideChunks
  <2> QED BY <1>1, <2>2, <2>3, <2>4, <2>5, <2>6, <2>7, <2>8 DEF Pointer
<1>3. CASE ~NeedsChunk(bytes)
  <2>1. m = mem /\ Allocated(bytes) = chunk /\ chunk # Null /\ bytes <= chunk_left
    BY <1>1, <1>3 DEF MemoryWith, Allocated, NeedsChunk
  <2>2. chunk_left' = chunk_left - bytes
    BY <1>3 DEF Bump
  <2>3. chunk.chunk = Len(mem) /\ Len(mem) > 0
    BY <1>1, <2>1 DEF IInv, RestIsFree
  <2>4. chunk' = [chunk |-> Len(mem), off |-> chunk.off + bytes]
    BY <1>1, <2>1, <2>3 DEF Bump, Plus, Pointer
  <2>5. chunk.off + chunk_left = Len(mem[Len(mem)]) /\ chunk.off \in Nat
    BY <1>1, <2>1, <2>3 DEF IInv, InsideChunks, Pointer
  <2>6. \A k \in DOMAIN allocs : allocs[k].ptr.chunk = Len(mem) =>
          allocs[k].ptr.off + allocs[k].size <= chunk.off
    BY <2>3 DEF IInv, RestIsFree
  <2> QED BY <1>1, <2>1, <2>2, <2>3, <2>4, <2>5, <2>6
<1> QED BY <1>2, <1>3

(* Cutting an allocation, for a new owner or for one that moves, keeps the *)
(* invariant, whatever is copied into it.                                  *)
LEMMA CutKeepsIInv ==
  ASSUME IInv, NEW bytes \in Nat, NEW m \in MemoryWith(bytes), Bump(bytes),
         mem' \in Seq(Seq(Byte)), Len(mem') = Len(m),
         \A c \in 1 .. Len(m) : Len(mem'[c]) = Len(m[c]),
         allocs' \in Seq(Allocation), NEW k \in DOMAIN allocs',
         allocs'[k] = [ptr |-> Allocated(bytes), size |-> bytes],
         \A j \in DOMAIN allocs' \ {k} :
           j \in DOMAIN allocs /\ allocs'[j] = allocs[j]
  PROVE  IInv'
<1> DEFINE p == Allocated(bytes)
<1>1. /\ Len(m) \in Nat /\ p \in Pointer /\ p.chunk = Len(m) /\ Len(m) > 0
      /\ chunk' = [chunk |-> Len(m), off |-> p.off + bytes]
      /\ chunk_left' \in Nat
      /\ p.off + bytes + chunk_left' = Len(m[Len(m)])
      /\ \A j \in DOMAIN allocs : allocs[j].ptr.chunk = Len(m) =>
           allocs[j].ptr.off + allocs[j].size <= p.off
  BY CutFacts
<1>2. /\ mem \in Seq(Seq(Byte)) /\ allocs \in Seq(Allocation)
      /\ Len(mem) \in Nat /\ DOMAIN mem = 1 .. Len(mem)
      /\ DOMAIN mem' = 1 .. Len(m)
  BY <1>1 DEF IInv, TypeOK, Allocation
<1>3. Len(mem) <= Len(m) /\ \A c \in 1 .. Len(mem) : m[c] = mem[c]
  BY <1>2, CutFacts
<1> HIDE DEF p
<1>4. \A j \in DOMAIN allocs :
        /\ allocs[j].ptr.chunk \in 1 .. Len(mem)
        /\ allocs[j].ptr.chunk \in 1 .. Len(m)
        /\ allocs[j].ptr.off \in Nat /\ allocs[j].size \in Nat
        /\ allocs[j].ptr.off + allocs[j].size <= Len(m[allocs[j].ptr.chunk])
  <2> TAKE j \in DOMAIN allocs
  <2>1. allocs[j] \in Allocation
    BY <1>2
  <2>2. allocs[j].ptr.off \in Nat /\ allocs[j].size \in Nat
    BY <2>1 DEF Allocation, Pointer
  <2>3. /\ allocs[j].ptr.chunk \in 1 .. Len(mem)
        /\ allocs[j].ptr.off + allocs[j].size <= Len(mem[allocs[j].ptr.chunk])
    BY <1>2 DEF IInv, InsideChunks
  <2>4. allocs[j].ptr.chunk \in 1 .. Len(m)
    BY <1>1, <1>2, <1>3, <2>3, SMTT(60)
  <2> QED BY <1>3, <2>2, <2>3, <2>4
<1>5. allocs'[k].ptr = p /\ allocs'[k].size = bytes
  BY DEF p
<1>6. p.off \in Nat /\ p.off + bytes <= Len(m[Len(m)]) /\ Len(m[Len(m)]) \in Nat
  <2>1. m \in Seq(Seq(Byte))
    BY CutFacts
  <2>2. Len(m[Len(m)]) \in Nat
    BY <1>1, <2>1
  <2> QED BY <1>1, <2>2 DEF Pointer
<1>7. TypeOK'
  <2>1. chunk' \in Pointer
    BY <1>1, <1>6 DEF Pointer
  <2>2. allocs' \in Seq([ptr : Pointer, size : Nat])
    BY DEF Allocation
  <2> QED BY <1>1, <2>1, <2>2 DEF TypeOK
<1>8. InsideChunks'
  <2>1. \A j \in DOMAIN allocs' :
          /\ allocs'[j].ptr.chunk \in DOMAIN mem'
          /\ allocs'[j].ptr.off + allocs'[j].size <= Len(mem'[allocs'[j].ptr.chunk])
    <3> TAKE j \in DOMAIN allocs'
    <3>1. CASE j = k
      <4>1. allocs'[j].ptr.chunk = Len(m) /\ Len(m) \in 1 .. Len(m)
        BY <1>1, <1>5, <3>1
      <4>2. Len(mem'[Len(m)]) = Len(m[Len(m)])
        BY <4>1
      <4>3. allocs'[j].ptr.off + allocs'[j].size = p.off + bytes
        BY <1>5, <3>1
      <4> QED BY <1>2, <1>6, <4>1, <4>2, <4>3
    <3>2. CASE j # k
      BY <1>2, <1>4, <3>2
    <3> QED BY <3>1, <3>2
  <2>2. chunk'.off + chunk_left' = Len(mem'[chunk'.chunk])
    BY <1>1, <1>2
  <2> QED BY <2>1, <2>2 DEF InsideChunks
<1>9. RestIsFree'
  <2>1. chunk'.chunk = Len(mem') /\ ~(Len(mem') = 0)
    BY <1>1
  <2>2. \A j \in DOMAIN allocs' : allocs'[j].ptr.chunk = chunk'.chunk =>
          allocs'[j].ptr.off + allocs'[j].size <= chunk'.off
    <3> TAKE j \in DOMAIN allocs'
    <3>1. CASE j = k
      BY <1>1, <1>5, <1>6, <3>1
    <3>2. CASE j # k
      <4>1. j \in DOMAIN allocs /\ allocs'[j] = allocs[j]
        BY <3>2
      <4>2. allocs[j].ptr.chunk = Len(m) =>
              allocs[j].ptr.off + allocs[j].size <= p.off + bytes
        <5> SUFFICES ASSUME allocs[j].ptr.chunk = Len(m)
                     PROVE  allocs[j].ptr.off + allocs[j].size <= p.off + bytes
          OBVIOUS
        <5>1. allocs[j].ptr.off + allocs[j].size <= p.off
          BY <1>1, <4>1
        <5>2. allocs[j].ptr.off \in Nat /\ allocs[j].size \in Nat
          BY <1>4, <4>1
        <5> QED BY <1>6, <5>1, <5>2, StillBelow
      <4> QED BY <1>1, <4>1, <4>2
    <3> QED BY <3>1, <3>2
  <2> QED BY <2>1, <2>2 DEF RestIsFree
<1>10. NoOverlap'
  <2>1. \A j \in DOMAIN allocs' \ {k} : allocs'[j].ptr.chunk = p.chunk =>
          Span(allocs'[j]) \cap Span(allocs'[k]) = {}
    <3> SUFFICES ASSUME NEW j \in DOMAIN allocs' \ {k}, allocs'[j].ptr.chunk = p.chunk
                 PROVE  Span(allocs'[j]) \cap Span(allocs'[k]) = {}
      OBVIOUS
    <3>1. j \in DOMAIN allocs /\ allocs'[j] = allocs[j]
      OBVIOUS
    <3>2. allocs[j].ptr.off + allocs[j].size <= p.off
      BY <1>1, <3>1
    <3>3. allocs[j].ptr.off \in Nat /\ allocs[j].size \in Nat
      BY <1>4, <3>1
    <3> DEFINE o == allocs[j].ptr.off
               n == allocs[j].size
    <3>4. Span(allocs'[j]) = o + 1 .. o + n
      BY <3>1 DEF Span
    <3>5. Span(allocs'[k]) = p.off + 1 .. p.off + bytes
      BY <1>5 DEF Span
    <3> HIDE DEF o, n
    <3>6. o \in Nat /\ n \in Nat /\ o + n <= p.off
      BY <3>2, <3>3 DEF o, n
    <3> QED BY <1>6, <3>4, <3>5, <3>6
  <2> SUFFICES ASSUME NEW i \in DOMAIN allocs', NEW j \in DOMAIN allocs', i # j,
                      allocs'[i].ptr.chunk = allocs'[j].ptr.chunk
               PROVE  Span(allocs'[i]) \cap Span(allocs'[j]) = {}
    BY DEF NoOverlap, Span
  <2>2. CASE i = k
    BY <1>5, <2>1, <2>2
  <2>3. CASE j = k
    BY <1>5, <2>1, <2>3
  <2>4. CASE i # k /\ j # k
    BY <2>4 DEF IInv, NoOverlap
  <2> QED BY <2>2, <2>3, <2>4
<1> QED BY <1>7, <1>8, <1>9, <1>10 DEF IInv

-----------------------------------------------------------------------------
LEMMA InitIInv == Init => IInv
BY DEF Init, IInv, TypeOK, InsideChunks, RestIsFree, NoOverlap, Pointer, Null

(* What the steps below need of the invariant, as facts about numbers. *)
LEMMA AllocFacts ==
  ASSUME IInv, NEW k \in DOMAIN allocs
  PROVE  /\ allocs[k] \in Allocation /\ k \in 1 .. Len(allocs)
         /\ allocs[k].ptr \in Pointer
         /\ allocs[k].ptr.off \in Nat /\ allocs[k].size \in Nat
         /\ allocs[k].ptr.chunk \in 1 .. Len(mem)
         /\ mem[allocs[k].ptr.chunk] \in Seq(Byte)
         /\ allocs[k].ptr.off + allocs[k].size <= Len(mem[allocs[k].ptr.chunk])
<1>1. allocs \in Seq(Allocation) /\ mem \in Seq(Seq(Byte))
  BY DEF IInv, TypeOK, Allocation
<1>2. allocs[k] \in Allocation /\ k \in 1 .. Len(allocs)
  BY <1>1
<1>3. allocs[k].ptr.chunk \in 1 .. Len(mem)
  BY <1>1 DEF IInv, InsideChunks
<1>4. mem[allocs[k].ptr.chunk] \in Seq(Byte)
  BY <1>1, <1>3
<1>5. allocs[k].ptr \in Pointer /\ allocs[k].ptr.off \in Nat /\ allocs[k].size \in Nat
  BY <1>2 DEF Allocation, Pointer
<1> QED BY <1>2, <1>3, <1>4, <1>5 DEF IInv, InsideChunks

LEMMA ContentsFacts ==
  ASSUME IInv, NEW k \in DOMAIN allocs
  PROVE  Contents(k) \in Seq(Byte) /\ Len(Contents(k)) = allocs[k].size
<1> DEFINE n == allocs[k].size
           o == allocs[k].ptr.off
           s == mem[allocs[k].ptr.chunk]
<1>1. n \in Nat /\ o \in Nat /\ s \in Seq(Byte) /\ o + n <= Len(s)
  BY AllocFacts
<1>2. Contents(k) = [i \in 1 .. n |-> s[o + i]]
  BY DEF Contents
<1> HIDE DEF n, o, s
<1>3. \A i \in 1 .. n : s[o + i] \in Byte
  BY <1>1
<1> QED BY <1>1, <1>2, <1>3 DEF n

(* A step that moves no pointer and changes no length keeps the invariant  *)
(* when it makes no allocation larger.                                     *)
LEMMA InPlaceKeepsIInv ==
  ASSUME IInv, UNCHANGED <<chunk, chunk_left>>,
         mem' \in Seq(Seq(Byte)), Len(mem') = Len(mem),
         \A c \in 1 .. Len(mem) : Len(mem'[c]) = Len(mem[c]),
         allocs' \in Seq(Allocation), DOMAIN allocs' = DOMAIN allocs,
         \A j \in DOMAIN allocs : allocs'[j].ptr = allocs[j].ptr
                                 /\ allocs'[j].size <= allocs[j].size
  PROVE  IInv'
<1>1. /\ mem \in Seq(Seq(Byte)) /\ Len(mem) \in Nat
      /\ DOMAIN mem = 1 .. Len(mem) /\ DOMAIN mem' = 1 .. Len(mem)
      /\ chunk \in Pointer /\ chunk_left \in Nat /\ chunk.off \in Nat
      /\ \A j \in DOMAIN allocs' : allocs'[j] \in Allocation
  BY DEF IInv, TypeOK, Pointer
<1>2. \A j \in DOMAIN allocs : allocs'[j].size \in Nat
  BY <1>1 DEF Allocation
<1>3. TypeOK'
  BY DEF IInv, TypeOK, Allocation
<1>4. InsideChunks'
  <2>1. \A j \in DOMAIN allocs' :
          /\ allocs'[j].ptr.chunk \in DOMAIN mem'
          /\ allocs'[j].ptr.off + allocs'[j].size <= Len(mem'[allocs'[j].ptr.chunk])
    <3> TAKE j \in DOMAIN allocs'
    <3> DEFINE c == allocs[j].ptr.chunk
               o == allocs[j].ptr.off
               n == allocs[j].size
               nn == allocs'[j].size
    <3>1. c \in 1 .. Len(mem) /\ o \in Nat /\ n \in Nat /\ o + n <= Len(mem[c])
          /\ Len(mem[c]) \in Nat
      BY AllocFacts
    <3>2. nn \in Nat /\ nn <= n
      BY <1>2
    <3>3. c \in DOMAIN mem' /\ Len(mem'[c]) = Len(mem[c])
      BY <1>1, <3>1
    <3> HIDE DEF c, o, n, nn
    <3>4. o + nn <= Len(mem'[c])
      BY <3>1, <3>2, <3>3
    <3> QED BY <3>3, <3>4 DEF c, o, nn
  <2>2. chunk # Null => chunk.off + chunk_left = Len(mem'[chunk.chunk])
    <3> SUFFICES ASSUME chunk # Null
                 PROVE  chunk.off + chunk_left = Len(mem'[chunk.chunk])
      OBVIOUS
    <3>1. chunk.chunk \in 1 .. Len(mem)
      BY <1>1 DEF IInv, RestIsFree
    <3> QED BY <3>1 DEF IInv, InsideChunks
  <2> QED BY <2>1, <2>2 DEF InsideChunks
<1>5. RestIsFree'
  <2>1. \A j \in DOMAIN allocs' : allocs'[j].ptr.chunk = chunk.chunk =>
          allocs'[j].ptr.off + allocs'[j].size <= chunk.off
    <3> SUFFICES ASSUME NEW j \in DOMAIN allocs, allocs[j].ptr.chunk = chunk.chunk
                 PROVE  allocs[j].ptr.off + allocs'[j].size <= chunk.off
      OBVIOUS
    <3> DEFINE o == allocs[j].ptr.off
               n == allocs[j].size
               nn == allocs'[j].size
    <3>1. o + n <= chunk.off /\ o \in Nat /\ n \in Nat
      BY AllocFacts DEF IInv, RestIsFree
    <3>2. nn \in Nat /\ nn <= n
      BY <1>2
    <3> HIDE DEF o, n, nn
    <3>3. o + nn <= chunk.off
      BY <1>1, <3>1, <3>2
    <3> QED BY <3>3 DEF o, nn
  <2> QED BY <2>1 DEF IInv, RestIsFree
<1>6. NoOverlap'
  <2>1. \A j \in DOMAIN allocs : Span(allocs'[j]) \subseteq Span(allocs[j])
    <3> TAKE j \in DOMAIN allocs
    <3> DEFINE o == allocs[j].ptr.off
               n == allocs[j].size
               nn == allocs'[j].size
    <3>1. o \in Nat /\ n \in Nat /\ nn \in Nat /\ nn <= n
      BY <1>2, AllocFacts
    <3>2. Span(allocs'[j]) = o + 1 .. o + nn /\ Span(allocs[j]) = o + 1 .. o + n
      BY DEF Span
    <3> HIDE DEF o, n, nn
    <3> QED BY <3>1, <3>2
  <2>2. \A i, j \in DOMAIN allocs' :
          i # j /\ allocs'[i].ptr.chunk = allocs'[j].ptr.chunk
            => Span(allocs'[i]) \cap Span(allocs'[j]) = {}
    BY <2>1 DEF IInv, NoOverlap
  <2> QED BY <2>2 DEF NoOverlap, Span
<1> QED BY <1>3, <1>4, <1>5, <1>6 DEF IInv

(* Growing the allocation that was cut last takes the bytes behind it,     *)
(* which nothing else holds.                                               *)
LEMMA GrowKeepsIInv ==
  ASSUME IInv, NEW k \in DOMAIN allocs, NEW bytes \in Nat, GrowInPlace(k, bytes)
  PROVE  IInv'
<1> DEFINE c == allocs[k].ptr.chunk
           o == allocs[k].ptr.off
           n == allocs[k].size
<1>1. /\ mem \in Seq(Seq(Byte)) /\ Len(mem) \in Nat /\ DOMAIN mem = 1 .. Len(mem)
      /\ chunk \in Pointer /\ chunk_left \in Nat /\ chunk.off \in Nat
      /\ allocs \in Seq(Allocation)
  BY DEF IInv, TypeOK, Pointer, Allocation
<1>2. c \in 1 .. Len(mem) /\ o \in Nat /\ n \in Nat /\ allocs[k].ptr \in Pointer
      /\ allocs[k] \in Allocation /\ k \in 1 .. Len(allocs)
  BY AllocFacts
<1>3. /\ bytes > n /\ bytes - n <= chunk_left /\ mem' = mem
      /\ allocs' = [allocs EXCEPT ![k].size = bytes]
      /\ Plus(allocs[k].ptr, n) = chunk /\ Bump(bytes - n)
  BY DEF GrowInPlace, CanGrow
<1>4. chunk.chunk = c /\ chunk.off = o + n
  BY <1>2, <1>3 DEF Plus, Pointer
<1>5. chunk # Null /\ chunk.off + chunk_left = Len(mem[c]) /\ c = Len(mem)
  BY <1>2, <1>4 DEF Null, IInv, InsideChunks, RestIsFree
<1>6. chunk' = [chunk |-> c, off |-> o + bytes] /\ chunk_left' = chunk_left - (bytes - n)
  <2>1. ~NeedsChunk(bytes - n)
    BY <1>1, <1>2, <1>3, <1>5 DEF NeedsChunk
  <2>2. chunk' = [chunk |-> c, off |-> (o + n) + (bytes - n)]
    BY <1>1, <1>3, <1>4, <2>1 DEF Bump, Allocated, Plus, Pointer
  <2> QED BY <1>2, <1>3, <2>1, <2>2 DEF Bump
<1>7. /\ DOMAIN allocs' = DOMAIN allocs
      /\ allocs'[k].ptr = allocs[k].ptr /\ allocs'[k].size = bytes
      /\ allocs' \in Seq(Allocation)
      /\ \A j \in DOMAIN allocs \ {k} : allocs'[j] = allocs[j]
  <2> DEFINE new == [allocs[k] EXCEPT !.size = bytes]
  <2>1. new \in Allocation /\ new.ptr = allocs[k].ptr /\ new.size = bytes
    BY <1>2 DEF Allocation
  <2>2. allocs' = [allocs EXCEPT ![k] = new]
    BY <1>3
  <2> HIDE DEF new
  <2>3. DOMAIN allocs' = DOMAIN allocs /\ allocs'[k] = new
    BY <2>2
  <2>4. \A j \in DOMAIN allocs \ {k} : allocs'[j] = allocs[j]
    BY <2>2
  <2>5. allocs' \in Seq(Allocation)
    BY <1>1, <2>1, <2>2
  <2> QED BY <2>1, <2>3, <2>4, <2>5
<1>9. \A j \in DOMAIN allocs \ {k} : allocs[j].ptr.chunk = c =>
         allocs[j].ptr.off + allocs[j].size <= o + n
  BY <1>4 DEF IInv, RestIsFree
<1> HIDE DEF c, o, n
<1>10. TypeOK'
  <2>1. c \in Nat /\ o + bytes \in Nat
    BY <1>1, <1>2
  <2>2. chunk_left - (bytes - n) \in Nat
    BY <1>1, <1>2, <1>3 DEF n
  <2>3. chunk' \in Pointer /\ chunk_left' \in Nat
    BY <1>6, <2>1, <2>2 DEF Pointer
  <2> QED BY <1>1, <1>3, <1>7, <2>3 DEF TypeOK, Allocation
<1>11. InsideChunks'
  <2>1. \A j \in DOMAIN allocs' :
          /\ allocs'[j].ptr.chunk \in DOMAIN mem
          /\ allocs'[j].ptr.off + allocs'[j].size <= Len(mem[allocs'[j].ptr.chunk])
    <3> TAKE j \in DOMAIN allocs'
    <3>1. CASE j = k
      <4>1. o + bytes <= Len(mem[c])
        BY <1>1, <1>2, <1>3, <1>4, <1>5, SMTT(60)
      <4> QED BY <1>1, <1>2, <1>7, <3>1, <4>1 DEF c, o
    <3>2. CASE j # k
      BY <1>7, <3>2 DEF IInv, InsideChunks
    <3> QED BY <3>1, <3>2
  <2>2. o + bytes + (chunk_left - (bytes - n)) = Len(mem[c])
    BY <1>1, <1>2, <1>3, <1>4, <1>5, SMTT(60)
  <2> QED BY <1>3, <1>6, <2>1, <2>2 DEF InsideChunks
<1>12. RestIsFree'
  <2>1. \A j \in DOMAIN allocs' : allocs'[j].ptr.chunk = c =>
          allocs'[j].ptr.off + allocs'[j].size <= o + bytes
    <3> SUFFICES ASSUME NEW j \in DOMAIN allocs', allocs'[j].ptr.chunk = c
                 PROVE  allocs'[j].ptr.off + allocs'[j].size <= o + bytes
      OBVIOUS
    <3>1. CASE j = k
      BY <1>2, <1>7, <3>1 DEF o
    <3>2. CASE j # k
      <4> DEFINE e == allocs[j].ptr.off + allocs[j].size
      <4>1. allocs'[j] = allocs[j] /\ e <= o + n /\ e \in Nat
        BY <1>7, <1>9, <3>2, AllocFacts
      <4> HIDE DEF e
      <4>2. e <= o + bytes
        BY <1>2, <1>3, <4>1
      <4> QED BY <4>1, <4>2 DEF e
    <3> QED BY <3>1, <3>2
  <2> QED BY <1>2, <1>3, <1>5, <1>6, <2>1 DEF RestIsFree
<1>13. NoOverlap'
  <2>1. \A j \in DOMAIN allocs \ {k} : allocs[j].ptr.chunk = c =>
          Span(allocs'[j]) \cap Span(allocs'[k]) = {}
    <3> SUFFICES ASSUME NEW j \in DOMAIN allocs \ {k}, allocs[j].ptr.chunk = c
                 PROVE  Span(allocs'[j]) \cap Span(allocs'[k]) = {}
      OBVIOUS
    <3> DEFINE oj == allocs[j].ptr.off
               nj == allocs[j].size
    <3>1. Span(allocs'[j]) = oj + 1 .. oj + nj /\ Span(allocs[j]) = oj + 1 .. oj + nj
      BY <1>7 DEF Span
    <3>2. Span(allocs'[k]) = o + 1 .. o + bytes /\ Span(allocs[k]) = o + 1 .. o + n
      BY <1>7 DEF Span, o, n
    <3>3. oj \in Nat /\ nj \in Nat /\ oj + nj <= o + n
      BY <1>9, AllocFacts
    <3>4. Span(allocs[j]) \cap Span(allocs[k]) = {}
      BY DEF IInv, NoOverlap, c
    <3> HIDE DEF oj, nj
    <3>5. \A i \in oj + 1 .. oj + nj : i <= o + n /\ i \in Nat
      BY <1>2, <3>3
    <3>6. \A i \in oj + 1 .. oj + nj : i \notin o + 1 .. o + bytes
      <4> SUFFICES ASSUME NEW i \in oj + 1 .. oj + nj, i \in o + 1 .. o + bytes
                   PROVE  FALSE
        OBVIOUS
      <4>1. i \in o + 1 .. o + n
        BY <1>2, <3>5
      <4> QED BY <3>1, <3>2, <3>4, <4>1
    <3> QED BY <3>1, <3>2, <3>6
  <2> SUFFICES ASSUME NEW i \in DOMAIN allocs, NEW j \in DOMAIN allocs, i # j,
                      allocs[i].ptr.chunk = allocs[j].ptr.chunk
               PROVE  Span(allocs'[i]) \cap Span(allocs'[j]) = {}
    BY <1>7 DEF NoOverlap, Span
  <2>2. CASE i = k
    BY <2>1, <2>2 DEF c
  <2>3. CASE j = k
    BY <2>1, <2>3 DEF c
  <2>4. CASE i # k /\ j # k
    BY <1>7, <2>4 DEF IInv, NoOverlap
  <2> QED BY <2>2, <2>3, <2>4
<1> QED BY <1>10, <1>11, <1>12, <1>13 DEF IInv

(* The memory after a cut and the contents that are copied into it. *)
LEMMA CutAndCopy ==
  ASSUME IInv, NEW bytes \in Nat, NEW m \in MemoryWith(bytes), Bump(bytes),
         NEW s \in Seq(Byte), Len(s) <= bytes, mem' = Copy(m, Allocated(bytes), s)
  PROVE  /\ mem' \in Seq(Seq(Byte)) /\ Len(mem') = Len(m)
         /\ \A c \in 1 .. Len(m) : Len(mem'[c]) = Len(m[c])
         /\ Allocated(bytes).chunk \in 1 .. Len(m)
         /\ Allocated(bytes).off + Len(s) <= Len(m[Allocated(bytes).chunk])
<1> DEFINE p == Allocated(bytes)
<1>1. /\ m \in Seq(Seq(Byte)) /\ p \in Pointer /\ p.chunk = Len(m) /\ Len(m) > 0
      /\ chunk' = [chunk |-> Len(m), off |-> p.off + bytes] /\ chunk_left' \in Nat
      /\ chunk'.off + chunk_left' = Len(m[Len(m)])
  BY CutFacts
<1>2. p.off \in Nat /\ p.chunk \in 1 .. Len(m) /\ Len(s) \in Nat
      /\ p.off + bytes + chunk_left' = Len(m[p.chunk])
  BY <1>1 DEF Pointer
<1> HIDE DEF p
<1>3. p.off + Len(s) <= Len(m[p.chunk])
  BY <1>1, <1>2
<1>4. mem' = Copy(m, p, s)
  BY DEF p
<1>5. /\ Copy(m, p, s) \in Seq(Seq(Byte)) /\ Len(Copy(m, p, s)) = Len(m)
      /\ \A c \in 1 .. Len(m) : Len(Copy(m, p, s)[c]) = Len(m[c])
  BY <1>1, <1>2, <1>3, CopyFacts, ZenonT(60)
<1> QED BY <1>2, <1>3, <1>4, <1>5 DEF p

LEMMA StepIInv == IInv /\ [Next]_vars => IInv'
<1> SUFFICES ASSUME IInv, [Next]_vars PROVE IInv'
  OBVIOUS
<1>1. mem \in Seq(Seq(Byte)) /\ allocs \in Seq(Allocation)
  BY DEF IInv, TypeOK, Allocation
<1>2. ASSUME NEW bytes \in Sizes, Alloc(bytes)
      PROVE  IInv'
  <2> DEFINE new == [ptr |-> Allocated(bytes), size |-> bytes]
  <2>1. bytes \in Nat /\ Bump(bytes) /\ mem' \in MemoryWith(bytes)
        /\ allocs' = Append(allocs, new)
    BY <1>2, FastAllocAssumption DEF Alloc
  <2>2. Allocated(bytes) \in Pointer /\ mem' \in Seq(Seq(Byte))
    BY <2>1, CutFacts
  <2>3. new \in Allocation
    BY <2>1, <2>2 DEF Allocation
  <2> HIDE DEF new
  <2>4. /\ allocs' \in Seq(Allocation) /\ Len(allocs) + 1 \in DOMAIN allocs'
        /\ allocs'[Len(allocs) + 1] = new
        /\ \A j \in DOMAIN allocs' \ {Len(allocs) + 1} :
             j \in DOMAIN allocs /\ allocs'[j] = allocs[j]
    BY <1>1, <2>1, <2>3
  <2> QED BY <2>1, <2>2, <2>4, CutKeepsIInv DEF new
<1>3. ASSUME NEW bytes \in Sizes, AllocFails(bytes)
      PROVE  IInv'
  BY <1>1, <1>3, AllocFacts, InPlaceKeepsIInv DEF AllocFails, Allocation
<1>4. ASSUME NEW str \in Strings, StrDup(str)
      PROVE  IInv'
  <2> DEFINE bytes == Len(str)
             new == [ptr |-> Allocated(bytes), size |-> bytes]
  <2>1. str \in Seq(Byte) /\ bytes \in Nat /\ Bump(bytes)
        /\ allocs' = Append(allocs, new)
    BY <1>4, FastAllocAssumption DEF StrDup
  <2>2. PICK m \in MemoryWith(bytes) : mem' = Copy(m, Allocated(bytes), str)
    BY <1>4 DEF StrDup
  <2>3. Allocated(bytes) \in Pointer
    BY <2>1, CutFacts
  <2>4. /\ mem' \in Seq(Seq(Byte)) /\ Len(mem') = Len(m)
        /\ \A c \in 1 .. Len(m) : Len(mem'[c]) = Len(m[c])
    BY <2>1, <2>2, CutAndCopy
  <2>5. new \in Allocation
    BY <2>1, <2>3 DEF Allocation
  <2> HIDE DEF new, bytes
  <2>6. /\ allocs' \in Seq(Allocation) /\ Len(allocs) + 1 \in DOMAIN allocs'
        /\ allocs'[Len(allocs) + 1] = new
        /\ \A j \in DOMAIN allocs' \ {Len(allocs) + 1} :
             j \in DOMAIN allocs /\ allocs'[j] = allocs[j]
    BY <1>1, <2>1, <2>5
  <2> QED BY <2>1, <2>4, <2>6, CutKeepsIInv DEF new
<1>5. ASSUME NEW k \in DOMAIN allocs, Write(k)
      PROVE  IInv'
  <2>1. PICK i \in 1 .. allocs[k].size, b \in Byte :
          mem' = [mem EXCEPT ![allocs[k].ptr.chunk][allocs[k].ptr.off + i] = b]
    BY <1>5 DEF Write
  <2> DEFINE c == allocs[k].ptr.chunk
             d == [mem[c] EXCEPT ![allocs[k].ptr.off + i] = b]
  <2>2. c \in 1 .. Len(mem) /\ mem[c] \in Seq(Byte)
    BY AllocFacts
  <2>3. d \in Seq(Byte) /\ Len(d) = Len(mem[c])
    <3>1. \A s \in Seq(Byte), x \in Nat :
            [s EXCEPT ![x] = b] \in Seq(Byte) /\ Len([s EXCEPT ![x] = b]) = Len(s)
      <4> TAKE s \in Seq(Byte), x \in Nat
      <4>1. s \in [1 .. Len(s) -> Byte] /\ Len(s) \in Nat
        OBVIOUS
      <4>2. [s EXCEPT ![x] = b] \in [1 .. Len(s) -> Byte]
        BY <4>1
      <4> QED BY <4>1, <4>2
    <3>2. allocs[k].ptr.off + i \in Nat
      BY AllocFacts
    <3> QED BY <2>2, <3>1, <3>2
  <2>4. mem' = [mem EXCEPT ![c] = d]
    BY <2>1
  <2> HIDE DEF c, d
  <2>5. /\ mem' \in Seq(Seq(Byte)) /\ Len(mem') = Len(mem)
        /\ \A e \in 1 .. Len(mem) : Len(mem'[e]) = Len(mem[e])
    BY <1>1, <2>2, <2>3, <2>4
  <2>6. UNCHANGED <<chunk, chunk_left, allocs>>
    BY <1>5 DEF Write
  <2> QED BY <1>1, <2>5, <2>6, AllocFacts, InPlaceKeepsIInv
<1>6. ASSUME NEW k \in DOMAIN allocs, NEW bytes \in Sizes, Shrink(k, bytes)
      PROVE  IInv'
  <2>1. /\ bytes \in Nat /\ bytes <= allocs[k].size
        /\ allocs' = [allocs EXCEPT ![k].size = bytes]
        /\ UNCHANGED <<mem, chunk, chunk_left>>
    BY <1>6, FastAllocAssumption DEF Shrink
  <2>2. [allocs[k] EXCEPT !.size = bytes] \in Allocation
    BY <2>1, AllocFacts DEF Allocation
  <2>3. allocs' \in Seq(Allocation) /\ DOMAIN allocs' = DOMAIN allocs
    BY <1>1, <2>1, <2>2
  <2>4. \A j \in DOMAIN allocs : allocs'[j].ptr = allocs[j].ptr
                               /\ allocs'[j].size <= allocs[j].size
    BY <1>1, <2>1, AllocFacts DEF Allocation
  <2> QED BY <1>1, <2>1, <2>3, <2>4, InPlaceKeepsIInv
<1>7. ASSUME NEW k \in DOMAIN allocs, NEW bytes \in Sizes, GrowInPlace(k, bytes)
      PROVE  IInv'
  BY <1>7, GrowKeepsIInv, FastAllocAssumption
<1>8. ASSUME NEW k \in DOMAIN allocs, NEW bytes \in Sizes, Move(k, bytes)
      PROVE  IInv'
  <2> DEFINE new == [ptr |-> Allocated(bytes), size |-> bytes]
  <2>1. /\ bytes \in Nat /\ bytes > allocs[k].size /\ Bump(bytes)
        /\ allocs' = [allocs EXCEPT ![k] = new]
    BY <1>8, FastAllocAssumption DEF Move
  <2>2. PICK m \in MemoryWith(bytes) :
          mem' = Copy(m, Allocated(bytes), Contents(k))
    BY <1>8 DEF Move
  <2>3. Contents(k) \in Seq(Byte) /\ Len(Contents(k)) <= bytes
    BY <2>1, ContentsFacts, AllocFacts
  <2>4. Allocated(bytes) \in Pointer
    BY <2>1, <2>2, CutFacts
  <2>5. /\ mem' \in Seq(Seq(Byte)) /\ Len(mem') = Len(m)
        /\ \A c \in 1 .. Len(m) : Len(mem'[c]) = Len(m[c])
    BY <2>1, <2>2, <2>3, CutAndCopy
  <2>6. new \in Allocation
    BY <2>1, <2>4 DEF Allocation
  <2> HIDE DEF new
  <2>7. /\ allocs' \in Seq(Allocation) /\ k \in DOMAIN allocs' /\ allocs'[k] = new
        /\ \A j \in DOMAIN allocs' \ {k} : j \in DOMAIN allocs /\ allocs'[j] = allocs[j]
    BY <1>1, <2>1, <2>6
  <2> QED BY <2>1, <2>5, <2>7, CutKeepsIInv DEF new
<1>9. CASE UNCHANGED vars
  BY <1>1, <1>9, AllocFacts, InPlaceKeepsIInv DEF vars
<1> QED BY <1>2, <1>3, <1>4, <1>5, <1>6, <1>7, <1>8, <1>9 DEF Next

(* The types, for every size of chunk and request.                         *)
THEOREM TypeCorrect == Spec => []TypeOK
<1>1. IInv => TypeOK
  BY DEF IInv
<1> QED BY <1>1, InitIInv, StepIInv, PTL DEF Spec

(* No two allocations of the compiler ever share a byte, grown in place or *)
(* not: fastrealloc extends an allocation only over bytes nobody has.      *)
THEOREM AllocationsSeparate == Spec => []NoOverlap
<1>1. IInv => NoOverlap
  BY DEF IInv
<1> QED BY <1>1, InitIInv, StepIInv, PTL DEF Spec

(* No allocation reaches past the chunk it was cut from, and chunk_left    *)
(* never miscounts, so it never wraps below zero.                          *)
THEOREM AllocationsInside == Spec => []InsideChunks
<1>1. IInv => InsideChunks
  BY DEF IInv
<1> QED BY <1>1, InitIInv, StepIInv, PTL DEF Spec

-----------------------------------------------------------------------------
(* The allocator implements the abstract heap. *)

(* What the owners see is a sequence of byte sequences. *)
ViewOK ==
  /\ View \in Seq(Seq(Byte)) /\ Len(View) = Len(allocs) /\ Len(allocs) \in Nat
  /\ DOMAIN View = 1 .. Len(allocs) /\ DOMAIN allocs = 1 .. Len(allocs)
  /\ \A k \in DOMAIN allocs : View[k] = Contents(k)
                            /\ DOMAIN Contents(k) = 1 .. allocs[k].size

LEMMA ViewFacts == IInv => ViewOK
<1> SUFFICES ASSUME IInv PROVE ViewOK
  OBVIOUS
<1>1. allocs \in Seq(Allocation)
  BY DEF IInv, TypeOK, Allocation
<1>2. \A k \in DOMAIN allocs : Contents(k) \in Seq(Byte)
  BY ContentsFacts
<1>3. \A k \in DOMAIN allocs : DOMAIN Contents(k) = 1 .. allocs[k].size
  BY DEF Contents
<1>4. View = [k \in 1 .. Len(allocs) |-> Contents(k)]
  BY <1>1 DEF View
<1> QED BY <1>1, <1>2, <1>3, <1>4 DEF ViewOK

(* An allocation stays the same when its record and its bytes do. *)
LEMMA SameContents ==
  ASSUME NEW j \in DOMAIN allocs, allocs'[j] = allocs[j],
         \A i \in 1 .. allocs[j].size :
           mem'[allocs[j].ptr.chunk][allocs[j].ptr.off + i]
             = mem[allocs[j].ptr.chunk][allocs[j].ptr.off + i]
  PROVE  Contents(j)' = Contents(j)
BY DEF Contents

(* Cutting an allocation, and copying into it, changes no byte of another. *)
LEMMA CutKeepsOthers ==
  ASSUME IInv, NEW bytes \in Nat, NEW m \in MemoryWith(bytes), Bump(bytes),
         NEW s \in Seq(Byte), Len(s) <= bytes, NEW j \in DOMAIN allocs,
         NEW i \in 1 .. allocs[j].size
  PROVE  LET c == allocs[j].ptr.chunk
             o == allocs[j].ptr.off
         IN  /\ m[c][o + i] = mem[c][o + i]
             /\ Copy(m, Allocated(bytes), s)[c][o + i] = mem[c][o + i]
<1> DEFINE p == Allocated(bytes)
           c == allocs[j].ptr.chunk
           o == allocs[j].ptr.off
           n == allocs[j].size
<1>1. /\ m \in Seq(Seq(Byte)) /\ p \in Pointer /\ p.chunk = Len(m)
      /\ Len(m) >= Len(mem)
      /\ \A e \in 1 .. Len(mem) : m[e] = mem[e]
      /\ c = Len(m) => o + n <= p.off
  BY CutFacts
<1>2. c \in 1 .. Len(mem) /\ o \in Nat /\ n \in Nat /\ o + n <= Len(mem[c])
      /\ mem[c] \in Seq(Byte) /\ Len(mem) \in Nat
  BY AllocFacts DEF IInv, TypeOK
<1>3. p.chunk \in 1 .. Len(m) /\ p.off + Len(s) <= Len(m[p.chunk])
  <2> DEFINE mm == Copy(m, p, s)
  <2>1. /\ Len(m) > 0 /\ chunk' = [chunk |-> Len(m), off |-> p.off + bytes]
        /\ chunk_left' \in Nat /\ chunk'.off + chunk_left' = Len(m[Len(m)])
    BY CutFacts
  <2>2. p.off \in Nat /\ Len(s) \in Nat /\ Len(m) \in Nat
        /\ p.off + bytes + chunk_left' = Len(m[p.chunk])
    BY <1>1, <2>1 DEF Pointer
  <2> HIDE DEF p
  <2> QED BY <1>1, <2>1, <2>2
<1> HIDE DEF p, c, o, n
<1>4. m[c] = mem[c] /\ c \in 1 .. Len(m) /\ o + i \in 1 .. Len(m[c])
      /\ i \in Nat /\ i <= n
  <2>1. i \in 1 .. n
    BY DEF n
  <2>2. c \in 1 .. Len(m) /\ m[c] = mem[c]
    BY <1>1, <1>2
  <2> QED BY <1>2, <2>1, <2>2
<1>5. ~(c = p.chunk /\ o + i > p.off /\ o + i <= p.off + Len(s))
  BY <1>1, <1>2, <1>4 DEF Pointer
<1>6. Copy(m, p, s)[c][o + i] = m[c][o + i]
  BY <1>1, <1>3, <1>4, <1>5, CopyFacts
<1> QED BY <1>4, <1>6 DEF p, c, o

LEMMA StepRefines ==
  IInv /\ IInv' /\ [Next]_vars => [AbstractHeap!Next]_View
<1> SUFFICES ASSUME IInv, IInv', [Next]_vars
             PROVE  [AbstractHeap!Next]_View
  OBVIOUS
<1>1. ViewOK
  BY ViewFacts
<1>2. ViewOK'
  BY ViewFacts, PTL
<1>3. allocs \in Seq(Allocation) /\ allocs' \in Seq(Allocation)
      /\ mem \in Seq(Seq(Byte)) /\ <<>> \in Seq(Byte) /\ Len(<<>>) = 0
  BY DEF IInv, TypeOK, Allocation
<1>4. ASSUME NEW bytes \in Sizes, Alloc(bytes)
      PROVE  AbstractHeap!Alloc
  <2>1. bytes \in Nat /\ Bump(bytes) /\ mem' \in MemoryWith(bytes)
    BY <1>4, FastAllocAssumption DEF Alloc
  <2>2. allocs' = Append(allocs, [ptr |-> Allocated(bytes), size |-> bytes])
    BY <1>4 DEF Alloc
  <2>3. Len(allocs') = Len(allocs) + 1
        /\ \A j \in DOMAIN allocs : j \in DOMAIN allocs' /\ allocs'[j] = allocs[j]
    BY <1>3, <2>2
  <2>4. \A j \in DOMAIN allocs : Contents(j)' = Contents(j)
    <3> TAKE j \in DOMAIN allocs
    <3>1. <<>> \in Seq(Byte) /\ Len(<<>>) <= bytes
      BY <1>3, <2>1
    <3>2. \A i \in 1 .. allocs[j].size :
            mem'[allocs[j].ptr.chunk][allocs[j].ptr.off + i]
              = mem[allocs[j].ptr.chunk][allocs[j].ptr.off + i]
      BY <2>1, <3>1, CutKeepsOthers
    <3> QED BY <2>3, <3>2, SameContents
  <2> QED BY <1>1, <1>2, <2>3, <2>4 DEF ViewOK, AbstractHeap!Alloc
<1>5. ASSUME NEW bytes \in Sizes, AllocFails(bytes)
      PROVE  UNCHANGED View
  BY <1>5 DEF AllocFails, View, Contents
<1>6. ASSUME NEW str \in Strings, StrDup(str)
      PROVE  AbstractHeap!Alloc
  <2> DEFINE bytes == Len(str)
  <2>1. str \in Seq(Byte) /\ bytes \in Nat /\ Bump(bytes) /\ Len(str) <= bytes
    BY <1>6, FastAllocAssumption DEF StrDup
  <2>2. PICK m \in MemoryWith(bytes) : mem' = Copy(m, Allocated(bytes), str)
    BY <1>6 DEF StrDup
  <2>3. allocs' = Append(allocs, [ptr |-> Allocated(bytes), size |-> bytes])
    BY <1>6 DEF StrDup
  <2> HIDE DEF bytes
  <2>4. Len(allocs') = Len(allocs) + 1
        /\ \A j \in DOMAIN allocs : j \in DOMAIN allocs' /\ allocs'[j] = allocs[j]
    BY <1>3, <2>3
  <2>5. \A j \in DOMAIN allocs : Contents(j)' = Contents(j)
    BY <2>1, <2>2, <2>4, CutKeepsOthers, SameContents
  <2> QED BY <1>1, <1>2, <2>4, <2>5 DEF ViewOK, AbstractHeap!Alloc
<1>7. ASSUME NEW k \in DOMAIN allocs, Write(k)
      PROVE  AbstractHeap!Write(k) /\ k \in DOMAIN View
  <2>1. PICK i \in 1 .. allocs[k].size, b \in Byte :
          mem' = [mem EXCEPT ![allocs[k].ptr.chunk][allocs[k].ptr.off + i] = b]
    BY <1>7 DEF Write
  <2>2. allocs' = allocs
    BY <1>7 DEF Write
  <2> DEFINE c == allocs[k].ptr.chunk
             o == allocs[k].ptr.off
             n == allocs[k].size
  <2>3. c \in 1 .. Len(mem) /\ o \in Nat /\ n \in Nat /\ o + n <= Len(mem[c])
        /\ mem[c] \in Seq(Byte)
    BY AllocFacts
  <2>4. /\ \A e \in 1 .. Len(mem) : e # c => mem'[e] = mem[e]
        /\ \A x \in 1 .. Len(mem[c]) : mem'[c][x] = IF x = o + i THEN b ELSE mem[c][x]
    BY <1>3, <2>1, <2>3
  <2>5. \A j \in DOMAIN allocs \ {k} : Contents(j)' = Contents(j)
    <3> TAKE j \in DOMAIN allocs \ {k}
    <3> DEFINE cj == allocs[j].ptr.chunk
               oj == allocs[j].ptr.off
               nj == allocs[j].size
    <3>1. cj \in 1 .. Len(mem) /\ oj \in Nat /\ nj \in Nat /\ oj + nj <= Len(mem[cj])
          /\ mem[cj] \in Seq(Byte)
      BY AllocFacts
    <3>2. o + i \in Span(allocs[k]) /\ o + i \in Nat
      <4>1. Span(allocs[k]) = o + 1 .. o + n /\ i \in 1 .. n
        BY DEF Span
      <4> HIDE DEF o, n
      <4> QED BY <2>3, <4>1
    <3>3. \A x \in 1 .. nj : oj + x \in Span(allocs[j])
      <4>1. Span(allocs[j]) = oj + 1 .. oj + nj
        BY DEF Span
      <4> HIDE DEF oj, nj
      <4> QED BY <3>1, <4>1
    <3>4. \A x \in 1 .. nj : cj = c => oj + x # o + i
      BY <3>2, <3>3 DEF IInv, NoOverlap
    <3>5. \A x \in 1 .. nj : oj + x \in 1 .. Len(mem[cj])
      BY <3>1, SMTT(60)
    <3> HIDE DEF c, o, n, cj, oj, nj
    <3>6. \A x \in 1 .. nj : mem'[cj][oj + x] = mem[cj][oj + x]
      BY <2>4, <3>1, <3>4, <3>5
    <3> QED BY <2>2, <3>6, SameContents DEF cj, oj, nj
  <2>6. Contents(k)' = [Contents(k) EXCEPT ![i] = b]
    <3>1. Contents(k) = [x \in 1 .. n |-> mem[c][o + x]]
      BY DEF Contents
    <3>2. Contents(k)' = [x \in 1 .. n |-> mem'[c][o + x]]
      BY <2>2 DEF Contents
    <3>3. i \in 1 .. n
      OBVIOUS
    <3> HIDE DEF c, o, n
    <3>4. \A x \in 1 .. n : mem'[c][o + x] = IF x = i THEN b ELSE mem[c][o + x]
      BY <2>3, <2>4, <3>3
    <3> QED BY <3>1, <3>2, <3>4
  <2>7. View' = [View EXCEPT ![k] = [View[k] EXCEPT ![i] = b]]
    <3>1. View' = [j \in DOMAIN allocs |-> Contents(j)']
      BY <2>2 DEF View
    <3>2. View = [j \in DOMAIN allocs |-> Contents(j)]
      BY DEF View
    <3> QED BY <2>5, <2>6, <3>1, <3>2
  <2>8. i \in DOMAIN View[k]
    BY <1>1 DEF ViewOK
  <2> QED BY <1>1, <2>7, <2>8 DEF AbstractHeap!Write, ViewOK
<1>8. ASSUME NEW k \in DOMAIN allocs, NEW bytes \in Sizes,
             Shrink(k, bytes) \/ GrowInPlace(k, bytes)
      PROVE  AbstractHeap!Resize(k) /\ k \in DOMAIN View
  <2>1. mem' = mem /\ allocs' = [allocs EXCEPT ![k].size = bytes]
    BY <1>8 DEF Shrink, GrowInPlace
  <2>2. DOMAIN allocs' = DOMAIN allocs
        /\ \A j \in DOMAIN allocs \ {k} : allocs'[j] = allocs[j]
    BY <1>3, <2>1
  <2>3. allocs'[k].ptr = allocs[k].ptr
    BY <1>3, <2>1, AllocFacts DEF Allocation
  <2>4. \A j \in DOMAIN allocs \ {k} : Contents(j)' = Contents(j)
    BY <2>1, <2>2, SameContents
  <2>5. \A i \in DOMAIN Contents(k) \cap DOMAIN Contents(k)' :
          Contents(k)'[i] = Contents(k)[i]
    BY <2>1, <2>3 DEF Contents
  <2> QED BY <1>1, <1>2, <2>2, <2>4, <2>5 DEF ViewOK, AbstractHeap!Resize
<1>9. ASSUME NEW k \in DOMAIN allocs, NEW bytes \in Sizes, Move(k, bytes)
      PROVE  AbstractHeap!Resize(k) /\ k \in DOMAIN View
  <2> DEFINE p == Allocated(bytes)
             s == Contents(k)
  <2>1. /\ bytes \in Nat /\ bytes > allocs[k].size /\ Bump(bytes)
        /\ allocs' = [allocs EXCEPT ![k] = [ptr |-> p, size |-> bytes]]
    BY <1>9, FastAllocAssumption DEF Move
  <2>2. PICK m \in MemoryWith(bytes) : mem' = Copy(m, p, s)
    BY <1>9 DEF Move
  <2>3. s \in Seq(Byte) /\ Len(s) = allocs[k].size /\ Len(s) <= bytes
        /\ DOMAIN s = 1 .. Len(s)
    BY <2>1, ContentsFacts, AllocFacts
  <2>4. DOMAIN allocs' = DOMAIN allocs /\ allocs'[k] = [ptr |-> p, size |-> bytes]
        /\ \A j \in DOMAIN allocs \ {k} : allocs'[j] = allocs[j]
    BY <1>3, <2>1
  <2>5. \A j \in DOMAIN allocs \ {k} : Contents(j)' = Contents(j)
    BY <2>1, <2>2, <2>3, <2>4, CutKeepsOthers, SameContents
  <2>6. \A i \in 1 .. Len(s) : mem'[p.chunk][p.off + i] = s[i]
    <3>1. m \in Seq(Seq(Byte)) /\ p \in Pointer
      BY <2>1, CutFacts
    <3>2. p.chunk \in 1 .. Len(m) /\ p.off + Len(s) <= Len(m[p.chunk])
      BY <2>1, <2>2, <2>3, CutAndCopy
    <3> QED BY <2>2, <2>3, <3>1, <3>2, CopyFacts
  <2>7. Contents(k)' = [i \in 1 .. bytes |-> mem'[p.chunk][p.off + i]]
    BY <2>4 DEF Contents
  <2> HIDE DEF p, s
  <2>8. \A i \in DOMAIN s \cap DOMAIN Contents(k)' : Contents(k)'[i] = s[i]
    BY <2>3, <2>6, <2>7
  <2> QED BY <1>1, <1>2, <2>4, <2>5, <2>8 DEF ViewOK, AbstractHeap!Resize, s
<1>10. CASE UNCHANGED vars
  BY <1>10 DEF vars, View, Contents
<1>11. DOMAIN View = DOMAIN allocs
  BY DEF View
<1> QED BY <1>4, <1>5, <1>6, <1>7, <1>8, <1>9, <1>10, <1>11
        DEF Next, AbstractHeap!Next

(* To the rest of the compiler the allocator is a heap of separate blocks, *)
(* whatever the sizes: cutting, growing in place and moving change no byte *)
(* of any other allocation and lose none of their own.                     *)
THEOREM ImplementsHeap == Spec => HeapSpec
<1>1. Init => AbstractHeap!Init
  BY DEF Init, AbstractHeap!Init, View
<1> QED BY <1>1, InitIInv, StepIInv, StepRefines, PTL
        DEF Spec, HeapSpec, AbstractHeap!Spec

=============================================================================
