-------------------------------- MODULE Heap --------------------------------
(***************************************************************************)
(* What the users of the compiler's allocator rely on: every allocation is *)
(* a block of bytes of its own.  It changes only when its owner writes to  *)
(* it or resizes it, and resizing keeps the bytes that fit.  New bytes are *)
(* not initialised.                                                        *)
(***************************************************************************)
EXTENDS Naturals, Sequences

CONSTANT Byte

VARIABLE blocks     (* the contents of every allocation made so far *)

Init == blocks = <<>>

Alloc ==
  /\ Len(blocks') = Len(blocks) + 1
  /\ blocks' \in Seq(Seq(Byte))
  /\ \A k \in DOMAIN blocks : blocks'[k] = blocks[k]

Write(k) ==
  \E i \in DOMAIN blocks[k], b \in Byte : blocks' = [blocks EXCEPT ![k][i] = b]

Resize(k) ==
  /\ DOMAIN blocks' = DOMAIN blocks
  /\ blocks' \in Seq(Seq(Byte))
  /\ \A j \in DOMAIN blocks \ {k} : blocks'[j] = blocks[j]
  /\ \A i \in DOMAIN blocks[k] \cap DOMAIN blocks'[k] :
       blocks'[k][i] = blocks[k][i]

Next == Alloc \/ \E k \in DOMAIN blocks : Write(k) \/ Resize(k)

Spec == Init /\ [][Next]_blocks

=============================================================================
