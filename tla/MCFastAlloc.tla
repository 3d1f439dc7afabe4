---------------------------- MODULE MCFastAlloc ----------------------------
(***************************************************************************)
(* The allocator with chunks of a few bytes: requests that fit, that fill  *)
(* a chunk exactly, that need a new one and that are larger than a chunk.  *)
(***************************************************************************)
EXTENDS FastAlloc

McStrings == {<<1>>}

=============================================================================
