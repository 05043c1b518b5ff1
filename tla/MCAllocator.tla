----------------------------- MODULE MCAllocator -----------------------------
(* Two symbols bought with a capital that is cut twice in one session.       *)
EXTENDS Allocator

BothHeld == {<<<<2, 2>>>>}
Shrinking == {1, 2, 3}
EntryPercent == <<50, 75, 100>>
=============================================================================
