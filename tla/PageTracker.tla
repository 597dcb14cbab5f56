----------------------------- MODULE PageTracker -----------------------------
(***************************************************************************)
(* The page tracker, page-tracking/src/page_tracker.rs: the operations of  *)
(* PageTracker on the PageInfo of a page, each one atomic because it runs  *)
(* under the tracker's mutex.  ps is the page map, a function from page to *)
(* PageInfo.  As in PageInfo, an operation that may fail is a predicate    *)
(* Can... and the page map it leaves behind.                               *)
(***************************************************************************)
EXTENDS PageInfo

\* is_owned(), is_mapped_page(), is_shared_page(), is_shareable_page(),
\* is_converted_page() and is_unassignable_page().
is_owned(ps, p, owner) == Owner(ps[p]) = owner

\* Mutant: a shared page passes for a mapped one.
is_mapped_page_any(ps, p, owner, mem) ==
    is_owned(ps, p, owner) /\ ps[p].mem = mem /\ ps[p].state \in {"Mapped", "Shared"}
is_mapped_page(ps, p, owner, mem) ==
    is_owned(ps, p, owner) /\ ps[p].mem = mem /\ ps[p].state = "Mapped"

is_shared_page(ps, p, mem) == ps[p].mem = mem /\ IsShared(ps[p])

is_shareable_page(ps, p, owner, mem) ==
    is_owned(ps, p, owner) /\ ps[p].mem = mem /\ IsShareable(ps[p])

is_converted_page(ps, p, owner, mem, version) ==
    /\ is_owned(ps, p, owner)
    /\ ps[p].mem = mem
    /\ ps[p].state = "Converted" \/ IsConvertible(ps[p], version)

is_unassignable_page(ps, p, owner, mem, version) ==
    /\ is_owned(ps, p, owner)
    /\ ps[p].mem = mem
    /\ IsUnassignable(ps[p], version)

-----------------------------------------------------------------------------
\* convert_page(): the invalidated page starts conversion at version.
convert_page(ps, p, version) == [ps EXCEPT ![p] = BeginConversion(@, version)]

\* get_converted_page() on each page of S: conversion is completed first where it
\* is still pending, then the page is locked.  The caller has is_converted_page.
get_converted_pages(ps, S) ==
    [p \in DOMAIN ps |-> IF p \in S THEN LockForAssignment(ps[p]) ELSE ps[p]]

\* assign_page_for_mapping() and assign_page_for_internal_state(), with
\* st = "Mapped" and st = "VmState".
can_assign_page(ps, p, owner, st) == CanAssign(ps[p], owner, st)
assign_page(ps, p, owner, st) == [ps EXCEPT ![p] = Assign(@, owner, st)]

\* unlock_page() and reclaim_page().
unlock_page(ps, p) == [ps EXCEPT ![p] = Unlock(@)]
\* Mutant: the page is unlocked instead of reclaimed.
reclaim_page_unlocks(ps, p) == unlock_page(ps, p)
reclaim_page(ps, p) == [ps EXCEPT ![p] = Reclaim(@)]

\* share_page() on each page of S.
share_pages(ps, S) ==
    [p \in DOMAIN ps |-> IF p \in S THEN Share(ps[p]) ELSE ps[p]]

\* release_page_by_addr(): a page of another owner may be released only if it is
\* shared, in which case it loses a reference.
can_release_page_by_addr(ps, p, owner) ==
    /\ is_owned(ps, p, owner) \/ IsShared(ps[p])
    /\ CanRelease(ps[p])
release_page_by_addr(ps, p) == [ps EXCEPT ![p] = Release(@)]

\* unassign_page_begin() and unassign_page_complete().
unassign_page_begin(ps, p, version) == [ps EXCEPT ![p] = BeginUnassignment(@, version)]

unassign_page_complete(ps, p) == [ps EXCEPT ![p] = CompleteUnassignment(@)]

=============================================================================
