----------------------------- MODULE TlbTracker -----------------------------
(***************************************************************************)
(* The TLB version tracker of an address space, src/vm_pages.rs.  It       *)
(* counts the CPUs that have the address space active at the current       *)
(* version and at the one before it.  A fence moves the current version    *)
(* on, and is complete when no CPU is left at the previous one.  t is the  *)
(* TlbTrackerInner record, every operation one critical section of its     *)
(* mutex.                                                                  *)
(***************************************************************************)
EXTENDS Integers

\* The None of an Option<TlbVersion>, and of prev.
NoVersion == -1
NoPrev == [version |-> NoVersion, count |-> 0]

TlbTrackerType ==
    [current : [version : Nat, count : Nat],
     prev    : {NoPrev} \cup [version : Nat, count : Nat]]

TlbTrackerNew == [current |-> [version |-> 0, count |-> 0], prev |-> NoPrev]

current_version(t) == t.current.version

\* min_version(): the oldest version some CPU still uses.
min_version(t) ==
    IF t.prev.count # 0 THEN t.prev.version ELSE t.current.version

\* increment(): refused, with TlbFenceInProgress, while a CPU is still at the
\* previous version; its result is true when no CPU was at the current one.
CanIncrement(t) == t.prev.count = 0
Increment(t) ==
    [current |-> [version |-> t.current.version + 1, count |-> 0],
     prev    |-> IF t.current.count # 0 THEN t.current ELSE NoPrev]
IncrementCompletesFlush(t) == t.current.count = 0

\* get_version(): a reference to the current version.
get_version(t) == [t EXCEPT !.current.count = @ + 1]

\* put_version(): fails for a version that is neither current nor previous, or
\* that has no reference; its result is true when the previous version just lost
\* its last reference.
CanPutVersion(t, version) ==
    \/ t.current.version = version /\ t.current.count > 0
    \/ /\ t.current.version # version
       /\ t.prev.version = version /\ t.prev.count > 0
PutCompletesFlush(t, version) ==
    /\ t.current.version # version
    /\ t.prev.version = version /\ t.prev.count = 1
put_version(t, version) ==
    IF t.current.version = version THEN [t EXCEPT !.current.count = @ - 1]
    ELSE IF PutCompletesFlush(t, version) THEN [t EXCEPT !.prev = NoPrev]
    ELSE [t EXCEPT !.prev.count = @ - 1]

=============================================================================
