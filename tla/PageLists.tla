----------------------------- MODULE PageLists ------------------------------
(***************************************************************************)
(* Pages that the host donates for a guest and for its vCPU, from the list *)
(* in which they are locked to the container that is built in them and     *)
(* back.  Lists are made of links in the page tracker, which all CPUs      *)
(* share; handlers may give up at every step.                              *)
(***************************************************************************)
EXTENDS Naturals, Sequences, FiniteSets, SequencesExt
CONSTANTS
    Cpu,
    Page,         \* addresses of the pages, natural numbers above 0
    RootPages, RootAlign,  \* pages of a guest's root table and their alignment
    GuestPages,   \* GuestVm::required_pages()
    VcpuPages     \* VmCpus::required_state_pages_per_vcpu()
VARIABLES
    state,        \* page -> Converted, Locked (ConvertedLocked) or VmState
    link,         \* page -> the page it is linked to, 0 for none
    lists,        \* CPU -> the lists that its handler has
    runs,         \* CPU -> the sequential pages that its handler has
    pc,           \* CPU -> where its handler is
    guest,        \* the guest in the table, with its reference count and its pages
    refs,         \* the CPUs whose handler has a reference to the guest
    panicked      \* an unwrap() failed

vars == <<state, link, lists, runs, pc, guest, refs, panicked>>

Slot == {"root", "box", "assigned"}
Piece == {"vcpu", "root", "box"}
NewList == [head |-> 0, tail |-> 0, len |-> 0]
NoRun == [addr |-> 0, count |-> 0]
NoGuest == [rc |-> 0, pages |-> [p \in Piece |-> NoRun]]

Init == /\ state = [p \in Page |-> "Converted"]
        /\ link = [p \in Page |-> 0]
        /\ lists = [c \in Cpu |-> [s \in Slot |-> NewList]]
        /\ runs = [c \in Cpu |-> [p \in Piece |-> NoRun]]
        /\ pc = [c \in Cpu |-> "idle"]
        /\ guest = NoGuest /\ refs = {} /\ panicked = FALSE

-----------------------------------------------------------------------------
(* Links and lists.  An operation has the links and the list as its input   *)
(* and gives those after it, and whether it succeeded.                      *)
link_pages(ln, a, b) ==
    IF ln[b] # 0 \/ ln[a] # 0 THEN [ok |-> FALSE, link |-> ln]
    ELSE [ok |-> TRUE, link |-> [ln EXCEPT ![a] = b]]
push(ln, l, page) ==
    LET linked == IF l.tail = 0 THEN [ok |-> TRUE, link |-> ln] ELSE link_pages(ln, l.tail, page)
    IN [ok |-> linked.ok, link |-> linked.link,
        list |-> IF ~linked.ok THEN l
                 ELSE [head |-> IF l.tail = 0 THEN page ELSE l.head, tail |-> page, len |-> l.len + 1]]
unlink_page(ln, page) == [ln EXCEPT ![page] = 0]
pop(ln, l) ==
    LET head == ln[l.head]
    IN [page |-> l.head, link |-> unlink_page(ln, l.head),
        list |-> [head |-> head, tail |-> IF head = 0 THEN 0 ELSE l.tail, len |-> l.len - 1]]

\* The pages of a list in order, by its links.
Chain(ln, l) ==
    LET at[n \in 0..l.len] == IF n <= 1 THEN l.head
                              ELSE LET prev == at[n-1] IN IF prev = 0 THEN 0 ELSE ln[prev]
    IN [n \in 1..l.len |-> at[n]]
is_contiguous(ln, l) ==
    LET pages == Chain(ln, l)
    IN \A n \in 1..(l.len - 1) : pages[n+1] = pages[n] + 1

\* SequentialPages::from_pages(): takes the pages from the list while they follow
\* each other.
is_sequential(pages) == \A n \in 1..(Len(pages) - 1) : pages[n+1] = pages[n] + 1
from_pages(ln, l) ==
    LET pages == Chain(ln, l)
    IN [ok |-> pages # <<>> /\ is_sequential(pages),
        run |-> [addr |-> l.head, count |-> l.len],
        link |-> [p \in Page |-> IF p \in ToSet(pages) THEN 0 ELSE ln[p]]]

-----------------------------------------------------------------------------
Goto(c, to) == pc' = [pc EXCEPT ![c] = to]
SetList(c, s, l) == lists' = [lists EXCEPT ![c][s] = l]
Panic == panicked' = TRUE /\ UNCHANGED <<state, link, lists, runs, pc, guest, refs>>

\* get_converted_pages(): under the lock of the page table the pages are checked,
\* locked and pushed to a list, in the order of the guest's addresses.
get_converted_pages(c, slot, pages, next) ==
    LET Push(acc, p) == LET r == push(acc.link, acc.list, p)
                        IN [link |-> r.link, list |-> r.list, ok |-> acc.ok /\ r.ok]
        all == FoldLeft(Push, [link |-> link, list |-> NewList, ok |-> TRUE], pages)
    IN IF \E p \in ToSet(pages) : state[p] # "Converted"
       THEN Goto(c, "give up") /\ UNCHANGED <<state, link, lists, runs, guest, refs, panicked>>
       ELSE IF ~all.ok THEN Panic
       ELSE /\ state' = [p \in Page |-> IF p \in ToSet(pages) THEN "Locked" ELSE state[p]]
            /\ link' = all.link /\ SetList(c, slot, all.list)
            /\ Goto(c, next) /\ UNCHANGED <<runs, guest, refs, panicked>>

Donations(n) == {s \in [1..n -> Page] : \A i, j \in 1..n : i # j => s[i] # s[j]}

\* add_guest(): the root table's pages, then the pages of the GuestVm.
GetRoot(c) == pc[c] = "idle" /\ \E s \in Donations(RootPages) : get_converted_pages(c, "root", s, "check root")
CheckRoot(c) ==
    /\ pc[c] = "check root"
    /\ LET l == lists[c]["root"]
       IN Goto(c, IF is_contiguous(link, l) /\ l.head % RootAlign = 0 THEN "get box" ELSE "give up")
    /\ UNCHANGED <<state, link, lists, runs, guest, refs, panicked>>
GetBox(c) == pc[c] = "get box" /\ \E s \in Donations(GuestPages) : get_converted_pages(c, "box", s, "check box")
\* add_active_guest() fails when there is no room for the new id.
CheckBox(c) ==
    /\ pc[c] = "check box"
    /\ \/ is_contiguous(link, lists[c]["box"]) /\ Goto(c, "assign root")
       \/ Goto(c, "give up")
    /\ UNCHANGED <<state, link, lists, runs, guest, refs, panicked>>

\* assign_pages(): a page is taken from the locked list, assigned and put on
\* the list of assigned pages.
assign_page(c, slot) ==
    LET a == pop(link, lists[c][slot])
        b == push(a.link, lists[c]["assigned"], a.page)
    IN IF state[a.page] # "Locked" \/ ~b.ok THEN Panic
       ELSE /\ state' = [state EXCEPT ![a.page] = "VmState"] /\ link' = b.link
            /\ lists' = [lists EXCEPT ![c][slot] = a.list, ![c]["assigned"] = b.list]
            /\ UNCHANGED <<runs, pc, guest, refs, panicked>>
\* ... until the list is empty; the assigned pages become sequential pages.
sequential(c, part, next) ==
    LET r == from_pages(link, lists[c]["assigned"])
    IN IF ~r.ok THEN Panic
       ELSE /\ link' = r.link /\ SetList(c, "assigned", NewList)
            /\ runs' = [runs EXCEPT ![c][part] = r.run]
            /\ Goto(c, next) /\ UNCHANGED <<state, guest, refs, panicked>>
assign_pages(c, slot, part, next) ==
    IF lists[c][slot].len > 0 THEN assign_page(c, slot) ELSE sequential(c, part, next)

AssignRoot(c) == pc[c] = "assign root" /\ assign_pages(c, "root", "root", "new vm")
\* Vm::new() may fail.
NewVm(c) == /\ pc[c] = "new vm" /\ \E to \in {"assign box", "give up"} : Goto(c, to)
            /\ UNCHANGED <<state, link, lists, runs, guest, refs, panicked>>
AssignBox(c) == pc[c] = "assign box" /\ assign_pages(c, "box", "box", "add")
\* PageArc::new_with(): one reference, and the pages it keeps.
new_guest(pages) == [rc |-> 1, pages |-> pages]
\* GuestVm::new() and Guests::add(): the new guest is dropped when the table is full.
AddGuest(c) ==
    /\ pc[c] = "add"
    /\ IF guest.rc = 0
       THEN /\ guest' = new_guest(runs[c])
            /\ runs' = [runs EXCEPT ![c] = [p \in Piece |-> NoRun]] /\ Goto(c, "idle")
       ELSE Goto(c, "drop guest") /\ UNCHANGED <<guest, runs>>
    /\ UNCHANGED <<state, link, lists, refs, panicked>>

-----------------------------------------------------------------------------
\* guest_add_vcpu(): a reference to the guest is held until the call returns.
GetGuest(c) ==
    /\ pc[c] = "idle" /\ guest.rc > 0
    /\ guest' = [guest EXCEPT !.rc = @ + 1] /\ refs' = refs \cup {c} /\ Goto(c, "get vcpu")
    /\ UNCHANGED <<state, link, lists, runs, panicked>>
GetVcpu(c) == pc[c] = "get vcpu" /\ \E s \in Donations(VcpuPages) : get_converted_pages(c, "box", s, "check vcpu")
CheckVcpu(c) ==
    /\ pc[c] = "check vcpu"
    /\ Goto(c, IF is_contiguous(link, lists[c]["box"]) THEN "assign vcpu" ELSE "give up")
    /\ UNCHANGED <<state, link, lists, runs, guest, refs, panicked>>
AssignVcpu(c) == pc[c] = "assign vcpu" /\ assign_pages(c, "box", "vcpu", "add vcpu")
\* VmCpus::add_vcpu(): the box of a vCPU that exists already is dropped.
AddVcpu(c) ==
    /\ pc[c] = "add vcpu"
    /\ IF guest.pages["vcpu"].count = 0
       THEN /\ guest' = [guest EXCEPT !.pages["vcpu"] = runs[c]["vcpu"]]
            /\ runs' = [runs EXCEPT ![c]["vcpu"] = NoRun]
       ELSE UNCHANGED <<guest, runs>>
    /\ Goto(c, "give up") /\ UNCHANGED <<state, link, lists, refs, panicked>>

\* Guests::remove(): the last reference is taken out of the table.
RemoveGuest(c) ==
    /\ pc[c] = "idle" /\ guest.rc = 1
    /\ runs' = [runs EXCEPT ![c] = guest.pages] /\ guest' = NoGuest
    /\ Goto(c, "drop guest") /\ UNCHANGED <<state, link, lists, refs, panicked>>

-----------------------------------------------------------------------------
\* SeqPageIter: what is left of a run after its first page.
next_page(r) == IF r.count = 1 THEN NoRun ELSE [addr |-> r.addr + 1, count |-> r.count - 1]
\* A page of a run goes back to its previous owner: release_page(), which is
\* the end of a PageBox, of the root table and of a PageArc.
release(c, part) ==
    LET r == runs[c][part]
    IN IF state[r.addr] # "VmState" THEN Panic
       ELSE /\ state' = [state EXCEPT ![r.addr] = "Converted"]
            /\ runs' = [runs EXCEPT ![c][part] = next_page(r)]
            /\ UNCHANGED <<link, lists, pc, guest, refs, panicked>>
\* Drop for LockedPageList: a page is taken off the list and unlocked.
drop_unlinks(c, slot) ==
    LET a == pop(link, lists[c][slot])
    IN /\ link' = a.link /\ SetList(c, slot, a.list)
       /\ UNCHANGED <<state, runs, pc, guest, refs, panicked>>
drop_locked(c, slot) ==
    LET a == pop(link, lists[c][slot])
    IN IF state[a.page] # "Locked" THEN Panic
       ELSE /\ state' = [state EXCEPT ![a.page] = "Converted"]
            /\ link' = a.link /\ SetList(c, slot, a.list)
            /\ UNCHANGED <<runs, pc, guest, refs, panicked>>

\* Drop for PageArc: the data it holds is dropped first, then its own pages.
DropGuest(c) ==
    /\ pc[c] = "drop guest"
    /\ CASE runs[c]["root"].count > 0 -> release(c, "root")
         [] runs[c]["root"].count = 0 /\ runs[c]["vcpu"].count > 0 -> release(c, "vcpu")
         [] runs[c]["root"].count = 0 /\ runs[c]["vcpu"].count = 0 /\ runs[c]["box"].count > 0 -> release(c, "box")
         [] OTHER -> Goto(c, "idle") /\ UNCHANGED <<state, link, lists, runs, guest, refs, panicked>>

\* Drop for PageArc, when the handler has a reference: the last one drops the guest.
put(c) ==
    /\ refs' = refs \ {c}
    /\ IF c \notin refs THEN Goto(c, "idle") /\ UNCHANGED <<guest, runs>>
       ELSE IF guest.rc > 1
       THEN guest' = [guest EXCEPT !.rc = @ - 1] /\ Goto(c, "idle") /\ UNCHANGED runs
       ELSE guest' = NoGuest /\ runs' = [runs EXCEPT ![c] = guest.pages] /\ Goto(c, "drop guest")
    /\ UNCHANGED <<state, link, lists, panicked>>

\* The handler returns, and what it still has is dropped: the pages of a root
\* table or of a box, and the lists of locked pages, the last one first.
Return(c) ==
    /\ pc[c] = "give up"
    /\ LET held == {p \in Piece : runs[c][p].count > 0}
       IN IF held # {} THEN release(c, CHOOSE p \in held : TRUE)
          ELSE IF lists[c]["box"].len > 0 THEN drop_locked(c, "box")
          ELSE IF lists[c]["root"].len > 0 THEN drop_locked(c, "root")
          ELSE put(c)

Next == \E c \in Cpu :
    \/ GetRoot(c) \/ CheckRoot(c) \/ GetBox(c) \/ CheckBox(c) \/ AssignRoot(c) \/ NewVm(c)
    \/ AssignBox(c) \/ AddGuest(c) \/ GetGuest(c) \/ GetVcpu(c) \/ CheckVcpu(c) \/ AssignVcpu(c)
    \/ AddVcpu(c) \/ RemoveGuest(c) \/ DropGuest(c) \/ Return(c)
Spec == Init /\ [][Next]_vars

-----------------------------------------------------------------------------
AllLists == {<<c, s>> : c \in Cpu, s \in Slot}
On(x) == ToSet(Chain(link, lists[x[1]][x[2]]))
In(r) == {r.addr + k : k \in 0..(r.count - 1)}
Run(c, p) == In(runs[c][p])

\* The links of the page tracker are exactly the lists: every list goes from its
\* head over as many pages as it counts to its tail, and no page that is not on
\* a list, or is the last of one, has a link.
LinksAreLists ==
    /\ \A x \in AllLists :
         LET l == lists[x[1]][x[2]]
         IN /\ (l.len = 0) = (l.head = 0) /\ (l.len = 0) = (l.tail = 0)
            /\ 0 \notin On(x) /\ Cardinality(On(x)) = l.len
            /\ l.len > 0 => Last(Chain(link, l)) = l.tail
    /\ \A p \in Page : link[p] # 0 =>
         \E x \in AllLists : p \in On(x) /\ p # lists[x[1]][x[2]].tail

\* No page is lost and none is used twice, whichever step gives up: a page is
\* locked when it is on one list of locked pages, in use when it is in one list
\* of assigned pages, one run of a handler or the guest, and back with its owner
\* otherwise.
PagesAccounted ==
    \A p \in Page :
        LET locked == {x \in AllLists : x[2] # "assigned" /\ p \in On(x)}
            used == {x \in AllLists : x[2] = "assigned" /\ p \in On(x)}
                    \cup {<<c, q>> \in Cpu \X Piece : p \in Run(c, q)}
            owned == {q \in Piece : p \in In(guest.pages[q])}
        IN /\ Cardinality(locked) = IF state[p] = "Locked" THEN 1 ELSE 0
           /\ Cardinality(used) + Cardinality(owned) = IF state[p] = "VmState" THEN 1 ELSE 0

\* The unwrap()s hold whose comments say so: pages that were locked can be
\* assigned and linked, a list that was contiguous still is, and what was
\* assigned can be released.
UnwrapsHold == ~panicked
=============================================================================
