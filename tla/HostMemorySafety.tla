-------------------------- MODULE HostMemorySafety --------------------------
(***************************************************************************)
(* The safety theorems of HostMemory, for every value of the constants.    *)
(***************************************************************************)
EXTENDS HostMemoryProofs

\* The pcs at which an operation relies on the state of the pages it works on.
Relies == {"invalid", "locked", "remap"}
HoldsList == {"locked", "remap"}

\* A step of CPU c that leaves alone the pages other CPUs rely on preserves OpInv.
LEMMA OpFrame ==
    ASSUME OpInv, NEW c \in Cpu,
           \A d \in Cpu \ {c} : pc'[d] = pc[d] /\ arg'[d] = arg[d],
           \A d \in Cpu \ {c} : pc[d] \in Relies =>
              \A q \in arg[d] : pages'[q].state = pages[q].state /\ pte'[q] = pte[q],
           \A q \in arg'[c] :
              /\ pc'[c] = "invalid" => pte'[q] = "Leaf" /\ pages'[q].state = "Mapped"
              /\ pc'[c] \in HoldsList => pages'[q].state = "ConvertedLocked"
              /\ pc'[c] = "locked" => pte'[q] = "Invalidated"
              /\ pc'[c] = "remap" => pte'[q] = "LockedUnmapped",
           pc'[c] = "invalid" <=> c \in ptLock',
           \A d \in Cpu \ {c} : d \in ptLock' <=> d \in ptLock,
           ptLock' \subseteq Cpu,
           \A d \in Cpu \ {c} : pc'[c] = "invalid" => d \notin ptLock,
           \A d \in Cpu \ {c} : pc'[c] \in HoldsList /\ pc[d] \in HoldsList =>
              arg'[c] \cap arg[d] = {},
           \A p \in Page : pages'[p].state = "ConvertedLocked" =>
              \/ pc'[c] \in HoldsList /\ p \in arg'[c]
              \/ /\ pages[p].state = "ConvertedLocked"
                 /\ ~(pc[c] \in HoldsList /\ p \in arg[c])
    PROVE  OpInv'
<1>1. ASSUME NEW d \in Cpu, NEW q \in arg'[d]
      PROVE  /\ pc'[d] = "invalid" => pte'[q] = "Leaf" /\ pages'[q].state = "Mapped"
             /\ pc'[d] \in HoldsList => pages'[q].state = "ConvertedLocked"
             /\ pc'[d] = "locked" => pte'[q] = "Invalidated"
             /\ pc'[d] = "remap" => pte'[q] = "LockedUnmapped"
  <2>1. CASE d = c
    BY <1>1, <2>1
  <2>2. CASE d # c
    BY <1>1, <2>2 DEF OpInv, Relies, HoldsList
  <2>. QED
    BY <2>1, <2>2
<1>2. \A d \in Cpu : pc'[d] = "invalid" <=> d \in ptLock'
  BY DEF OpInv
<1>3. \A d, e \in ptLock' : d = e
  BY DEF OpInv
<1>4. ASSUME NEW d \in Cpu, NEW e \in Cpu, pc'[d] \in HoldsList, pc'[e] \in HoldsList,
             arg'[d] \cap arg'[e] # {}
      PROVE  d = e
  <2>1. CASE d # c /\ e # c
    BY <1>4, <2>1 DEF OpInv, HoldsList
  <2>2. CASE d = c \/ e = c
    BY <1>4, <2>2
  <2>. QED
    BY <2>1, <2>2
<1>5. ASSUME NEW p \in Page, pages'[p].state = "ConvertedLocked"
      PROVE  \E d \in Cpu : pc'[d] \in HoldsList /\ p \in arg'[d]
  <2>1. CASE pc'[c] \in HoldsList /\ p \in arg'[c]
    BY <2>1
  <2>2. CASE pages[p].state = "ConvertedLocked" /\ ~(pc[c] \in HoldsList /\ p \in arg[c])
    <3>1. PICK d \in Cpu : pc[d] \in HoldsList /\ p \in arg[d]
      BY <2>2 DEF OpInv, HoldsList
    <3>. QED
      BY <2>2, <3>1
  <2>. QED
    BY <1>5, <2>1, <2>2
<1>. QED
  BY <1>1, <1>2, <1>3, <1>4, <1>5 DEF OpInv, HoldsList

\* A step that changes neither a pc, an operand nor the lock, and of the pages only
\* some that no operation relies on, preserves OpInv.
LEMMA OpFrameOther ==
    ASSUME OpInv, UNCHANGED <<pc, arg, ptLock>>,
           \A d \in Cpu : pc[d] \in Relies =>
              \A q \in arg[d] : pages'[q].state = pages[q].state /\ pte'[q] = pte[q],
           \A p \in Page : pages'[p].state = "ConvertedLocked" =>
              pages[p].state = "ConvertedLocked"
    PROVE  OpInv'
<1>1. ASSUME NEW d \in Cpu, NEW q \in arg[d]
      PROVE  /\ pc[d] = "invalid" => pte'[q] = "Leaf" /\ pages'[q].state = "Mapped"
             /\ pc[d] \in HoldsList => pages'[q].state = "ConvertedLocked"
             /\ pc[d] = "locked" => pte'[q] = "Invalidated"
             /\ pc[d] = "remap" => pte'[q] = "LockedUnmapped"
  BY <1>1 DEF OpInv, Relies, HoldsList
<1>. QED
  BY <1>1 DEF OpInv, HoldsList

\* How an operation ends or goes on, in terms of its pc and of the pages left to it.
LEMMA TreatedFields ==
    ASSUME TypeOK, NEW c \in Cpu, NEW p \in Page, Treated(c, p)
    PROVE  /\ \A d \in Cpu \ {c} : pc'[d] = pc[d] /\ arg'[d] = arg[d]
           /\ arg[c] = {p} => pc'[c] = "host" /\ arg'[c] = {}
           /\ arg[c] # {p} => pc'[c] = pc[c] /\ arg'[c] = arg[c] \ {p}
BY DEF TypeOK, Treated, Return, Goto

\* What operations know of their pages is preserved.
LEMMA OpStep ==
    ASSUME IInv, [Next]_vars
    PROVE  OpInv'
<1>0. TypeOK /\ PageInv /\ OpInv /\ SharedCount
  BY DEF IInv
<1>1. /\ \A q \in Page : pages[q] \in PageInfoType
      /\ pages \in [Page -> PageInfoType]
      /\ pte \in [Page -> Pte]
      /\ pc \in [Cpu -> Pc]
      /\ arg \in [Cpu -> SUBSET Page]
      /\ ptLock \subseteq Cpu
      /\ ptLock' \subseteq Cpu
  BY <1>0, TypeStep DEF TypeOK
<1>2. CASE UNCHANGED <<pages, pte, pc, arg, ptLock>>
  BY <1>0, <1>2, OpFrameOther
<1>3. ASSUME NEW c \in Cpu, UNCHANGED <<pages, pte, ptLock>>,
             pc[c] \notin Relies, pc'[c] \notin Relies,
             \A d \in Cpu \ {c} : pc'[d] = pc[d] /\ arg'[d] = arg[d]
      PROVE  OpInv'
  <2>1. c \notin ptLock
    BY <1>0, <1>3 DEF OpInv, Relies
  <2>2. pc'[c] \notin HoldsList /\ pc[c] \notin HoldsList /\ pc'[c] # "invalid"
    BY <1>3 DEF Relies, HoldsList
  <2>3. pc'[c] # "locked" /\ pc'[c] # "remap"
    BY <1>3 DEF Relies
  <2>. QED
    BY <1>0, <1>1, <1>3, <2>1, <2>2, <2>3, OpFrame
<1>4. ASSUME NEW c \in Cpu, ConvertLock(c)
      PROVE  OpInv'
  <2>1. /\ pc[c] = "convert" /\ ptLock = {} /\ ptLock' = {c}
        /\ pc' = [pc EXCEPT ![c] = "invalid"]
        /\ pages' = pages /\ pte' = pte /\ arg' = arg
        /\ \A q \in arg[c] : pte[q] = "Leaf" /\ pages[q].state = "Mapped"
    BY <1>4 DEF ConvertLock, PtUnlocked, Goto, cpuOp, is_mapped_page
  <2>2. pc'[c] = "invalid" /\ \A d \in Cpu \ {c} : pc'[d] = pc[d]
    BY <1>1, <2>1
  <2>3. pc'[c] \notin HoldsList /\ pc[c] \notin HoldsList
    BY <2>1, <2>2 DEF HoldsList
  <2>. QED
    BY <1>0, <1>1, <2>1, <2>2, <2>3, OpFrame
<1>5. ASSUME NEW c \in Cpu, NEW p \in Page, ConvertPage(c, p)
      PROVE  OpInv'
  <2>1. /\ pc[c] = "invalid" /\ p \in arg[c]
        /\ pages' = [pages EXCEPT ![p] = WithState(@, "Converting", ver[c])]
        /\ pte' = [pte EXCEPT ![p] = "Invalidated"]
        /\ ptLock' = IF arg[c] = {p} THEN {} ELSE ptLock
        /\ Treated(c, p)
    BY <1>5 DEF ConvertPage, convert_page, BeginConversion
  <2>2. /\ \A d \in Cpu \ {c} : pc'[d] = pc[d] /\ arg'[d] = arg[d]
        /\ arg[c] = {p} => pc'[c] = "host" /\ arg'[c] = {}
        /\ arg[c] # {p} => pc'[c] = "invalid" /\ arg'[c] = arg[c] \ {p}
    BY <1>0, <2>1, TreatedFields
  <2>3. c \in ptLock /\ \A d \in ptLock : d = c
    BY <1>0, <2>1 DEF OpInv
  <2>4. pages[p].state = "Mapped"
    BY <1>0, <2>1 DEF OpInv
  <2>5. pages'[p].state = "Converting"
    BY <1>1, <2>1, WithStateKeeps
  <2>6. \A q \in Page : q # p => pages'[q] = pages[q] /\ pte'[q] = pte[q]
    BY <1>1, <2>1
  <2>7. ASSUME NEW d \in Cpu \ {c}, pc[d] \in Relies
        PROVE  p \notin arg[d]
    <3>1. pc[d] # "invalid"
      BY <1>0, <2>3 DEF OpInv
    <3>. QED
      BY <1>0, <2>4, <2>7, <3>1 DEF OpInv, Relies
  <2>8. pc'[c] \notin HoldsList /\ pc[c] \notin HoldsList
    BY <2>1, <2>2 DEF HoldsList
  <2>9. \A q \in arg'[c] : pc'[c] = "invalid" => pte'[q] = "Leaf" /\ pages'[q].state = "Mapped"
    <3>1. \A q \in arg[c] : pte[q] = "Leaf" /\ pages[q].state = "Mapped" /\ q \in Page
      BY <1>0, <1>1, <2>1 DEF OpInv
    <3>. QED
      BY <2>2, <2>6, <3>1
  <2>10. pc'[c] # "locked" /\ pc'[c] # "remap"
    BY <2>8 DEF HoldsList
  <2>11. \A d \in Cpu \ {c} : d \notin ptLock /\ d \notin ptLock'
    BY <2>1, <2>3
  <2>12. pc'[c] = "invalid" <=> c \in ptLock'
    BY <2>1, <2>2, <2>3
  <2>13. \A d \in Cpu \ {c} : pc[d] \in Relies =>
            \A q \in arg[d] : pages'[q].state = pages[q].state /\ pte'[q] = pte[q]
    BY <1>1, <2>6, <2>7
  <2>14. \A q \in Page : pages'[q].state = "ConvertedLocked" => pages[q].state = "ConvertedLocked"
    BY <2>5, <2>6
  <2>. QED
    BY <1>0, <1>1, <2>2, <2>8, <2>9, <2>10, <2>11, <2>12, <2>13, <2>14, OpFrame
<1>6. ASSUME NEW c \in Cpu, LockPages(c)
      PROVE  OpInv'
  <2>1. /\ pc[c] = "lock" /\ ptLock = {} /\ ptLock' = {}
        /\ pc' = [pc EXCEPT ![c] = "locked"]
        /\ pte' = pte /\ arg' = arg
        /\ \A q \in arg[c] : pte[q] = "Invalidated" /\ pages[q].state # "ConvertedLocked"
    BY <1>6 DEF LockPages, PtUnlocked, Goto, cpuOp, Lockable, is_converted_page, IsConvertible
  <2>2. \A q \in Page : pages'[q] = IF q \in arg[c]
                                    THEN WithState(pages[q], "ConvertedLocked", 0)
                                    ELSE pages[q]
    BY <1>1, <1>6 DEF LockPages, get_converted_pages, LockForAssignment
  <2>3. \A q \in arg[c] : q \in Page /\ pages'[q].state = "ConvertedLocked"
    BY <1>1, <2>2, WithStateKeeps
  <2>4. pc'[c] = "locked" /\ \A d \in Cpu \ {c} : pc'[d] = pc[d]
    BY <1>1, <2>1
  <2>5. ASSUME NEW d \in Cpu \ {c}, pc[d] \in Relies
        PROVE  arg[c] \cap arg[d] = {}
    <3>1. pc[d] # "invalid"
      BY <1>0, <2>1 DEF OpInv
    <3>. QED
      BY <1>0, <2>1, <2>5, <3>1 DEF OpInv, Relies
  <2>6. \A d \in Cpu \ {c} : pc[d] \in Relies =>
            \A q \in arg[d] : pages'[q].state = pages[q].state /\ pte'[q] = pte[q]
    BY <1>1, <2>1, <2>2, <2>5
  <2>7. "locked" \in HoldsList /\ HoldsList \subseteq Relies /\ pc[c] \notin HoldsList
    BY <2>1 DEF HoldsList, Relies
  <2>8. \A q \in Page : pages'[q].state = "ConvertedLocked" =>
            q \in arg'[c] \/ pages[q].state = "ConvertedLocked"
    BY <2>1, <2>2
  <2>9. \A d \in Cpu \ {c} : pc[d] \in HoldsList => arg'[c] \cap arg[d] = {}
    BY <2>1, <2>5, <2>7
  <2>. QED
    BY <1>0, <1>1, <2>1, <2>3, <2>4, <2>6, <2>7, <2>8, <2>9, OpFrame
<1>7. ASSUME NEW c \in Cpu, NEW p \in Page, pc[c] \in HoldsList, p \in arg[c], Treated(c, p),
             \A q \in Page : q # p => pages'[q] = pages[q] /\ pte'[q] = pte[q],
             pages'[p].state # "ConvertedLocked", ptLock' = ptLock
      PROVE  OpInv'
  <2>1. /\ \A d \in Cpu \ {c} : pc'[d] = pc[d] /\ arg'[d] = arg[d]
        /\ arg[c] = {p} => pc'[c] = "host" /\ arg'[c] = {}
        /\ arg[c] # {p} => pc'[c] = pc[c] /\ arg'[c] = arg[c] \ {p}
    BY <1>0, <1>7, TreatedFields
  <2>2. pages[p].state = "ConvertedLocked"
    BY <1>0, <1>7 DEF OpInv, HoldsList
  <2>3. ASSUME NEW d \in Cpu \ {c}, pc[d] \in Relies
        PROVE  p \notin arg[d]
    BY <1>0, <1>7, <2>2, <2>3 DEF OpInv, Relies, HoldsList
  <2>4. \A d \in Cpu \ {c} : pc[d] \in Relies =>
            \A q \in arg[d] : pages'[q].state = pages[q].state /\ pte'[q] = pte[q]
    BY <1>1, <1>7, <2>3
  <2>5. c \notin ptLock /\ pc'[c] # "invalid"
    BY <1>0, <1>7, <2>1 DEF OpInv, HoldsList
  <2>6. \A q \in arg'[c] :
            /\ pc'[c] \in HoldsList => pages'[q].state = "ConvertedLocked"
            /\ pc'[c] = "locked" => pte'[q] = "Invalidated"
            /\ pc'[c] = "remap" => pte'[q] = "LockedUnmapped"
    <3>1. \A q \in arg[c] : q # p => pages'[q] = pages[q] /\ pte'[q] = pte[q]
      BY <1>1, <1>7
    <3>2. CASE arg[c] = {p}
      BY <2>1, <3>2
    <3>3. CASE arg[c] # {p}
      BY <1>0, <2>1, <3>1, <3>3 DEF OpInv, HoldsList
    <3>. QED
      BY <3>2, <3>3
  <2>7. \A d \in Cpu \ {c} : pc'[c] \in HoldsList /\ pc[d] \in HoldsList =>
            arg'[c] \cap arg[d] = {}
    BY <1>0, <1>7, <2>1 DEF OpInv, HoldsList
  <2>8. \A q \in Page : pages'[q].state = "ConvertedLocked" =>
              \/ pc'[c] \in HoldsList /\ q \in arg'[c]
              \/ pages[q].state = "ConvertedLocked" /\ ~(pc[c] \in HoldsList /\ q \in arg[c])
    BY <1>7, <2>1
  <2>. QED
    BY <1>0, <1>1, <1>7, <2>1, <2>4, <2>5, <2>6, <2>7, <2>8, OpFrame
<1>8. ASSUME NEW c \in Cpu, NEW p \in Page, NEW g \in Guest, NEW st \in {"Mapped", "VmState"},
             AssignPage(c, p, g, st)
      PROVE  OpInv'
  <2>1. /\ pc[c] = "locked" /\ p \in arg[c] /\ pte' = pte /\ ptLock' = ptLock
        /\ pages' = [pages EXCEPT ![p] = Assign(@, g, st)]
        /\ Treated(c, p)
    BY <1>8 DEF AssignPage, assign_page
  <2>2. HostOwned(pages[p]) /\ pages[p].state = "ConvertedLocked"
    BY <1>0, <2>1 DEF OpInv, PageInv
  <2>3. pages'[p].state # "ConvertedLocked"
    BY <1>1, <2>1, <2>2, AssignHostPage
  <2>. QED
    BY <1>1, <1>7, <2>1, <2>3 DEF HoldsList
<1>9. ASSUME NEW c \in Cpu, NEW p \in Page, UnlockPage(c, p)
      PROVE  OpInv'
  <2>1. /\ pc[c] = "locked" /\ p \in arg[c] /\ pte' = pte /\ ptLock' = ptLock
        /\ pages' = [pages EXCEPT ![p] = WithState(@, "Converted", 0)]
        /\ Treated(c, p)
    BY <1>9 DEF UnlockPage, unlock_page, Unlock
  <2>2. pages'[p].state # "ConvertedLocked"
    BY <1>1, <2>1, WithStateKeeps
  <2>. QED
    BY <1>1, <1>7, <2>1, <2>2 DEF HoldsList
<1>10. ASSUME NEW c \in Cpu, NEW p \in Page, ReclaimPage(c, p)
       PROVE  OpInv'
  <2>1. /\ pc[c] = "remap" /\ p \in arg[c] /\ ptLock' = ptLock
        /\ pages' = [pages EXCEPT ![p] = WithState(@, "Mapped", 0)]
        /\ pte' = [pte EXCEPT ![p] = "Leaf"]
        /\ Treated(c, p)
    BY <1>10 DEF ReclaimPage, reclaim_page, Reclaim
  <2>2. pages'[p].state # "ConvertedLocked"
    BY <1>1, <2>1, WithStateKeeps
  <2>. QED
    BY <1>1, <1>7, <2>1, <2>2 DEF HoldsList
<1>11. ASSUME NEW c \in Cpu, ReclaimLock(c)
       PROVE  OpInv'
  <2>1. /\ pc[c] = "locked" /\ ptLock = {} /\ ptLock' = {}
        /\ pc' = [pc EXCEPT ![c] = "remap"]
        /\ pages' = pages /\ arg' = arg
        /\ \A q \in Page : pte'[q] = IF q \in arg[c] THEN "LockedUnmapped" ELSE pte[q]
    BY <1>11 DEF ReclaimLock, PtUnlocked, Goto, cpuOp
  <2>2. pc'[c] = "remap" /\ \A d \in Cpu \ {c} : pc'[d] = pc[d]
    BY <1>1, <2>1
  <2>3. ASSUME NEW d \in Cpu \ {c}, pc[d] \in Relies
        PROVE  arg[c] \cap arg[d] = {}
    <3>1. pc[d] # "invalid"
      BY <1>0, <2>1 DEF OpInv
    <3>. QED
      BY <1>0, <2>1, <2>3, <3>1 DEF OpInv, Relies
  <2>4. \A d \in Cpu \ {c} : pc[d] \in Relies => \A q \in arg[d] : pte'[q] = pte[q]
    BY <1>1, <2>1, <2>3
  <2>5. \A q \in arg[c] : pages[q].state = "ConvertedLocked" /\ pte'[q] = "LockedUnmapped"
    BY <1>0, <1>1, <2>1 DEF OpInv
  <2>6. "remap" \in HoldsList /\ HoldsList \subseteq Relies
    BY DEF HoldsList, Relies
  <2>7. \A d \in Cpu \ {c} : pc[d] \in HoldsList => arg'[c] \cap arg[d] = {}
    BY <2>1, <2>3, <2>6
  <2>8. \A q \in Page : pages'[q].state = "ConvertedLocked" =>
              q \in arg'[c] \/ (pages[q].state = "ConvertedLocked" /\ q \notin arg[c])
    BY <2>1
  <2>. QED
    BY <1>0, <1>1, <2>1, <2>2, <2>4, <2>5, <2>6, <2>7, <2>8, OpFrame
<1>12. ASSUME NEW c \in Cpu, NEW S \in PageRange, NEW h \in Holder, ShareRange(c, S, h)
       PROVE  OpInv'
  <2>1. /\ ptLock = {} /\ UNCHANGED <<pc, arg, ptLock, pte>>
        /\ \A q \in S : pages[q].state # "ConvertedLocked" /\ pte[q] = "Leaf"
    BY <1>12 DEF ShareRange, PtUnlocked, cpuOp, is_shareable_page, IsShareable, IsShared
  <2>2. \A q \in Page : pages'[q] = IF q \in S THEN Share(pages[q]) ELSE pages[q]
    BY <1>1, <1>12 DEF ShareRange, share_pages
  <2>3. \A q \in S : pages'[q].state = "Shared"
    BY <1>1, <2>2, ShareFields, PageRangeType
  <2>4. ASSUME NEW d \in Cpu, pc[d] \in Relies, NEW q \in arg[d]
        PROVE  q \notin S
    <3>1. pc[d] # "invalid"
      BY <1>0, <2>1 DEF OpInv
    <3>. QED
      BY <1>0, <2>1, <2>4, <3>1 DEF OpInv, Relies
  <2>5. \A d \in Cpu : pc[d] \in Relies =>
            \A q \in arg[d] : pages'[q].state = pages[q].state /\ pte'[q] = pte[q]
    BY <1>1, <2>1, <2>2, <2>4
  <2>6. \A q \in Page : pages'[q].state = "ConvertedLocked" => pages[q].state = "ConvertedLocked"
    BY <2>2, <2>3
  <2>. QED
    BY <1>0, <2>1, <2>5, <2>6, OpFrameOther
<1>13. ASSUME NEW p \in Page, UNCHANGED <<pc, arg, ptLock, pte>>,
              \A q \in Page : q # p => pages'[q] = pages[q],
              pages'[p].state # "ConvertedLocked",
              pages[p].state # "ConvertedLocked", pages[p].state = "Mapped" => pte[p] # "Leaf"
       PROVE  OpInv'
  <2>1. ASSUME NEW d \in Cpu, pc[d] \in Relies
        PROVE  p \notin arg[d]
    BY <1>0, <1>13, <2>1 DEF OpInv, Relies
  <2>2. \A d \in Cpu : pc[d] \in Relies =>
            \A q \in arg[d] : pages'[q].state = pages[q].state /\ pte'[q] = pte[q]
    BY <1>1, <1>13, <2>1
  <2>3. \A q \in Page : pages'[q].state = "ConvertedLocked" => pages[q].state = "ConvertedLocked"
    BY <1>13
  <2>. QED
    BY <1>0, <1>13, <2>2, <2>3, OpFrameOther
<1>14. ASSUME NEW p \in Page, NEW h \in Holder, Unshare(h, p)
       PROVE  OpInv'
  <2>1. pages[p].state = "Shared" /\ pages[p].arg # 0
    BY <1>0, <1>14, HolderMeansShared DEF Unshare
  <2>2. pages' = [pages EXCEPT ![p] = Release(@)] /\ UNCHANGED <<pc, arg, ptLock, pte>>
    BY <1>14 DEF Unshare, release_page_by_addr, cpuOp
  <2>3. pages'[p].state \in {"Mapped", "Shared"}
    BY <1>1, <2>1, <2>2, ReleaseShared
  <2>. QED
    BY <1>1, <1>13, <2>1, <2>2, <2>3
<1>15. ASSUME NEW p \in Page, NEW g \in Guest, GuestRelease(g, p)
       PROVE  OpInv'
  <2>1. GuestOwned(pages[p]) /\ ~HostOwned(pages[p])
    BY <1>0, <1>15, PageOwner DEF GuestRelease
  <2>2. pages[p].state \in {"Mapped", "VmState"} /\ pte[p] # "Leaf"
    BY <1>0, <2>1 DEF PageInv
  <2>3. pages' = [pages EXCEPT ![p] = Release(@)] /\ UNCHANGED <<pc, arg, ptLock, pte>>
    BY <1>15 DEF GuestRelease, release_page_by_addr, cpuOp
  <2>4. pages'[p].state = "Converted"
    BY <1>1, <2>1, <2>2, <2>3, ReleaseGuestPage
  <2>. QED
    BY <1>1, <1>13, <2>2, <2>3, <2>4
<1>16. ASSUME NEW c \in Cpu, SpaceStep(c)
       PROVE  OpInv'
  <2>1. ASSUME EnterSameVmid(c) \/ EnterNewVmid(c) \/ Leave(c)
        PROVE  OpInv'
    <3>1. /\ UNCHANGED <<pages, pte, ptLock, arg>>
          /\ pc[c] \in {"out", "host", "sync"}
          /\ pc' = [pc EXCEPT ![c] = "host"] \/ pc' = [pc EXCEPT ![c] = "out"]
      BY <2>1 DEF EnterSameVmid, EnterNewVmid, Leave, Goto, cpuOp
    <3>2. pc'[c] \in {"host", "out"} /\ \A d \in Cpu \ {c} : pc'[d] = pc[d]
      BY <1>1, <3>1
    <3>3. pc[c] \notin Relies /\ pc'[c] \notin Relies
      BY <3>1, <3>2 DEF Relies
    <3>. QED
      BY <1>3, <3>1, <3>2, <3>3
  <2>. QED
    BY <1>2, <1>16, <2>1 DEF SpaceStep, TlbFill, cpuOp
<1>17. ASSUME NEW c \in Cpu, UNCHANGED <<pages, pte, ptLock>>,
              pc[c] \in {"host", "convert", "fence", "lock"}, NEW l \in Pc \ Relies, Goto(c, l),
              NEW S, arg' = [arg EXCEPT ![c] = S]
       PROVE  OpInv'
  <2>1. pc[c] \notin Relies
    BY <1>17 DEF Relies
  <2>2. pc'[c] = l /\ \A d \in Cpu \ {c} : pc'[d] = pc[d] /\ arg'[d] = arg[d]
    BY <1>1, <1>17 DEF Goto
  <2>. QED
    BY <1>3, <1>17, <2>1, <2>2
<1>18. {"host", "convert", "fence", "sync", "lock"} \subseteq Pc \ Relies
  BY DEF Pc, Relies
<1>20. ASSUME NEW c \in Cpu, ConvertStep(c)
       PROVE  OpInv'
  <2>1. ASSUME NEW S \in PageRange, ConvertBegin(c, S)
        PROVE  OpInv'
    BY <1>17, <1>18, <2>1 DEF ConvertBegin
  <2>2. CASE ConvertFail(c)
    BY <1>17, <1>18, <2>2 DEF ConvertFail, Return
  <2>3. CASE FenceBegin(c)
    <3>1. arg' = [arg EXCEPT ![c] = arg[c]]
      BY <1>1, <2>3 DEF FenceBegin, cpuOp
    <3>. QED
      BY <1>17, <1>18, <2>3, <3>1 DEF FenceBegin
  <2>4. CASE FenceIommu(c)
    <3>1. arg' = [arg EXCEPT ![c] = arg[c]]
      BY <1>1, <2>4 DEF FenceIommu, cpuOp
    <3>. QED
      BY <1>17, <1>18, <2>4, <3>1 DEF FenceIommu
  <2>. QED
    BY <1>4, <1>5, <1>20, <2>1, <2>2, <2>3, <2>4 DEF ConvertStep
<1>21. ASSUME NEW c \in Cpu, LockStep(c)
       PROVE  OpInv'
  <2>1. ASSUME NEW S \in PageRange, NEW o \in {"assign", "reclaim"}, LockBegin(c, S, o)
        PROVE  OpInv'
    BY <1>17, <1>18, <2>1 DEF LockBegin
  <2>2. CASE LockFail(c)
    BY <1>17, <1>18, <2>2 DEF LockFail, Return
  <2>. QED
    BY <1>6, <1>8, <1>9, <1>10, <1>11, <1>21, <2>1, <2>2 DEF LockStep
<1>22. ASSUME OtherStep
       PROVE  OpInv'
  BY <1>2, <1>14, <1>15, <1>22 DEF OtherStep, IotlbFill, cpuOp
<1>23. CASE UNCHANGED vars
  BY <1>2, <1>23 DEF vars
<1>. QED
  BY <1>12, <1>16, <1>20, <1>21, <1>22, <1>23 DEF Next

\* The count of shared pages is preserved.
LEMMA SharedStep ==
    ASSUME IInv, [Next]_vars
    PROVE  SharedCount'
<1>0. TypeOK /\ PageInv /\ OpInv /\ SharedCount
  BY DEF IInv
<1>1. /\ \A q \in Page : pages[q] \in PageInfoType /\ pages[q].arg \in Nat
      /\ pages \in [Page -> PageInfoType]
      /\ refs \in [Page -> SUBSET Holder]
  BY <1>0 DEF TypeOK, PageInfoType
<1>2. \A q \in Page : IsFiniteSet(refs[q]) /\ Cardinality(refs[q]) \in Nat
  BY <1>1, FS_Subset, FS_CardinalityType, HostMemoryAssumption
<1>3. ASSUME refs' = refs,
             \A q \in Page : \/ pages'[q] = pages[q]
                             \/ pages[q].state # "Shared" /\ pages'[q].state # "Shared"
      PROVE  SharedCount'
  BY <1>0, <1>3 DEF SharedCount
<1>4. ASSUME NEW c \in Cpu, NEW p \in Page, ConvertPage(c, p)
      PROVE  SharedCount'
  <2>1. pages' = [pages EXCEPT ![p] = WithState(@, "Converting", ver[c])] /\ refs' = refs
    BY <1>4 DEF ConvertPage, convert_page, BeginConversion
  <2>2. pages[p].state = "Mapped"
    BY <1>0, <1>4 DEF ConvertPage, OpInv
  <2>3. pages'[p].state = "Converting"
    BY <1>1, <2>1, WithStateKeeps
  <2>. QED
    BY <1>1, <1>3, <2>1, <2>2, <2>3
<1>5. ASSUME NEW c \in Cpu, LockPages(c)
      PROVE  SharedCount'
  <2>1. \A q \in Page : pages'[q] = IF q \in arg[c]
                                    THEN WithState(pages[q], "ConvertedLocked", 0)
                                    ELSE pages[q]
    BY <1>1, <1>5 DEF LockPages, get_converted_pages, LockForAssignment
  <2>2. \A q \in arg[c] : pages[q].state # "Shared"
    BY <1>5 DEF LockPages, Lockable, is_converted_page, IsConvertible
  <2>3. \A q \in Page : q \in arg[c] => pages'[q].state = "ConvertedLocked"
    BY <1>1, <2>1, WithStateKeeps
  <2>4. refs' = refs
    BY <1>5 DEF LockPages
  <2>. QED
    BY <1>3, <2>1, <2>2, <2>3, <2>4
<1>6. ASSUME NEW c \in Cpu, NEW p \in Page, NEW g \in Guest, NEW st \in {"Mapped", "VmState"},
             AssignPage(c, p, g, st)
      PROVE  SharedCount'
  <2>1. HostOwned(pages[p]) /\ pages[p].state = "ConvertedLocked"
    BY <1>0, <1>6, ListedPage, LockedPageOwner DEF AssignPage
  <2>2. pages' = [pages EXCEPT ![p] = Assign(@, g, st)] /\ refs' = refs
    BY <1>6 DEF AssignPage, assign_page
  <2>3. pages'[p].state = st
    BY <1>1, <2>1, <2>2, AssignHostPage
  <2>. QED
    BY <1>1, <1>3, <2>1, <2>2, <2>3
<1>7. ASSUME NEW c \in Cpu, NEW p \in Page, UnlockPage(c, p) \/ ReclaimPage(c, p)
      PROVE  SharedCount'
  <2>1. pages[p].state = "ConvertedLocked" /\ refs' = refs
    BY <1>0, <1>7, ListedPage DEF UnlockPage, ReclaimPage
  <2>2. PICK st \in {"Converted", "Mapped"} : pages' = [pages EXCEPT ![p] = WithState(@, st, 0)]
    BY <1>7 DEF UnlockPage, ReclaimPage, unlock_page, reclaim_page, Unlock, Reclaim
  <2>3. pages'[p].state = st
    BY <1>1, <2>2, WithStateKeeps
  <2>. QED
    BY <1>1, <1>3, <2>1, <2>2, <2>3
<1>8. ASSUME NEW c \in Cpu, NEW S \in PageRange, NEW h \in Holder, ShareRange(c, S, h)
      PROVE  SharedCount'
  <2>1. \A q \in Page : /\ pages'[q] = IF q \in S THEN Share(pages[q]) ELSE pages[q]
                        /\ refs'[q] = IF q \in S THEN refs[q] \cup {h} ELSE refs[q]
    BY <1>1, <1>8 DEF ShareRange, share_pages
  <2>2. ASSUME NEW q \in Page, q \in S
        PROVE  pages'[q].state = "Shared" /\ pages'[q].arg = Cardinality(refs'[q])
    <3>1. /\ pages'[q].state = "Shared"
          /\ pages'[q].arg = IF pages[q].state = "Shared" THEN pages[q].arg + 1 ELSE 1
      <4>1. pages[q] \in PageInfoType
        BY <1>1
      <4>2. pages'[q] = Share(pages[q])
        BY <2>1, <2>2
      <4>. QED
        BY <4>1, <4>2, ShareFields
    <3>2. h \notin refs[q]
      BY <1>8, <2>2 DEF ShareRange
    <3>3. Cardinality(refs[q] \cup {h}) = Cardinality(refs[q]) + 1
      BY <1>2, <3>2, FS_AddElement
    <3>4. CASE pages[q].state = "Shared"
      BY <1>0, <2>1, <2>2, <3>1, <3>3, <3>4 DEF SharedCount
    <3>5. CASE pages[q].state # "Shared"
      <4>1. refs[q] = {}
        BY <1>0, <3>5 DEF SharedCount
      <4>2. Cardinality(refs[q]) = 0
        BY <4>1, FS_EmptySet
      <4>. QED
        BY <2>1, <2>2, <3>1, <3>3, <3>5, <4>2
    <3>. QED
      BY <3>4, <3>5
  <2>. QED
    BY <1>0, <2>1, <2>2 DEF SharedCount
<1>9. ASSUME NEW p \in Page, NEW h \in Holder, Unshare(h, p)
      PROVE  SharedCount'
  <2>1. h \in refs[p] /\ refs' = [refs EXCEPT ![p] = @ \ {h}]
        /\ pages' = [pages EXCEPT ![p] = Release(@)]
    BY <1>9 DEF Unshare, release_page_by_addr
  <2>2. /\ pages[p].state = "Shared" /\ pages[p].arg # 0
        /\ pages[p].arg = Cardinality(refs[p])
    BY <1>0, <2>1, HolderMeansShared
  <2>3. /\ pages'[p].state = IF pages[p].arg = 1 THEN "Mapped" ELSE "Shared"
        /\ pages'[p].arg = pages[p].arg - 1
    BY <1>1, <2>1, <2>2, ReleaseShared
  <2>4. Cardinality(refs[p] \ {h}) = Cardinality(refs[p]) - 1 /\ IsFiniteSet(refs[p] \ {h})
    BY <1>2, <2>1, FS_RemoveElement
  <2>5. refs'[p] = refs[p] \ {h}
    BY <1>1, <2>1
  <2>6. \A q \in Page : q # p => pages'[q] = pages[q] /\ refs'[q] = refs[q]
    BY <1>1, <2>1
  <2>7. CASE pages[p].arg = 1
    <3>1. Cardinality(refs'[p]) = 0 /\ IsFiniteSet(refs'[p])
      BY <2>2, <2>4, <2>5, <2>7
    <3>2. refs'[p] = {}
      BY <3>1, FS_EmptySet
    <3>3. pages'[p].state = "Mapped"
      BY <2>3, <2>7
    <3>. QED
      BY <1>0, <2>6, <3>2, <3>3 DEF SharedCount
  <2>8. CASE pages[p].arg # 1
    <3>1. pages'[p].state = "Shared" /\ pages'[p].arg = Cardinality(refs'[p])
      BY <2>2, <2>3, <2>4, <2>5, <2>8
    <3>. QED
      BY <1>0, <2>6, <3>1 DEF SharedCount
  <2>. QED
    BY <2>7, <2>8
<1>10. ASSUME NEW p \in Page, NEW g \in Guest, GuestRelease(g, p)
       PROVE  SharedCount'
  <2>1. GuestOwned(pages[p]) /\ ~HostOwned(pages[p])
    BY <1>0, <1>10, PageOwner DEF GuestRelease
  <2>2. pages[p].state \in {"Mapped", "VmState"}
    BY <1>0, <2>1 DEF PageInv
  <2>3. pages' = [pages EXCEPT ![p] = Release(@)] /\ refs' = refs
    BY <1>10 DEF GuestRelease, release_page_by_addr
  <2>4. pages'[p].state = "Converted"
    BY <1>1, <2>1, <2>2, <2>3, ReleaseGuestPage
  <2>. QED
    BY <1>1, <1>3, <2>2, <2>3, <2>4
<1>11. ASSUME NEW c \in Cpu, SpaceStep(c)
       PROVE  SharedCount'
  BY <1>3, <1>11 DEF SpaceStep, EnterSameVmid, EnterNewVmid, Leave, TlbFill
<1>12. ASSUME NEW c \in Cpu, ConvertStep(c)
       PROVE  SharedCount'
  BY <1>3, <1>4, <1>12
  DEF ConvertStep, ConvertBegin, ConvertLock, ConvertFail, FenceBegin, FenceIommu
<1>13. ASSUME NEW c \in Cpu, LockStep(c)
       PROVE  SharedCount'
  BY <1>3, <1>5, <1>6, <1>7, <1>13 DEF LockStep, LockBegin, LockFail, ReclaimLock
<1>14. ASSUME OtherStep
       PROVE  SharedCount'
  BY <1>3, <1>9, <1>10, <1>14 DEF OtherStep, IotlbFill
<1>15. CASE UNCHANGED vars
  BY <1>3, <1>15 DEF vars
<1>. QED
  BY <1>8, <1>11, <1>12, <1>13, <1>14, <1>15 DEF Next

\* A step that keeps the TLBs, and that changes the PTE or the page of an unmapped
\* page only by mapping it or while it is not converting, preserves TlbInv.
LEMMA TlbFrame ==
    ASSUME IInv, [Next]_vars, UNCHANGED <<prevTlb, tlb>>,
           \A q \in Page :
              \/ pte'[q] = "Leaf"
              \/ /\ pte[q] # "Leaf" /\ (q \in raced => q \in raced')
                 /\ \/ pages'[q] = pages[q]
                    \/ pages[q].state # "Converting" /\ pages'[q].state # "Converting"
    PROVE  TlbInv'
<1>1. TypeOK /\ TlbInv
  BY DEF IInv
<1>2. /\ min_version(tracker) \in Nat /\ min_version(tracker') \in Nat
      /\ min_version(tracker) <= min_version(tracker')
  BY VersionsMonotone
<1>3. SUFFICES ASSUME NEW c \in Cpu, NEW p \in tlb[c], p \notin raced', pte'[p] # "Leaf"
               PROVE  IF pages'[p].state = "Converting" THEN prevTlb[c] <= pages'[p].arg
                                                      ELSE prevTlb[c] < min_version(tracker')
  BY DEF TlbInv
<1>4. p \in Page /\ prevTlb[c] \in Int
  BY <1>1 DEF TypeOK, NoVersion
<1>5. p \notin raced /\ pte[p] # "Leaf"
  BY <1>3, <1>4
<1>6. IF pages[p].state = "Converting" THEN prevTlb[c] <= pages[p].arg
                                       ELSE prevTlb[c] < min_version(tracker)
  BY <1>1, <1>5 DEF TlbInv
<1>7. CASE pages'[p] = pages[p]
  BY <1>2, <1>4, <1>6, <1>7
<1>8. CASE pages[p].state # "Converting" /\ pages'[p].state # "Converting"
  BY <1>2, <1>4, <1>6, <1>8
<1>. QED
  BY <1>3, <1>4, <1>7, <1>8

\* No CPU keeps a translation from before the fence of a converted page.
LEMMA TlbStep ==
    ASSUME IInv, [Next]_vars
    PROVE  TlbInv'
<1>0. TypeOK /\ ActiveInv /\ PageInv /\ OpInv /\ SharedCount /\ TlbInv
  BY DEF IInv
<1>1. /\ \A q \in Page : pages[q] \in PageInfoType
      /\ pages \in [Page -> PageInfoType]
      /\ pte \in [Page -> Pte]
      /\ tlb \in [Cpu -> SUBSET Page]
      /\ prevTlb \in [Cpu -> Int]
      /\ \A q \in Page : pages[q].arg \in Nat
  BY <1>0 DEF TypeOK, PageInfoType, NoVersion
<1>2. /\ min_version(tracker) \in Nat /\ min_version(tracker') \in Nat
      /\ min_version(tracker) <= min_version(tracker')
      /\ tracker.current.version \in Nat
  BY VersionsMonotone
<1>3. CASE UNCHANGED <<prevTlb, tlb, pages, pte, raced>>
  BY <1>3, TlbFrame
<1>4. ASSUME NEW c \in Cpu, EnterSameVmid(c) \/ EnterNewVmid(c)
      PROVE  TlbInv'
  <2>1. /\ UNCHANGED <<pages, pte, raced>>
        /\ prevTlb' = [prevTlb EXCEPT ![c] = tracker.current.version]
        /\ \/ tlb' = [tlb EXCEPT ![c] = {}]
           \/ tlb' = tlb /\ ~(prevTlb[c] < tracker.current.version)
    BY <1>4 DEF EnterSameVmid, EnterNewVmid, current_version
  <2>2. prevTlb[c] <= tracker.current.version
    BY <1>0 DEF ActiveInv
  <2>3. ASSUME NEW d \in Cpu, NEW p \in tlb'[d]
        PROVE  p \in tlb[d] /\ prevTlb'[d] = prevTlb[d]
    BY <1>1, <1>2, <2>1, <2>2, <2>3
  <2>4. ASSUME NEW d \in Cpu, NEW p \in tlb'[d], p \notin raced, pte[p] # "Leaf"
        PROVE  IF pages[p].state = "Converting" THEN prevTlb'[d] <= pages[p].arg
                                                ELSE prevTlb'[d] < min_version(tracker')
    <3>1. p \in tlb[d] /\ prevTlb'[d] = prevTlb[d] /\ prevTlb[d] \in Int
      BY <1>1, <2>3
    <3>2. IF pages[p].state = "Converting" THEN prevTlb[d] <= pages[p].arg
                                           ELSE prevTlb[d] < min_version(tracker)
      BY <1>0, <2>4, <3>1 DEF TlbInv
    <3>. QED
      BY <1>2, <3>1, <3>2
  <2>. QED
    BY <2>1, <2>4 DEF TlbInv
<1>5. ASSUME NEW c \in Cpu, NEW p \in Page, TlbFill(c, p)
      PROVE  TlbInv'
  <2>1. /\ pte[p] = "Leaf" /\ tlb' = [tlb EXCEPT ![c] = @ \cup {p}]
        /\ UNCHANGED <<pages, pte, raced, prevTlb, tracker>>
    BY <1>5 DEF TlbFill, active
  <2>2. ASSUME NEW d \in Cpu, NEW q \in tlb'[d], pte[q] # "Leaf"
        PROVE  q \in tlb[d]
    BY <1>1, <2>1, <2>2
  <2>. QED
    BY <1>0, <2>1, <2>2 DEF TlbInv
<1>6. ASSUME NEW c \in Cpu, NEW p \in Page, ConvertPage(c, p)
      PROVE  TlbInv'
  <2>1. /\ pages' = [pages EXCEPT ![p] = WithState(@, "Converting", ver[c])]
        /\ pte' = [pte EXCEPT ![p] = "Invalidated"]
        /\ raced' = IF ver[c] < tracker.current.version THEN raced \cup {p} ELSE raced
        /\ UNCHANGED <<tlb, prevTlb, tracker>>
    BY <1>6 DEF ConvertPage, convert_page, BeginConversion, active, hw, current_version
  <2>2. pages'[p].state = "Converting" /\ pages'[p].arg = ver[c]
    BY <1>1, <2>1, WithStateKeeps
  <2>3. ver[c] \in Nat
    BY <1>0 DEF TypeOK
  <2>4. ASSUME NEW d \in Cpu, p \notin raced'
        PROVE  prevTlb[d] <= ver[c]
    <3>1. ~(ver[c] < tracker.current.version)
      BY <2>1, <2>4
    <3>2. tracker.current.version <= ver[c]
      BY <1>2, <2>3, <3>1
    <3>3. prevTlb[d] <= tracker.current.version
      BY <1>0 DEF ActiveInv
    <3>4. prevTlb[d] \in Int /\ tracker.current.version \in Nat
      BY <1>1, <1>2
    <3>. QED
      BY <2>3, <3>2, <3>3, <3>4
  <2>5. \A q \in Page : q # p => pages'[q] = pages[q] /\ pte'[q] = pte[q]
    BY <1>1, <2>1
  <2>6. ASSUME NEW d \in Cpu, NEW q \in tlb[d], q \notin raced', pte'[q] # "Leaf"
        PROVE  IF pages'[q].state = "Converting" THEN prevTlb[d] <= pages'[q].arg
                                                 ELSE prevTlb[d] < min_version(tracker)
    <3>1. CASE q = p
      BY <2>2, <2>4, <2>6, <3>1
    <3>2. CASE q # p
      <4>1. q \in Page /\ q \notin raced
        BY <1>1, <2>1, <2>6
      <4>. QED
        BY <1>0, <2>5, <2>6, <3>2, <4>1 DEF TlbInv
    <3>. QED
      BY <3>1, <3>2
  <2>. QED
    BY <2>1, <2>6 DEF TlbInv
<1>7. ASSUME NEW c \in Cpu, LockPages(c)
      PROVE  TlbInv'
  <2>1. \A q \in Page : pages'[q] = IF q \in arg[c]
                                    THEN WithState(pages[q], "ConvertedLocked", 0)
                                    ELSE pages[q]
    BY <1>1, <1>7 DEF LockPages, get_converted_pages, LockForAssignment
  <2>2. \A q \in Page : q \in arg[c] => pages'[q].state = "ConvertedLocked"
    BY <1>1, <2>1, WithStateKeeps
  <2>3. UNCHANGED <<pte, raced, tlb, prevTlb, tracker>>
    BY <1>7 DEF LockPages, active, hw
  <2>4. ver[c] \in Nat /\ ver[c] <= min_version(tracker)
    BY <1>0, <1>7 DEF LockPages, ActiveInv, TypeOK
  <2>5. \A q \in arg[c] : pages[q].state = "Converting" => pages[q].arg < ver[c]
    BY <1>7 DEF LockPages, Lockable, is_converted_page, IsConvertible
  <2>6. ASSUME NEW d \in Cpu, NEW q \in tlb[d], q \notin raced, pte[q] # "Leaf"
        PROVE  IF pages'[q].state = "Converting" THEN prevTlb[d] <= pages'[q].arg
                                                 ELSE prevTlb[d] < min_version(tracker)
    <3>1. IF pages[q].state = "Converting" THEN prevTlb[d] <= pages[q].arg
                                           ELSE prevTlb[d] < min_version(tracker)
      BY <1>0, <2>6 DEF TlbInv
    <3>2. q \in Page /\ prevTlb[d] \in Int /\ pages[q].arg \in Nat
      BY <1>1
    <3>3. CASE q \in arg[c]
      BY <1>2, <2>2, <2>4, <2>5, <3>1, <3>2, <3>3
    <3>4. CASE q \notin arg[c]
      BY <2>1, <3>1, <3>2, <3>4
    <3>. QED
      BY <3>3, <3>4
  <2>. QED
    BY <2>3, <2>6 DEF TlbInv
<1>8. ASSUME NEW c \in Cpu, NEW p \in Page, NEW g \in Guest, NEW st \in {"Mapped", "VmState"},
             AssignPage(c, p, g, st)
      PROVE  TlbInv'
  <2>1. HostOwned(pages[p]) /\ pages[p].state = "ConvertedLocked" /\ pte[p] = "Invalidated"
    BY <1>0, <1>8, ListedPage, LockedPageOwner DEF AssignPage
  <2>2. /\ pages' = [pages EXCEPT ![p] = Assign(@, g, st)]
        /\ UNCHANGED <<pte, raced, prevTlb, tlb>>
    BY <1>8 DEF AssignPage, assign_page, active, hw
  <2>3. pages'[p].state = st
    BY <1>1, <2>1, <2>2, AssignHostPage
  <2>4. \A q \in Page : q # p => pages'[q] = pages[q]
    BY <1>1, <2>2
  <2>. QED
    BY <2>1, <2>2, <2>3, <2>4, TlbFrame
<1>9. ASSUME NEW c \in Cpu, NEW p \in Page, UnlockPage(c, p)
      PROVE  TlbInv'
  <2>1. pages[p].state = "ConvertedLocked" /\ pte[p] = "Invalidated"
    BY <1>0, <1>9, ListedPage DEF UnlockPage
  <2>2. /\ pages' = [pages EXCEPT ![p] = WithState(@, "Converted", 0)]
        /\ UNCHANGED <<pte, raced, prevTlb, tlb>>
    BY <1>9 DEF UnlockPage, unlock_page, Unlock, active, hw
  <2>3. pages'[p].state = "Converted"
    BY <1>1, <2>2, WithStateKeeps
  <2>4. \A q \in Page : q # p => pages'[q] = pages[q]
    BY <1>1, <2>2
  <2>. QED
    BY <2>1, <2>2, <2>3, <2>4, TlbFrame
<1>10. ASSUME NEW c \in Cpu, ReclaimLock(c)
       PROVE  TlbInv'
  <2>1. /\ UNCHANGED <<pages, raced, prevTlb, tlb>>
        /\ \A q \in Page : pte'[q] = IF q \in arg[c] THEN "LockedUnmapped" ELSE pte[q]
    BY <1>10 DEF ReclaimLock, active, hw
  <2>2. \A q \in arg[c] : pte[q] # "Leaf"
    BY <1>0, <1>10 DEF ReclaimLock, OpInv
  <2>. QED
    BY <2>1, <2>2, TlbFrame
<1>11. ASSUME NEW c \in Cpu, NEW p \in Page, ReclaimPage(c, p)
       PROVE  TlbInv'
  <2>1. /\ pages' = [pages EXCEPT ![p] = Reclaim(@)]
        /\ pte' = [pte EXCEPT ![p] = "Leaf"]
        /\ raced' = raced \ {p}
        /\ UNCHANGED <<prevTlb, tlb>>
    BY <1>11 DEF ReclaimPage, reclaim_page, active, hw
  <2>2. pte'[p] = "Leaf" /\ \A q \in Page : q # p => pages'[q] = pages[q] /\ pte'[q] = pte[q]
    BY <1>1, <2>1
  <2>. QED
    BY <2>1, <2>2, TlbFrame
<1>12. ASSUME NEW c \in Cpu, NEW S \in PageRange, NEW h \in Holder, ShareRange(c, S, h)
       PROVE  TlbInv'
  <2>1. \A q \in Page : pages'[q] = IF q \in S THEN Share(pages[q]) ELSE pages[q]
    BY <1>1, <1>12 DEF ShareRange, share_pages
  <2>2. UNCHANGED <<pte, raced, prevTlb, tlb>> /\ \A q \in S : pte[q] = "Leaf"
    BY <1>12 DEF ShareRange, active, hw
  <2>. QED
    BY <2>1, <2>2, TlbFrame
<1>13. ASSUME NEW p \in Page, NEW h \in Holder, Unshare(h, p)
       PROVE  TlbInv'
  <2>1. pages[p].state = "Shared"
    BY <1>0, <1>13, HolderMeansShared DEF Unshare
  <2>2. pte[p] = "Leaf"
    BY <1>0, <2>1 DEF PageInv
  <2>3. pages' = [pages EXCEPT ![p] = Release(@)] /\ UNCHANGED <<pte, raced, prevTlb, tlb>>
    BY <1>13 DEF Unshare, release_page_by_addr, active, hw
  <2>4. \A q \in Page : q # p => pages'[q] = pages[q]
    BY <1>1, <2>3
  <2>. QED
    BY <2>2, <2>3, <2>4, TlbFrame
<1>14. ASSUME NEW p \in Page, NEW g \in Guest, GuestRelease(g, p)
       PROVE  TlbInv'
  <2>1. GuestOwned(pages[p]) /\ ~HostOwned(pages[p])
    BY <1>0, <1>14, PageOwner DEF GuestRelease
  <2>2. pages[p].state \in {"Mapped", "VmState"} /\ pte[p] # "Leaf"
    BY <1>0, <2>1 DEF PageInv
  <2>3. pages' = [pages EXCEPT ![p] = Release(@)] /\ UNCHANGED <<pte, raced, prevTlb, tlb>>
    BY <1>14 DEF GuestRelease, release_page_by_addr, active, hw
  <2>4. pages'[p].state = "Converted"
    BY <1>1, <2>1, <2>2, <2>3, ReleaseGuestPage
  <2>5. \A q \in Page : q # p => pages'[q] = pages[q]
    BY <1>1, <2>3
  <2>. QED
    BY <2>2, <2>3, <2>4, <2>5, TlbFrame
<1>15. ASSUME NEW c \in Cpu, SpaceStep(c)
       PROVE  TlbInv'
  BY <1>3, <1>4, <1>5, <1>15 DEF SpaceStep, Leave, hw
<1>16. ASSUME NEW c \in Cpu, ConvertStep(c)
       PROVE  TlbInv'
  BY <1>3, <1>6, <1>16
  DEF ConvertStep, ConvertBegin, ConvertLock, ConvertFail, FenceBegin, FenceIommu, active, hw
<1>17. ASSUME NEW c \in Cpu, LockStep(c)
       PROVE  TlbInv'
  BY <1>3, <1>7, <1>8, <1>9, <1>10, <1>11, <1>17 DEF LockStep, LockBegin, LockFail, active, hw
<1>18. ASSUME OtherStep
       PROVE  TlbInv'
  BY <1>3, <1>13, <1>14, <1>18 DEF OtherStep, IotlbFill, active
<1>19. CASE UNCHANGED vars
  BY <1>3, <1>19 DEF vars
<1>. QED
  BY <1>12, <1>15, <1>16, <1>17, <1>18, <1>19 DEF Next

\* A CPU between the increment and the IOMMU fence still holds the previous version.
LEMMA FencingCpu ==
    ASSUME IInv, NEW d \in Cpu, pc[d] = "fence"
    PROVE  /\ held[d] = tracker.prev.version
           /\ held[d] # NoVersion
           /\ tracker.prev # NoPrev
           /\ min_version(tracker) = tracker.prev.version
<1>1. RefInv /\ ActiveInv
  BY DEF IInv
<1>2. held[d] = tracker.prev.version /\ held[d] # NoVersion
  BY <1>1 DEF ActiveInv
<1>3. tracker.prev # NoPrev
  BY <1>2 DEF NoPrev
<1>4. tracker.prev.count # 0
  BY <1>1, <1>3 DEF RefInv
<1>. QED
  BY <1>2, <1>3, <1>4 DEF min_version

\* A step that keeps the IOTLB, the current version and the pending fences, and of the
\* unmapped pages only changes some that are not converting, preserves IotlbInv.
LEMMA IotlbFrame ==
    ASSUME IotlbInv, TypeOK, iotlb' = iotlb,
           tracker'.current.version = tracker.current.version,
           \A d \in Cpu : pc[d] = "fence" =>
              pc'[d] = "fence" /\ tracker'.prev.version = tracker.prev.version,
           \A q \in Page :
              \/ pte'[q] = "Leaf"
              \/ /\ pte[q] # "Leaf" /\ (q \in raced => q \in raced')
                 /\ pages'[q] = pages[q] \/ pages[q].state # "Converting"
    PROVE  IotlbInv'
<1>1. SUFFICES ASSUME NEW p \in iotlb, p \notin raced', pte'[p] # "Leaf"
               PROVE  /\ pages'[p].state = "Converting"
                      /\ \/ pages'[p].arg = tracker'.current.version
                         \/ /\ pages'[p].arg = tracker'.prev.version
                            /\ \E c \in Cpu : pc'[c] = "fence"
  BY DEF IotlbInv
<1>2. p \in Page
  BY DEF TypeOK
<1>3. p \notin raced /\ pte[p] # "Leaf"
  BY <1>1, <1>2
<1>4. /\ pages[p].state = "Converting"
      /\ \/ pages[p].arg = tracker.current.version
         \/ pages[p].arg = tracker.prev.version /\ \E c \in Cpu : pc[c] = "fence"
  BY <1>3 DEF IotlbInv
<1>5. pages'[p] = pages[p]
  BY <1>1, <1>2, <1>4
<1>. QED
  BY <1>4, <1>5

\* The IOMMU keeps no translation from before the fence of a converted page.
LEMMA IotlbStep ==
    ASSUME IInv, [Next]_vars
    PROVE  IotlbInv'
<1>0. TypeOK /\ RefInv /\ ActiveInv /\ PageInv /\ OpInv /\ SharedCount /\ IotlbInv
  BY DEF IInv
<1>1. /\ \A q \in Page : pages[q] \in PageInfoType /\ pages[q].arg \in Nat
      /\ pages \in [Page -> PageInfoType]
      /\ pte \in [Page -> Pte]
      /\ pc \in [Cpu -> Pc]
      /\ iotlb \subseteq Page
      /\ tracker \in TlbTrackerType /\ tracker.current.version \in Nat
  BY <1>0 DEF TypeOK, PageInfoType, TlbTrackerType
<1>2. ASSUME iotlb' = iotlb, tracker' = tracker, pages' = pages, pte' = pte, raced' = raced,
             \A d \in Cpu : pc[d] = "fence" => pc'[d] = "fence"
      PROVE  IotlbInv'
  BY <1>0, <1>2, IotlbFrame
<1>3. ASSUME NEW c \in Cpu, NEW l, Goto(c, l), pc[c] # "fence"
      PROVE  \A d \in Cpu : pc[d] = "fence" => pc'[d] = "fence"
  BY <1>1, <1>3 DEF Goto
<1>4. ASSUME NEW c \in Cpu, NEW p \in Page, Treated(c, p), pc[c] # "fence"
      PROVE  \A d \in Cpu : pc[d] = "fence" => pc'[d] = "fence"
  BY <1>0, <1>4, TreatedFields
<1>5. ASSUME NEW c \in Cpu, EnterSameVmid(c) \/ EnterNewVmid(c)
      PROVE  IotlbInv'
  <2>1. /\ iotlb' = iotlb /\ pages' = pages /\ pte' = pte /\ raced' = raced
        /\ tracker' = get_version(tracker) /\ Goto(c, "host") /\ pc[c] = "out"
    BY <1>5 DEF EnterSameVmid, EnterNewVmid
  <2>2. tracker'.current.version = tracker.current.version /\ tracker'.prev = tracker.prev
    BY <1>1, <2>1, GetVersionFields
  <2>3. \A d \in Cpu : pc[d] = "fence" => pc'[d] = "fence"
    BY <1>3, <2>1
  <2>. QED
    BY <1>0, <2>1, <2>2, <2>3, IotlbFrame
<1>6. ASSUME NEW c \in Cpu, Leave(c)
      PROVE  IotlbInv'
  <2>1. /\ iotlb' = iotlb /\ pages' = pages /\ pte' = pte /\ raced' = raced
        /\ tracker' = put_version(tracker, held[c]) /\ Goto(c, "out")
        /\ pc[c] \in {"host", "sync"}
        /\ held' = [held EXCEPT ![c] = NoVersion]
    BY <1>6 DEF Leave, hw
  <2>2. held[c] # NoVersion
    BY <1>0, <2>1 DEF ActiveInv
  <2>3. tracker'.current.version = tracker.current.version
    BY <1>0, <1>1, <2>1, <2>2, UserCounted, HeldNotBelowMin, PutVersionFields
  <2>4. \A d \in Cpu : pc[d] = "fence" => pc'[d] = "fence"
    BY <1>3, <2>1
  <2>5. ASSUME NEW d \in Cpu, pc[d] = "fence"
        PROVE  tracker'.prev.version = tracker.prev.version
    <3>1. held'[d] = held[d]
      BY <1>0, <2>1, <2>5 DEF TypeOK
    <3>2. held[d] = tracker.prev.version
      BY <2>5, FencingCpu
    <3>3. held'[d] = tracker'.prev.version
      BY <2>4, <2>5, ActiveStep DEF ActiveInv
    <3>. QED
      BY <3>1, <3>2, <3>3
  <2>. QED
    BY <1>0, <2>1, <2>3, <2>4, <2>5, IotlbFrame
<1>7. ASSUME NEW p \in Page, IotlbFill(p)
      PROVE  IotlbInv'
  <2>1. /\ pte[p] = "Leaf" /\ iotlb' = iotlb \cup {p}
        /\ UNCHANGED <<pages, pte, raced, tracker, pc>>
    BY <1>7 DEF IotlbFill, active
  <2>. QED
    BY <1>0, <2>1 DEF IotlbInv
<1>8. ASSUME NEW c \in Cpu, NEW p \in Page, ConvertPage(c, p)
      PROVE  IotlbInv'
  <2>1. /\ pages' = [pages EXCEPT ![p] = WithState(@, "Converting", ver[c])]
        /\ pte' = [pte EXCEPT ![p] = "Invalidated"]
        /\ raced' = IF ver[c] < tracker.current.version THEN raced \cup {p} ELSE raced
        /\ UNCHANGED <<iotlb, tracker>>
        /\ Treated(c, p) /\ pc[c] = "invalid"
    BY <1>8 DEF ConvertPage, convert_page, BeginConversion, active, hw, current_version
  <2>2. pages'[p].state = "Converting" /\ pages'[p].arg = ver[c]
    <3>1. pages'[p] = WithState(pages[p], "Converting", ver[c]) /\ pages[p] \in PageInfoType
      BY <1>1, <2>1
    <3>. QED
      BY <3>1, WithStateKeeps
  <2>3. ver[c] \in Nat /\ ver[c] <= tracker.current.version
    BY <1>0, <2>1 DEF TypeOK, ActiveInv
  <2>4. p \notin raced' => ver[c] = tracker.current.version
    BY <1>1, <2>1, <2>3
  <2>5. \A q \in Page : q # p => pages'[q] = pages[q] /\ pte'[q] = pte[q]
    BY <1>1, <2>1
  <2>6. \A d \in Cpu : pc[d] = "fence" => pc'[d] = "fence"
    BY <1>4, <2>1
  <2>7. ASSUME NEW q \in iotlb, q \notin raced', pte'[q] # "Leaf"
        PROVE  /\ pages'[q].state = "Converting"
               /\ \/ pages'[q].arg = tracker.current.version
                  \/ pages'[q].arg = tracker.prev.version /\ \E d \in Cpu : pc'[d] = "fence"
    <3>1. CASE q = p
      BY <2>2, <2>4, <2>7, <3>1
    <3>2. CASE q # p
      <4>1. q \in Page /\ q \notin raced
        BY <1>1, <2>1, <2>7
      <4>. QED
        BY <1>0, <2>5, <2>6, <2>7, <3>2, <4>1 DEF IotlbInv
    <3>. QED
      BY <3>1, <3>2
  <2>. QED
    BY <2>1, <2>7 DEF IotlbInv
<1>9. ASSUME NEW c \in Cpu, FenceBegin(c)
      PROVE  IotlbInv'
  <2>1. /\ tracker' = Increment(tracker) /\ tracker.prev.count = 0
        /\ UNCHANGED <<pages, pte, iotlb, raced>>
        /\ pc' = [pc EXCEPT ![c] = "fence"] /\ pc[c] = "host"
    BY <1>9 DEF FenceBegin, CanIncrement, Goto, hw
  <2>2. tracker.prev = NoPrev
    BY <1>0, <2>1, NoReferenceNoPrev
  <2>3. held[c] # NoVersion
    BY <1>0, <2>1 DEF ActiveInv
  <2>4. tracker.current.count # 0
    BY <1>0, <2>2, <2>3, UserCounted DEF CanPutVersion
  <2>5. tracker'.prev = tracker.current
    BY <1>1, <2>1, <2>4, IncrementFields
  <2>6. \A d \in Cpu : pc[d] # "fence"
    BY <2>2, FencingCpu
  <2>7. pc'[c] = "fence"
    BY <1>1, <2>1
  <2>. QED
    BY <1>0, <2>1, <2>5, <2>6, <2>7 DEF IotlbInv
<1>10. ASSUME NEW c \in Cpu, FenceIommu(c)
       PROVE  IotlbInv'
  BY <1>10 DEF FenceIommu, IotlbInv
<1>11. ASSUME NEW c \in Cpu, LockPages(c)
       PROVE  IotlbInv'
  <2>1. \A q \in Page : q \notin arg[c] => pages'[q] = pages[q]
    BY <1>1, <1>11 DEF LockPages, get_converted_pages
  <2>2. /\ UNCHANGED <<pte, raced, iotlb, tracker>> /\ Goto(c, "locked") /\ pc[c] = "lock"
    BY <1>11 DEF LockPages, active, hw
  <2>3. ver[c] \in Nat /\ ver[c] <= min_version(tracker)
    BY <1>0, <2>2 DEF ActiveInv, TypeOK
  <2>4. \A q \in arg[c] : /\ pte[q] # "Leaf"
                          /\ pages[q].state = "Converting" => pages[q].arg < ver[c]
    BY <1>11 DEF LockPages, Lockable, is_converted_page, IsConvertible
  <2>5. \A d \in Cpu : pc[d] = "fence" => pc'[d] = "fence"
    BY <1>3, <2>2
  <2>6. min_version(tracker) \in Nat /\ min_version(tracker) <= tracker.current.version
    <3>1. CASE tracker.prev.count = 0
      BY <1>1, <3>1 DEF min_version
    <3>2. CASE tracker.prev.count # 0
      <4>1. tracker.prev # NoPrev
        BY <3>2 DEF NoPrev
      <4>2. tracker.prev.version < tracker.current.version /\ tracker.prev.version \in Nat
        BY <1>0, <4>1, PrevBelow
      <4>3. min_version(tracker) = tracker.prev.version
        BY <3>2 DEF min_version
      <4>. QED
        BY <1>1, <4>2, <4>3
    <3>. QED
      BY <3>1, <3>2
  <2>7. ASSUME NEW q \in iotlb, q \notin raced, q \in arg[c]
        PROVE  FALSE
    <3>1. /\ pages[q].state = "Converting"
          /\ \/ pages[q].arg = tracker.current.version
             \/ pages[q].arg = tracker.prev.version /\ \E d \in Cpu : pc[d] = "fence"
      BY <1>0, <2>4, <2>7 DEF IotlbInv
    <3>2. pages[q].arg \in Nat /\ pages[q].arg < ver[c]
      BY <1>1, <2>4, <2>7, <3>1
    <3>3. CASE pages[q].arg = tracker.current.version
      BY <1>1, <2>3, <2>6, <3>2, <3>3
    <3>4. CASE pages[q].arg = tracker.prev.version /\ \E d \in Cpu : pc[d] = "fence"
      <4>1. pages[q].arg = min_version(tracker)
        BY <3>4, FencingCpu
      <4>. QED
        BY <2>3, <2>6, <3>2, <4>1
    <3>. QED
      BY <3>1, <3>3, <3>4
  <2>8. \A q \in iotlb : q \notin raced => pages'[q] = pages[q]
    BY <1>1, <2>1, <2>7
  <2>. QED
    <3> SUFFICES ASSUME NEW q \in iotlb, q \notin raced, pte[q] # "Leaf"
                 PROVE  /\ pages'[q].state = "Converting"
                        /\ \/ pages'[q].arg = tracker.current.version
                           \/ /\ pages'[q].arg = tracker.prev.version
                              /\ \E d \in Cpu : pc'[d] = "fence"
      BY <2>2 DEF IotlbInv
    <3>1. pages'[q] = pages[q]
      BY <2>8
    <3>2. /\ pages[q].state = "Converting"
          /\ \/ pages[q].arg = tracker.current.version
             \/ pages[q].arg = tracker.prev.version /\ \E d \in Cpu : pc[d] = "fence"
      BY <1>0 DEF IotlbInv
    <3>. QED
      BY <2>5, <3>1, <3>2
<1>12. ASSUME NEW c \in Cpu, NEW p \in Page, NEW g \in Guest, NEW st \in {"Mapped", "VmState"},
              AssignPage(c, p, g, st)
       PROVE  IotlbInv'
  <2>1. pages[p].state = "ConvertedLocked" /\ pte[p] = "Invalidated"
    BY <1>0, <1>12, ListedPage DEF AssignPage
  <2>2. /\ \A q \in Page : q # p => pages'[q] = pages[q]
        /\ UNCHANGED <<pte, raced, iotlb, tracker>> /\ Treated(c, p) /\ pc[c] # "fence"
    BY <1>1, <1>12 DEF AssignPage, assign_page, active, hw
  <2>3. \A d \in Cpu : pc[d] = "fence" => pc'[d] = "fence"
    BY <1>4, <2>2
  <2>. QED
    BY <1>0, <2>1, <2>2, <2>3, IotlbFrame
<1>13. ASSUME NEW c \in Cpu, NEW p \in Page, UnlockPage(c, p)
       PROVE  IotlbInv'
  <2>1. pages[p].state = "ConvertedLocked" /\ pte[p] = "Invalidated"
    BY <1>0, <1>13, ListedPage DEF UnlockPage
  <2>2. /\ \A q \in Page : q # p => pages'[q] = pages[q]
        /\ UNCHANGED <<pte, raced, iotlb, tracker>> /\ Treated(c, p) /\ pc[c] # "fence"
    BY <1>1, <1>13 DEF UnlockPage, unlock_page, active, hw
  <2>3. \A d \in Cpu : pc[d] = "fence" => pc'[d] = "fence"
    BY <1>4, <2>2
  <2>. QED
    BY <1>0, <2>1, <2>2, <2>3, IotlbFrame
<1>14. ASSUME NEW c \in Cpu, ReclaimLock(c)
       PROVE  IotlbInv'
  <2>1. /\ UNCHANGED <<pages, raced, iotlb, tracker>> /\ Goto(c, "remap") /\ pc[c] = "locked"
        /\ \A q \in Page : pte'[q] = IF q \in arg[c] THEN "LockedUnmapped" ELSE pte[q]
    BY <1>14 DEF ReclaimLock, active, hw
  <2>2. \A q \in arg[c] : pte[q] # "Leaf"
    BY <1>0, <2>1 DEF OpInv
  <2>3. \A d \in Cpu : pc[d] = "fence" => pc'[d] = "fence"
    BY <1>3, <2>1
  <2>. QED
    BY <1>0, <2>1, <2>2, <2>3, IotlbFrame
<1>15. ASSUME NEW c \in Cpu, NEW p \in Page, ReclaimPage(c, p)
       PROVE  IotlbInv'
  <2>1. /\ pte' = [pte EXCEPT ![p] = "Leaf"]
        /\ \A q \in Page : q # p => pages'[q] = pages[q]
        /\ raced' = raced \ {p}
        /\ UNCHANGED <<iotlb, tracker>> /\ Treated(c, p) /\ pc[c] # "fence"
    BY <1>1, <1>15 DEF ReclaimPage, reclaim_page, active, hw
  <2>2. pte'[p] = "Leaf" /\ \A q \in Page : q # p => pte'[q] = pte[q]
    BY <1>1, <2>1
  <2>3. \A d \in Cpu : pc[d] = "fence" => pc'[d] = "fence"
    BY <1>4, <2>1
  <2>. QED
    BY <1>0, <2>1, <2>2, <2>3, IotlbFrame
<1>16. ASSUME NEW c \in Cpu, NEW S \in PageRange, NEW h \in Holder, ShareRange(c, S, h)
       PROVE  IotlbInv'
  <2>1. \A q \in Page : q \notin S => pages'[q] = pages[q]
    BY <1>1, <1>16 DEF ShareRange, share_pages
  <2>2. UNCHANGED <<pte, raced, iotlb, tracker, pc>> /\ \A q \in S : pte[q] = "Leaf"
    BY <1>16 DEF ShareRange, active, hw
  <2>. QED
    BY <1>0, <2>1, <2>2, IotlbFrame
<1>17. ASSUME NEW p \in Page, NEW h \in Holder, Unshare(h, p)
       PROVE  IotlbInv'
  <2>1. pages[p].state = "Shared"
    BY <1>0, <1>17, HolderMeansShared DEF Unshare
  <2>2. pte[p] = "Leaf"
    BY <1>0, <2>1 DEF PageInv
  <2>3. /\ \A q \in Page : q # p => pages'[q] = pages[q]
        /\ UNCHANGED <<pte, raced, iotlb, tracker, pc>>
    BY <1>1, <1>17 DEF Unshare, release_page_by_addr, active, hw
  <2>. QED
    BY <1>0, <2>2, <2>3, IotlbFrame
<1>18. ASSUME NEW p \in Page, NEW g \in Guest, GuestRelease(g, p)
       PROVE  IotlbInv'
  <2>1. ~HostOwned(pages[p])
    BY <1>0, <1>18, PageOwner DEF GuestRelease
  <2>2. pages[p].state \in {"Mapped", "VmState"} /\ pte[p] # "Leaf"
    BY <1>0, <2>1 DEF PageInv
  <2>3. /\ \A q \in Page : q # p => pages'[q] = pages[q]
        /\ UNCHANGED <<pte, raced, iotlb, tracker, pc>>
    BY <1>1, <1>18 DEF GuestRelease, release_page_by_addr, active, hw
  <2>. QED
    BY <1>0, <2>2, <2>3, IotlbFrame
<1>19. ASSUME NEW c \in Cpu, SpaceStep(c)
       PROVE  IotlbInv'
  BY <1>2, <1>5, <1>6, <1>19 DEF SpaceStep, TlbFill, active
<1>20. ASSUME NEW c \in Cpu, ConvertStep(c)
       PROVE  IotlbInv'
  <2>1. ASSUME NEW S \in PageRange, ConvertBegin(c, S)
        PROVE  IotlbInv'
    BY <1>2, <1>3, <2>1 DEF ConvertBegin, active, hw
  <2>2. CASE ConvertLock(c)
    BY <1>2, <1>3, <2>2 DEF ConvertLock, active, hw
  <2>3. CASE ConvertFail(c)
    BY <1>2, <1>3, <2>3 DEF ConvertFail, Return, active, hw
  <2>. QED
    BY <1>8, <1>9, <1>10, <1>20, <2>1, <2>2, <2>3 DEF ConvertStep
<1>21. ASSUME NEW c \in Cpu, LockStep(c)
       PROVE  IotlbInv'
  <2>1. ASSUME NEW S \in PageRange, NEW o \in {"assign", "reclaim"}, LockBegin(c, S, o)
        PROVE  IotlbInv'
    BY <1>2, <1>3, <2>1 DEF LockBegin, active, hw
  <2>2. CASE LockFail(c)
    BY <1>2, <1>3, <2>2 DEF LockFail, Return, active, hw
  <2>. QED
    BY <1>11, <1>12, <1>13, <1>14, <1>15, <1>21, <2>1, <2>2 DEF LockStep
<1>22. ASSUME OtherStep
       PROVE  IotlbInv'
  BY <1>7, <1>17, <1>18, <1>22 DEF OtherStep
<1>23. CASE UNCHANGED vars
  BY <1>2, <1>23 DEF vars
<1>. QED
  BY <1>16, <1>19, <1>20, <1>21, <1>22, <1>23 DEF Next

-----------------------------------------------------------------------------
(* The theorems.                                                           *)

\* The invariant holds initially.
LEMMA InitInv ==
    ASSUME Init
    PROVE  IInv
<1>1. /\ HostPage("Mapped").mem = "Ram" /\ HostPage("Mapped").state = "Mapped"
      /\ HostPage("Mapped").arg = 0 /\ HostPage("Mapped").owners = <<HostId>>
  BY DEF HostPage
<1>2. <<HostId>> \in Seq(Nat) /\ Len(<<HostId>>) = 1 /\ <<HostId>>[1] = HostId
  BY DEF HostId
<1>3. <<HostId>> \in PageOwnerVec
  BY <1>2, ShortOwnerVec, 1 <= 2
<1>4. HostPage("Mapped") \in PageInfoType
  BY <1>3 DEF HostPage, PageInfoType, MemType, PageState
<1>5. HostOwned(HostPage("Mapped"))
  BY <1>1, <1>2 DEF HostOwned
<1>6. TlbTrackerNew \in TlbTrackerType
  BY DEF TlbTrackerNew, TlbTrackerType
<1>7. TypeOK
  BY <1>4, <1>6 DEF Init, TypeOK, Pte, Pc, NoVersion
<1>8. TlbTrackerNew.current.version = 0 /\ TlbTrackerNew.current.count = 0
      /\ TlbTrackerNew.prev = NoPrev
  BY DEF TlbTrackerNew
<1>9. RefInv
  <2>1. Users(0) = {}
    BY DEF Init, Users, NoVersion
  <2>2. Cardinality(Users(0)) = 0
    BY <2>1, FS_EmptySet
  <2>. QED
    BY <1>8, <2>2 DEF Init, RefInv
<1>10. ActiveInv
  BY <1>8 DEF Init, ActiveInv, NoVersion
<1>11. PageInv
  BY <1>1, <1>5 DEF Init, PageInv
<1>12. OpInv
  BY <1>1 DEF Init, OpInv
<1>13. SharedCount /\ TlbInv /\ IotlbInv
  BY <1>1 DEF Init, SharedCount, TlbInv, IotlbInv
<1>. QED
  BY <1>7, <1>9, <1>10, <1>11, <1>12, <1>13 DEF IInv

\* Every step preserves the invariant.
LEMMA StepInv ==
    ASSUME IInv, [Next]_vars
    PROVE  IInv'
BY TypeStep, RefStep, ActiveStep, PageStep, OpStep, SharedStep, TlbStep, IotlbStep DEF IInv

\* The inductive invariant holds in every reachable state.
THEOREM Invariance == Spec => []IInv
<1>1. Init => IInv
  BY InitInv
<1>2. IInv /\ [Next]_vars => IInv'
  BY StepInv
<1>. QED
  BY <1>1, <1>2, PTL DEF Spec

\* Type correctness of the host's memory state: the page map, the PTEs and the
\* tracker keep their shape under every ecall, on any number of CPUs and pages.
THEOREM TypeCorrect == Spec => []TypeOK
<1>1. IInv => TypeOK
  BY DEF IInv
<1>. QED
  BY <1>1, Invariance, PTL

\* The page the inductive invariant speaks of is one the host may still use.
LEMMA AccessibleIfHeld ==
    ASSUME IInv, NEW p \in Page,
           pte[p] = "Leaf" \/ pages[p].state = "Converting"
    PROVE  HostAccessible(p)
<1>1. TypeOK /\ PageInv
  BY DEF IInv
<1>2. HostOwned(pages[p]) /\ pages[p].state \in {"Mapped", "Shared", "Converting"}
  BY <1>1 DEF PageInv
<1>. QED
  BY <1>1, <1>2, PageOwner DEF HostAccessible

\* No CPU on which the host runs has a translation to a page that has completed
\* conversion, belongs to a guest or is being reclaimed, unless a fence overtook the
\* page's conversion: the fence protocol of ActiveVmPages and TlbTracker is sound.
THEOREM HostTranslationsFenced == Spec => []NoStaleHostTranslation
<1>1. ASSUME IInv
      PROVE  NoStaleHostTranslation
  <2>1. TypeOK /\ RefInv /\ ActiveInv /\ TlbInv
    BY <1>1 DEF IInv
  <2>2. SUFFICES ASSUME NEW c \in Cpu, held[c] # NoVersion, NEW p \in tlb[c] \ raced
                 PROVE  HostAccessible(p)
    BY DEF NoStaleHostTranslation
  <2>3. p \in Page
    BY <2>1 DEF TypeOK
  <2>4. ~(prevTlb[c] < min_version(tracker))
    BY <2>1, <2>2, HeldNotBelowMin DEF ActiveInv
  <2>5. pte[p] = "Leaf" \/ pages[p].state = "Converting"
    BY <2>1, <2>4 DEF TlbInv
  <2>. QED
    BY <1>1, <2>3, <2>5, AccessibleIfHeld
<1>. QED
  BY <1>1, Invariance, PTL

\* The same for the translations of the host's devices in the IOMMU, which
\* initiate_fence flushes between the increment and its own sync_tlb().
THEOREM DmaFenced == Spec => []NoStaleDma
<1>1. ASSUME IInv
      PROVE  NoStaleDma
  <2>1. TypeOK /\ IotlbInv
    BY <1>1 DEF IInv
  <2>. QED
    BY <1>1, <2>1, AccessibleIfHeld DEF NoStaleDma, IotlbInv, TypeOK
<1>. QED
  BY <1>1, Invariance, PTL

\* The tracker's counts are exact, so put_version never fails when a vCPU drops its
\* ActiveVmPages.
THEOREM RefCountsExact == Spec => []TlbRefCounts
<1>1. ASSUME IInv
      PROVE  TlbRefCounts
  <2>1. TypeOK /\ RefInv
    BY <1>1 DEF IInv
  <2>2. \A c \in Cpu : held[c] # NoVersion => CanPutVersion(tracker, held[c])
    BY <2>1, UserCounted
  <2>. QED
    BY <2>1, <2>2 DEF RefInv, TlbRefCounts
<1>. QED
  BY <1>1, Invariance, PTL

\* The host's page table maps exactly the pages it owns and has mapped or shared: no
\* page of a guest is reachable through it.
THEOREM PteOwnership == Spec => []PteMatchesOwnership
<1>1. ASSUME IInv
      PROVE  PteMatchesOwnership
  <2>1. TypeOK /\ PageInv
    BY <1>1 DEF IInv
  <2>. QED
    BY <2>1, PageOwner DEF PageInv, PteMatchesOwnership
<1>. QED
  BY <1>1, Invariance, PTL

\* A converted page is locked by one operation at a time, so no page is assigned
\* twice or reclaimed while it is being assigned.
THEOREM LockExclusion == Spec => []LocksExclusive
<1>1. ASSUME IInv
      PROVE  LocksExclusive
  <2>1. TypeOK /\ OpInv
    BY <1>1 DEF IInv
  <2>2. SUFFICES ASSUME NEW p \in Page
                 PROVE  LET O == {c \in Cpu : pc[c] \in {"locked", "remap"} /\ p \in arg[c]}
                        IN  IF pages[p].state = "ConvertedLocked" THEN Cardinality(O) = 1
                                                                  ELSE O = {}
    BY DEF LocksExclusive
  <2> DEFINE O == {c \in Cpu : pc[c] \in {"locked", "remap"} /\ p \in arg[c]}
  <2>3. CASE pages[p].state = "ConvertedLocked"
    <3>1. PICK c \in Cpu : pc[c] \in {"locked", "remap"} /\ p \in arg[c]
      BY <2>1, <2>3 DEF OpInv
    <3>2. \A d \in O : d = c
      BY <2>1, <3>1 DEF OpInv
    <3>3. O = {c}
      BY <3>1, <3>2
    <3>. QED
      BY <2>3, <3>3, FS_Singleton
  <2>4. CASE pages[p].state # "ConvertedLocked"
    BY <2>1, <2>4 DEF OpInv
  <2>. QED
    BY <2>3, <2>4
<1>. QED
  BY <1>1, Invariance, PTL

\* The count of a shared page is the number of its holders.
THEOREM SharedCountExact == Spec => []SharedCount
<1>1. IInv => SharedCount
  BY DEF IInv
<1>. QED
  BY <1>1, Invariance, PTL

\* The unwraps that rely on an earlier check do not panic, whatever other CPUs and
\* guests do between the check and the use.
THEOREM NoPanic == Spec => []UnwrapsSucceed
<1>1. ASSUME IInv
      PROVE  UnwrapsSucceed
  <2>1. TypeOK /\ PageInv /\ OpInv /\ SharedCount
    BY <1>1 DEF IInv
  <2>2. \A q \in Page : pages[q] \in PageInfoType
    BY <2>1 DEF TypeOK
  <2>3. ASSUME NEW c \in Cpu, NEW p \in Page, p \in arg[c]
        PROVE  /\ pc[c] = "invalid" => pte[p] = "Leaf" /\ CanBeginConversion(pages[p])
               /\ pc[c] = "locked" => /\ CanUnlock(pages[p])
                                      /\ \A g \in Guest : can_assign_page(pages, p, g, "Mapped")
                                      /\ pte[p] = "Invalidated"
               /\ pc[c] = "remap" => CanReclaim(pages[p]) /\ pte[p] = "LockedUnmapped"
    <3>1. pc[c] = "invalid" => pte[p] = "Leaf" /\ CanBeginConversion(pages[p])
      BY <2>1, <2>3 DEF OpInv, CanBeginConversion
    <3>2. pc[c] = "remap" => CanReclaim(pages[p]) /\ pte[p] = "LockedUnmapped"
      BY <2>1, <2>3 DEF OpInv, CanReclaim
    <3>3. ASSUME pc[c] = "locked", NEW g \in Guest
          PROVE  can_assign_page(pages, p, g, "Mapped")
      <4>1. HostOwned(pages[p]) /\ pages[p].state = "ConvertedLocked"
        BY <2>1, <2>3, <3>3 DEF OpInv, PageInv
      <4>. QED
        BY <2>2, <4>1, AssignHostPage DEF can_assign_page
    <3>4. pc[c] = "locked" => CanUnlock(pages[p]) /\ pte[p] = "Invalidated"
      BY <2>1, <2>3 DEF OpInv, CanUnlock
    <3>. QED
      BY <3>1, <3>2, <3>3, <3>4
  <2>4. ASSUME NEW p \in Page, NEW h \in refs[p]
        PROVE  can_release_page_by_addr(pages, p, HostId)
    <3>1. pages[p].state = "Shared" /\ pages[p].arg # 0
      BY <2>1, HolderMeansShared
    <3>. QED
      BY <2>2, <3>1, ReleaseShared DEF can_release_page_by_addr, IsShared
  <2>5. ASSUME NEW p \in Page, NEW g \in Guest, is_owned(pages, p, g)
        PROVE  can_release_page_by_addr(pages, p, g)
    <3>1. GuestOwned(pages[p]) /\ ~HostOwned(pages[p])
      BY <2>1, <2>5, PageOwner
    <3>2. pages[p].state \in {"Mapped", "VmState"}
      BY <2>1, <3>1 DEF PageInv
    <3>. QED
      BY <2>2, <2>5, <3>1, <3>2, ReleaseGuestPage DEF can_release_page_by_addr
  <2>. QED
    BY <2>3, <2>4, <2>5 DEF UnwrapsSucceed
<1>. QED
  BY <1>1, Invariance, PTL

\* The minimum version never goes back: a conversion that is complete stays complete.
THEOREM MinVersionNeverDecreases == Spec => MinVersionMonotone
<1>1. IInv /\ [Next]_vars => [min_version(tracker) <= min_version(tracker')]_vars
  BY VersionsMonotone
<1>. QED
  BY <1>1, Invariance, PTL DEF Spec, MinVersionMonotone

\* A page of the host that a step gives to a guest was locked on a LockedPageList.
LEMMA OwnerChange ==
    ASSUME IInv, [Next]_vars, NEW p \in Page, HostOwned(pages[p]), ~HostOwned(pages'[p])
    PROVE  pages[p].state = "ConvertedLocked" /\ pte[p] = "Invalidated"
<1> DEFINE Goal == pages[p].state = "ConvertedLocked" /\ pte[p] = "Invalidated"
<1>0. TypeOK /\ PageInv /\ OpInv /\ SharedCount
  BY DEF IInv
<1>1. /\ \A q \in Page : pages[q] \in PageInfoType
      /\ pages \in [Page -> PageInfoType]
  BY <1>0 DEF TypeOK
<1>2. pages' # pages
  OBVIOUS
<1>3. pages'[p].owners # pages[p].owners
  BY DEF HostOwned
<1>4. ASSUME NEW c \in Cpu, SpaceStep(c)
      PROVE  Goal
  BY <1>2, <1>4 DEF SpaceStep, EnterSameVmid, EnterNewVmid, Leave, TlbFill
<1>5. ASSUME NEW q \in Page, NEW st, NEW n, pages' = [pages EXCEPT ![q] = WithState(@, st, n)]
      PROVE  FALSE
  BY <1>1, <1>3, <1>5, WithStateKeeps
<1>6. ASSUME NEW c \in Cpu, ConvertStep(c)
      PROVE  Goal
  <2>1. ASSUME NEW q \in Page, ConvertPage(c, q)
        PROVE  FALSE
    <3>1. pages' = [pages EXCEPT ![q] = WithState(@, "Converting", ver[c])]
      BY <2>1 DEF ConvertPage, convert_page, BeginConversion
    <3>. QED
      BY <1>5, <3>1
  <2>. QED
    BY <1>2, <1>6, <2>1
    DEF ConvertStep, ConvertBegin, ConvertLock, ConvertFail, FenceBegin, FenceIommu
<1>7. ASSUME NEW c \in Cpu, LockPages(c)
      PROVE  FALSE
  <2>1. pages'[p] = IF p \in arg[c] THEN WithState(pages[p], "ConvertedLocked", 0) ELSE pages[p]
    BY <1>1, <1>7 DEF LockPages, get_converted_pages, LockForAssignment
  <2>. QED
    <3>1. pages[p] \in PageInfoType
      BY <1>1
    <3>2. WithState(pages[p], "ConvertedLocked", 0).owners = pages[p].owners
      <4>1. PICK info \in PageInfoType : info = pages[p]
        BY <3>1
      <4>2. WithState(info, "ConvertedLocked", 0).owners = info.owners
        BY <4>1 DEF WithState, PageInfoType
      <4>. QED
        BY <4>1, <4>2
    <3>. QED
      BY <1>3, <2>1, <3>2
<1>8. ASSUME NEW c \in Cpu, NEW q \in Page, NEW g \in Guest, NEW st \in {"Mapped", "VmState"},
             AssignPage(c, q, g, st)
      PROVE  Goal
  <2>1. q = p
    BY <1>1, <1>3, <1>8 DEF AssignPage, assign_page
  <2>. QED
    <3>1. pc[c] = "locked" /\ p \in arg[c]
      BY <1>8, <2>1 DEF AssignPage
    <3>. QED
      BY <1>0, <3>1, ListedPage
<1>9. ASSUME NEW c \in Cpu, LockStep(c)
      PROVE  Goal
  BY <1>2, <1>5, <1>7, <1>8, <1>9
  DEF LockStep, LockBegin, LockFail, UnlockPage, unlock_page, Unlock, ReclaimLock,
      ReclaimPage, reclaim_page, Reclaim
<1>10. ASSUME NEW c \in Cpu, NEW S \in PageRange, NEW h \in Holder, ShareRange(c, S, h)
       PROVE  FALSE
  <2>1. pages'[p] = IF p \in S THEN Share(pages[p]) ELSE pages[p]
    BY <1>1, <1>10 DEF ShareRange, share_pages
  <2>. QED
    BY <1>1, <1>3, <2>1, ShareFields
<1>11. ASSUME NEW q \in Page, NEW h \in Holder, Unshare(h, q)
       PROVE  FALSE
  <2>1. pages[q].state = "Shared" /\ pages[q].arg # 0
    BY <1>0, <1>11, HolderMeansShared DEF Unshare
  <2>2. pages' = [pages EXCEPT ![q] = Release(@)]
    BY <1>11 DEF Unshare, release_page_by_addr
  <2>. QED
    BY <1>1, <1>3, <2>1, <2>2, ReleaseShared
<1>12. ASSUME NEW q \in Page, NEW g \in Guest, GuestRelease(g, q)
       PROVE  FALSE
  <2>1. GuestOwned(pages[q]) /\ q # p
    BY <1>0, <1>12, PageOwner DEF GuestRelease
  <2>. QED
    BY <1>1, <1>3, <1>12, <2>1 DEF GuestRelease, release_page_by_addr
<1>13. ASSUME OtherStep
       PROVE  Goal
  BY <1>2, <1>11, <1>12, <1>13 DEF OtherStep, IotlbFill
<1>14. ASSUME UNCHANGED vars
       PROVE  FALSE
  BY <1>2, <1>14 DEF vars
<1>. QED
  BY <1>4, <1>6, <1>9, <1>10, <1>13, <1>14 DEF Next

\* A page goes from the host to a guest only out of the converted and locked state.
THEOREM AssignmentIsConverted == Spec => AssignOnlyConverted
<1> DEFINE A == \A p \in Page : is_owned(pages, p, HostId) /\ ~is_owned(pages', p, HostId)
                  => pages[p].state = "ConvertedLocked" /\ pte[p] = "Invalidated"
<1>1. ASSUME IInv, [Next]_vars
      PROVE  A
  <2>1. TypeOK /\ PageInv /\ TypeOK' /\ PageInv'
    BY <1>1, TypeStep, PageStep DEF IInv
  <2>2. ASSUME NEW p \in Page
        PROVE  /\ is_owned(pages, p, HostId) => HostOwned(pages[p])
               /\ HostOwned(pages'[p]) => is_owned(pages', p, HostId)
    <3>1. is_owned(pages, p, HostId) => HostOwned(pages[p])
      BY <2>1, PageOwner
    <3>2. pages'[p] \in PageInfoType /\ pages'[p].state \notin {"Reserved", "Free", "HypState"}
      BY <2>1 DEF TypeOK, PageInv
    <3>3. HostOwned(pages'[p]) => Owner(pages'[p]) = HostId
      BY <3>2, OwnerOfPage
    <3>. QED
      BY <3>1, <3>3 DEF is_owned
  <2>. QED
    BY <1>1, <2>2, OwnerChange
<1>2. IInv /\ [Next]_vars => [A]_vars
  BY <1>1
<1>. QED
  BY <1>2, Invariance, PTL DEF Spec, AssignOnlyConverted
=============================================================================
