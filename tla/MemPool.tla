------------------------------- MODULE MemPool -------------------------------
(***************************************************************************)
(* The physical memory manager: kalloc and kfree of lab2/src/pmm.c over    *)
(* the pools and the server of lab2/src/mempool.c, called by several CPUs. *)
(* (lab1/src/control.c is the same file but for the order of two lines.)   *)
(*                                                                         *)
(* The heap is an array of pages, each described by a pagenode_t.  The     *)
(* server keeps the free pages in a list sorted by address; a run of       *)
(* neighbouring pages is a block, and combpage of a page says how many     *)
(* pages of the block start with it.  The pool of a CPU is a list of       *)
(* blocks (combpage > 0), each one object of a page or more, and of single *)
(* pages (combpage = 0) that hold smaller objects.                         *)
(*                                                                         *)
(* kalloc and kfree run with interrupts off, so a CPU is in one call at a  *)
(* time; a step is what a CPU does between taking or releasing one of the  *)
(* two kinds of locks and the next.                                        *)
(***************************************************************************)
EXTENDS Integers, Sequences, FiniteSets, SequencesExt, FiniteSetsExt

CONSTANTS CpuCount,
          PageCount,
          PageSize,   \* PAGESIZE, in bytes
          Header,     \* sizeof(allocatednode_t)
          FirstPage,  \* the number, address / PageSize, of the first page
          MaxSize,    \* kalloc refuses more bytes
          Size        \* the sizes that callers ask for

ASSUME CountAssumption == CpuCount \in Nat \ {0} /\ PageCount \in Nat \ {0}
Power[k \in 0 .. 24] == IF k = 0 THEN 1 ELSE 2 * Power[k - 1]

ASSUME PageAssumption == /\ \E k \in 1 .. 20 : PageSize = Power[k]
                         /\ Header \in 1 .. PageSize \div 2
                         /\ FirstPage \in Nat
ASSUME SizeAssumption == Size \subseteq Nat /\ MaxSize \in 0 .. Power[24]

Cpu == 0 .. CpuCount - 1
Page == 1 .. PageCount
NULL == 0            \* no page
None == -1           \* no CPU

VARIABLES own, combpage, next,  \* the fields of each pagenode_t
          objects,      \* each page's list of allocatednode_t: <<start, end>>
          serverPages, poolPages,   \* the heads of the lists
          poolLock,     \* the CPU that holds the pool's cpumemlock
          pc, size,     \* of each CPU: its call, and realsize if it allocates
          ptr, at,      \* what it frees, and the pool it looks at
          live          \* the objects <<start, end>> that callers have

nodeVars == <<own, combpage, next, serverPages, poolPages>>
callVars == <<size, ptr, at>>
vars == <<nodeVars, objects, poolLock, pc, callVars, live>>

\* Addresses: where page p starts, and where it ends.
Start(p) == (FirstPage + p - 1) * PageSize
End(p) == Start(p) + PageSize
Address == 0 .. Start(PageCount + 1)

TypeOK == /\ own \in [Page -> {0, 1}]
          /\ combpage \in [Page -> 0 .. PageCount]
          /\ next \in [Page -> Page \cup {NULL}]
          /\ \A p \in Page : objects[p] \in Seq((Start(p) .. End(p)) \X (Start(p) .. End(p)))
          /\ serverPages \in Page \cup {NULL}
          /\ poolPages \in [Cpu -> Page \cup {NULL}]
          /\ poolLock \in [Cpu -> Cpu \cup {None}]
          /\ pc \in [Cpu -> {"idle", "fetch", "link", "search", "giveBack", "lost"}]
          /\ size \in [Cpu -> Nat]
          /\ ptr \in [Cpu -> Address \cup Page]
          /\ at \in [Cpu -> Cpu]
          /\ live \subseteq Address \X Address

\* pmm_init: one block of all the pages, in the server.
Init == /\ own = [p \in Page |-> 0]
        /\ combpage = [p \in Page |-> PageCount - p + 1]
        /\ next = [p \in Page |-> IF p = PageCount THEN NULL ELSE p + 1]
        /\ objects = [p \in Page |-> <<>>]
        /\ serverPages = 1
        /\ poolPages = [c \in Cpu |-> NULL]
        /\ poolLock = [c \in Cpu |-> None]
        /\ pc = [c \in Cpu |-> "idle"]
        /\ size = [c \in Cpu |-> 0]
        /\ ptr = [c \in Cpu |-> 0]
        /\ at = [c \in Cpu |-> 0]
        /\ live = {}
------------------------------------------------------------------------------
(* Lists of blocks                                                          *)

\* The last page of the block that starts with page h, and the block.
TailPage(h) == IF combpage[h] = 0 THEN h ELSE h + combpage[h] - 1
Block(h) == h .. TailPage(h)

\* The first pages of the blocks of the list that starts with page h, and the
\* page after which the i-th of them hangs (NULL: it is the first).
Heads(h) ==
    LET upTo[k \in 0 .. PageCount] ==
          IF k = 0 THEN <<>>
          ELSE LET s == upTo[k - 1]
                   p == IF s = <<>> THEN h ELSE next[TailPage(s[Len(s)])]
               IN IF p = NULL THEN s ELSE Append(s, p)
    IN upTo[PageCount]
Prior(heads, i) == IF i = 1 THEN NULL ELSE TailPage(heads[i - 1])

\* The pages before page b that lead up to it without a gap, each the next of
\* the one before (memserver's loops "while(nodeAsist->next==nodeAsist+1...)").
LeadUp(nxt, b) == {p \in 1 .. b - 1 : \A q \in p .. b - 1 : nxt[q] = q + 1}

\* n consecutive pages of one block whose numbers fill a multiple of n.
CeilDiv(a, n) == (a + n - 1) \div n
FirstNumber(h) == Start(h) \div PageSize
Fits(h, n) == CeilDiv(FirstNumber(h), n) < (FirstNumber(TailPage(h)) + 1) \div n
Aligned(h, n) == h + ((n - (FirstNumber(h) % n)) % n)

\* realsize: the least power of two that is not less than the size.
RealSize(s) == Power[CHOOSE k \in 0 .. 24 : s <= Power[k] /\ (k = 0 \/ Power[k - 1] < s)]
Pages(s) == s \div PageSize
------------------------------------------------------------------------------
(* Objects in a page                                                        *)

\* The gap before the i-th node of a page's list (the last is tailnode, which
\* lies a Header beyond the page) runs from the end of the node before.
GapStart(p, i) == IF i = 1 THEN Start(p) ELSE objects[p][i - 1][2]

\* Variant: the last gap ends with the page after this one.
GapEndPast(p, i) == IF i > Len(objects[p]) THEN End(p + 1) ELSE objects[p][i][1] - Header

GapEnd(p, i) == IF i > Len(objects[p]) THEN End(p) ELSE objects[p][i][1] - Header

\* Variant: no room is left for the header of the new object.
PlaceNoHeader(p, i, s) == CeilDiv(GapStart(p, i), s) * s

\* Where an object of s bytes starts in that gap: a multiple of s with room for
\* its own header before it.
Place(p, i, s) == CeilDiv(GapStart(p, i) + Header, s) * s

\* The gaps with room for s bytes, and the object in the first of them.
Gaps(p, s) == {i \in 1 .. Len(objects[p]) + 1 : Place(p, i, s) \div s < GapEnd(p, i) \div s}
Object(p, s) == LET at0 == Place(p, Min(Gaps(p, s)), s) IN <<at0, at0 + s>>
Deliver(p, s) == [objects EXCEPT ![p] = InsertAt(@, Min(Gaps(p, s)), Object(p, s))]
------------------------------------------------------------------------------
(* kalloc, cpumempool_delivery                                              *)

\* A small object in the first page of the CPU's pool with room for it; without
\* one, or for an object of a page or more, the server is asked.
Carve(c, s) ==
  LET heads == Heads(poolPages[c])
      i == SelectInSeq(heads, LAMBDA h : combpage[h] = 0 /\ Gaps(h, s) # {})
  IN /\ pc[c] = "idle"
     /\ poolLock[c] = None
     /\ \/ /\ s < PageSize
           /\ i # 0
           /\ objects' = Deliver(heads[i], s)
           /\ live' = live \cup {Object(heads[i], s)}
           /\ UNCHANGED <<poolLock, pc, size>>
        \/ /\ s >= PageSize \/ i = 0
           /\ poolLock' = [poolLock EXCEPT ![c] = c]
           /\ size' = [size EXCEPT ![c] = s]
           /\ pc' = [pc EXCEPT ![c] = "fetch"]
           /\ UNCHANGED <<objects, live>>
     /\ UNCHANGED <<nodeVars, ptr, at>>

Kalloc(c) == \E bytes \in {b \in Size : b \in 1 .. MaxSize} : Carve(c, RealSize(bytes))

\* How many pages of the block that starts with page h, of which n are taken from
\* page b on, are left from page p < b on.
\* Variant: only the pages that are taken are gone, not those after them.
LeftTaken(p, b, n) == combpage[p] - n

Left(p, b, n) == combpage[p] - combpage[b]

\* memserver_delivery, under serverlock: the first block of the server with n
\* aligned pages; the pages before them stay a block, and so do those after.
Fetch(c) ==
  LET n == Max({1, Pages(size[c])})
      heads == Heads(serverPages)
      i == SelectInSeq(heads, LAMBDA h : Fits(h, n))
      h == heads[i]
      b == Aligned(h, n)
      e == b + n - 1
      before == IF b = h THEN Prior(heads, i) ELSE b - 1
  IN /\ pc[c] = "fetch"
     /\ \/ /\ i = 0
           /\ pc' = [pc EXCEPT ![c] = "idle"]
           /\ size' = [size EXCEPT ![c] = 0]
           /\ poolLock' = [poolLock EXCEPT ![c] = None]
           /\ UNCHANGED <<nodeVars, ptr>>
        \/ /\ i # 0
           /\ serverPages' = IF before = NULL THEN next[e] ELSE serverPages
           /\ next' = [p \in Page |-> IF p = e THEN NULL
                                      ELSE IF p = before THEN next[e] ELSE next[p]]
           /\ combpage' = [p \in Page |->
                 IF p \in b .. e THEN IF size[c] < PageSize THEN 0 ELSE n - (p - b)
                 ELSE IF b # h /\ p \in LeadUp(next, b) /\ p >= serverPages THEN Left(p, b, n)
                 ELSE combpage[p]]
           /\ own' = [p \in Page |-> IF p \in b .. e THEN 1 ELSE own[p]]
           /\ ptr' = [ptr EXCEPT ![c] = b]
           /\ pc' = [pc EXCEPT ![c] = "link"]
           /\ UNCHANGED <<poolPages, poolLock, size>>
     /\ UNCHANGED <<objects, at, live>>

\* The pages become the first block of the pool.
Link(c) ==
  LET b == ptr[c]
      s == size[c]
  IN /\ pc[c] = "link"
     /\ next' = [next EXCEPT ![TailPage(b)] = poolPages[c]]
     /\ poolPages' = [poolPages EXCEPT ![c] = b]
     /\ \/ /\ s >= PageSize
           /\ live' = live \cup {<<Start(b), Start(b) + s>>}
           /\ UNCHANGED objects
        \/ /\ s < PageSize
           /\ objects' = Deliver(b, s)
           /\ live' = live \cup {Object(b, s)}
     /\ poolLock' = [poolLock EXCEPT ![c] = None]
     /\ pc' = [pc EXCEPT ![c] = "idle"]
     /\ size' = [size EXCEPT ![c] = 0]
     /\ ptr' = [ptr EXCEPT ![c] = 0]
     /\ UNCHANGED <<own, combpage, serverPages, at>>
------------------------------------------------------------------------------
(* kfree, cpumempool_receive                                                *)

\* Any CPU frees an object, whichever CPU asked for it.
Kfree(c, o) == /\ pc[c] = "idle"
               /\ o \in live
               /\ live' = live \ {o}
               /\ ptr' = [ptr EXCEPT ![c] = o[1]]
               /\ at' = [at EXCEPT ![c] = 0]
               /\ pc' = [pc EXCEPT ![c] = "search"]
               /\ UNCHANGED <<nodeVars, objects, poolLock, size>>

\* Variant: the block is taken for the first of the list.
UnlinkFirst(pool, heads, i) ==
  LET h == heads[i]
  IN /\ poolPages' = [poolPages EXCEPT ![pool] = next[TailPage(h)]]
     /\ next' = [next EXCEPT ![TailPage(h)] = NULL]
     /\ own' = [p \in Page |-> IF p \in Block(h) THEN 0 ELSE own[p]]
     /\ UNCHANGED <<combpage, serverPages>>

\* The i-th block leaves the pool, and is the server's again.
Unlink(pool, heads, i) ==
  LET h == heads[i]
      before == Prior(heads, i)
  IN /\ poolPages' = IF before = NULL THEN [poolPages EXCEPT ![pool] = next[TailPage(h)]]
                                      ELSE poolPages
     /\ next' = [p \in Page |-> IF p = TailPage(h) THEN NULL
                                ELSE IF p = before THEN next[TailPage(h)] ELSE next[p]]
     /\ own' = [p \in Page |-> IF p \in Block(h) THEN 0 ELSE own[p]]
     /\ UNCHANGED <<combpage, serverPages>>

\* Variant: the last pool is left out.
MorePoolsButLast(pool) == pool + 2 < CpuCount

\* kfree's loop over the pools.
MorePools(pool) == pool + 1 < CpuCount

\* Variant: tested before the object is taken out.
EmptiesAlready(h, a) == objects[h] = <<>>

\* The list without the object at address a.
Without(h, a) == LET i == SelectInSeq(objects[h], LAMBDA o : o[1] = a)
                 IN IF i = 0 THEN objects[h] ELSE RemoveAt(objects[h], i)
Empties(h, a) == Without(h, a) = <<>>

\* One pool: a block of pages, or the last object of its page, whose pages go
\* back to the server; an object of a page with others; the next pool, if the
\* object is not in this one; lost, if it is in none or no object starts there.
Search(c) ==
  LET pool == at[c]
      heads == Heads(poolPages[pool])
      i == SelectInSeq(heads, LAMBDA p : ptr[c] >= Start(p) /\ ptr[c] < End(TailPage(p)))
      h == heads[i]
      rest == Without(h, ptr[c])
      Small == i # 0 /\ combpage[h] = 0 /\ ptr[c] # Start(h)
      Whole == i # 0 /\ combpage[h] # 0 /\ ptr[c] = Start(h)
      Found == Small /\ rest # objects[h]
      GoesBack == Whole \/ (Small /\ Empties(h, ptr[c]))
      Further == i = 0 /\ MorePools(pool)
  IN /\ pc[c] = "search"
     /\ poolLock[pool] = None
     /\ \/ /\ GoesBack
           /\ objects' = IF Small THEN [objects EXCEPT ![h] = rest] ELSE objects
           /\ Unlink(pool, heads, i)
           /\ poolLock' = [poolLock EXCEPT ![pool] = c]
           /\ ptr' = [ptr EXCEPT ![c] = h]
           /\ pc' = [pc EXCEPT ![c] = "giveBack"]
           /\ UNCHANGED at
        \/ /\ ~GoesBack
           /\ objects' = IF Small THEN [objects EXCEPT ![h] = rest] ELSE objects
           /\ at' = [at EXCEPT ![c] = IF Further THEN pool + 1 ELSE 0]
           /\ ptr' = [ptr EXCEPT ![c] = IF Further THEN @ ELSE 0]
           /\ pc' = [pc EXCEPT ![c] = IF Further THEN @ ELSE IF Found THEN "idle" ELSE "lost"]
           /\ UNCHANGED <<nodeVars, poolLock>>
     /\ UNCHANGED <<size, live>>

\* memserver_receive, under serverlock: the block of page s goes before the
\* first block that lies above it, and becomes one with its neighbours.  At
\* the end of the list it is appended only if its pages are not the server's.
GiveBack(c) ==
  LET s == ptr[c]
      e == TailPage(s)
      heads == Heads(serverPages)
      i == SelectInSeq(heads, LAMBDA h : h >= e)
      above == IF i = 0 THEN NULL ELSE heads[i]
      before == Prior(heads, IF i = 0 THEN Len(heads) + 1 ELSE i)
      joined == IF above = e + 1 THEN combpage[above] ELSE 0
      nxt == [p \in Page |-> IF p = e THEN above ELSE IF p = before THEN s ELSE next[p]]
      insert == heads = <<>> \/ i # 0 \/ own[s] = 1
  IN /\ pc[c] = "giveBack"
     /\ next' = IF insert THEN nxt ELSE next
     /\ serverPages' = IF insert /\ before = NULL THEN s ELSE serverPages
     /\ combpage' = [p \in Page |->
           IF p \in s .. e THEN IF i # 0 THEN e - p + 1 + joined ELSE TailPage(s) - p + 1
           ELSE IF insert /\ p \in LeadUp(nxt, s) /\ p >= serverPages
                THEN s - p + e - s + 1 + joined
           ELSE combpage[p]]
     /\ own' = [p \in Page |-> IF insert /\ p \in s .. e THEN 0 ELSE own[p]]
     /\ poolLock' = [poolLock EXCEPT ![at[c]] = None]
     /\ pc' = [pc EXCEPT ![c] = "idle"]
     /\ ptr' = [ptr EXCEPT ![c] = 0]
     /\ at' = [at EXCEPT ![c] = 0]
     /\ UNCHANGED <<objects, poolPages, size, live>>
------------------------------------------------------------------------------
Next == \E c \in Cpu : \/ Kalloc(c) \/ Fetch(c) \/ Link(c)
                       \/ \E o \in live : Kfree(c, o)
                       \/ Search(c) \/ GiveBack(c)

Spec == Init /\ [][Next]_vars
------------------------------------------------------------------------------
(* Properties                                                               *)

\* The pages of a list of blocks.
PagesOf(first) == UNION {Block(h) : h \in Range(Heads(first))}
InHand(c) == IF pc[c] \in {"link", "giveBack"} THEN Block(ptr[c]) ELSE {}

\* What an object takes: its bytes, and if it is smaller than a page the
\* header before them.
Taken(o) == (IF o[2] - o[1] < PageSize THEN o[1] - Header ELSE o[1]) .. o[2] - 1

\* No two objects that callers have overlap, nor an object the header of
\* another; every object is aligned to its size and lies in the heap, whatever
\* CPUs allocate and free at the same time.
ObjectsApart ==
  /\ \A o \in live : /\ o[1] % (o[2] - o[1]) = 0
                      /\ Taken(o) \subseteq Start(1) .. End(PageCount) - 1
  /\ \A o, u \in live : o # u => Taken(o) \cap Taken(u) = {}

\* No page is in two lists, or in a list and in the hands of a CPU; own says
\* which, and a page outside the lists and hands is not a CPU's.
OwnedOnce ==
  /\ \A c \in Cpu : LET mine == PagesOf(poolPages[c])
                    IN /\ (mine \cup InHand(c)) \cap PagesOf(serverPages) = {}
                       /\ \A d \in Cpu :
                            /\ InHand(d) \cap mine = {}
                            /\ c # d => /\ mine \cap PagesOf(poolPages[d]) = {}
                                        /\ InHand(c) \cap InHand(d) = {}
  /\ {p \in Page : own[p] = 1} = (UNION {PagesOf(poolPages[c]) : c \in Cpu})
                                 \cup (UNION {InHand(c) : c \in {d \in Cpu : pc[d] = "link"}})

\* The server's list is sorted and its blocks are as large as they can be: two
\* are never neighbours, and combpage of each page counts to the block's end.
ServerCoalesced ==
  LET heads == Heads(serverPages)
  IN /\ \A i \in 1 .. Len(heads) - 1 : TailPage(heads[i]) + 1 < heads[i + 1]
     /\ \A i \in 1 .. Len(heads) : \A p \in Block(heads[i]) :
          /\ combpage[p] = TailPage(heads[i]) - p + 1
          /\ p # TailPage(heads[i]) => next[p] = p + 1

\* "assum that pagenode in cpumempool: !(combpage==0&&headnode.next==&tailnode)"
\* (mempool.h): a page of a pool that holds no object is given back at once.
PoolPagesUsed == \A c \in Cpu : \A h \in Range(Heads(poolPages[c])) :
                   combpage[h] = 0 => objects[h] # <<>>

\* kfree finds every object that some CPU asked for, in whichever pool, though
\* it takes the pools' locks one after another and never two at a time.
FreeFinds == \A c \in Cpu : pc[c] # "lost"

\* A page that the server owns ("own;//0 server own", mempool.h) is in the
\* server's list, or on its way there.
ServerPagesListed ==
  \A p \in Page : own[p] = 0 => \/ p \in PagesOf(serverPages)
                                \/ \E c \in Cpu : p \in InHand(c)
==============================================================================
