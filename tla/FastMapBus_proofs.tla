-------------------------- MODULE FastMapBus_proofs --------------------------
(***************************************************************************)
(* FastMapBus, proved for every page size, number of pages, set of slices  *)
(* and set of addresses: its pointers stay valid, and it implements the    *)
(* address space.                                                          *)
(***************************************************************************)
EXTENDS FastMapBus, TLAPS

\* What the debug assertion of map_ram_page_idx checks, and a release build relies on:
\* the host's slices are one page long.
WholePages == Lengths = {PAGE_SIZE}

PageType == [kind : {"Open", "Ram", "Rom"}, ptr : Slices \cup {"null"}]
TypeInv ==
    /\ pages \in [Indices -> PageType]
    /\ open \in Byte
    /\ memory \in [Slices -> [0..(PAGE_SIZE - 1) -> Byte]]
    /\ alive \subseteq Slices

\* The host's account, which goes by first addresses, has every mapped page.
AccountInv ==
    \A i \in Indices : Mapped(pages[i]) =>
        /\ PAGE_SIZE * i \in DOMAIN placed
        /\ placed[PAGE_SIZE * i] = pages[i].ptr
        /\ pages[i].ptr \in alive

Inv == TypeInv /\ AccountInv

-----------------------------------------------------------------------------
(* Arithmetic of pages.                                                    *)

\* n \div d and n % d are the quotient and the remainder.
LEMMA Division ==
    ASSUME NEW n \in Nat, NEW d \in Nat \ {0}
    PROVE  /\ n \div d \in Nat /\ n % d \in 0..(d - 1)
           /\ n = d * (n \div d) + (n % d)
  BY SMT

\* A remainder is determined by what it is the remainder of.
LEMMA Remainder ==
    ASSUME NEW d \in Nat \ {0}, NEW k \in Nat, NEW r \in 0..(d - 1)
    PROVE  (d * k + r) % d = r
  BY SMT

\* Different pages have different first addresses.
LEMMA SamePage ==
    ASSUME NEW i \in Nat, NEW j \in Nat, NEW d \in Nat \ {0}, d * i = d * j
    PROVE  i = j
  BY SMT

\* An address below q pages is on one of them.
LEMMA QuotientBelow ==
    ASSUME NEW n \in Nat, NEW d \in Nat \ {0}, NEW q \in Nat, n < d * q
    PROVE  n \div d < q
  BY Division, SMT

\* The size of the space is a multiple of the page size: reducing an address by the one
\* first does not change its offset.
LEMMA OffsetSurvives ==
    ASSUME NEW n \in Nat, NEW d \in Nat \ {0}, NEW q \in Nat \ {0}
    PROVE  (n % (d * q)) % d = n % d
<1>1. d * q \in Nat \ {0}
  BY SMT
<1> DEFINE size == d * q
           r == n % size
           k == n \div size
<1>2. k \in Nat /\ r \in Nat /\ n = size * k + r
  <2>1. size \in Nat \ {0}
    BY <1>1
  <2> HIDE DEF size
  <2>2. k \in Nat /\ r \in 0..(size - 1) /\ n = size * k + r
    BY <2>1, Division
  <2>3. QED
    BY <2>1, <2>2
<1>3. r \div d \in Nat /\ r % d \in 0..(d - 1) /\ r = d * (r \div d) + (r % d)
  BY <1>2, Division
<1> DEFINE j == r \div d
           s == r % d
<1>4. j \in Nat /\ s \in 0..(d - 1) /\ n = (d * q) * k + (d * j + s)
  BY <1>2, <1>3
<1> HIDE DEF j, s, r, k
<1>5. q * k + j \in Nat /\ n = d * (q * k + j) + s
  BY <1>2, <1>4, SMT
<1>6. n % d = s
  BY <1>4, <1>5, Remainder
<1>7. QED
  BY <1>6 DEF r, s

\* Any address, in the space or beyond it, names a page of the table and an offset in it;
\* the host's account knows the page by its first address.
LEMMA AddressParts ==
    ASSUME NEW addr \in Nat
    PROVE  /\ addr % ADDRESSES \in 0..(ADDRESSES - 1)
           /\ page_index(addr) \in Indices
           /\ off(addr) \in 0..(PAGE_SIZE - 1)
           /\ off(addr) = (addr % ADDRESSES) % PAGE_SIZE
           /\ FirstOfPage(addr) = PAGE_SIZE * page_index(addr)
<1>1. PAGE_SIZE \in Nat \ {0} /\ num_pages \in Nat \ {0} /\ ADDRESSES \in Nat \ {0}
  BY PageAssumption, SMT DEF ADDRESSES
<1> DEFINE n == addr % ADDRESSES
<1>2. n \in Nat /\ n < ADDRESSES
  BY <1>1, Division
<1>3. n \in 0..(ADDRESSES - 1)
  BY <1>1, <1>2
<1>4. n \div PAGE_SIZE \in Nat /\ n % PAGE_SIZE \in 0..(PAGE_SIZE - 1)
      /\ n = PAGE_SIZE * (n \div PAGE_SIZE) + (n % PAGE_SIZE)
  BY <1>1, <1>2, Division
<1>5. n \div PAGE_SIZE < num_pages
  BY <1>1, <1>2, QuotientBelow DEF ADDRESSES
<1>6. page_index(addr) \in Indices
  BY <1>1, <1>4, <1>5 DEF page_index, Indices
<1>7. off(addr) \in 0..(PAGE_SIZE - 1)
  BY <1>1, Division DEF off
<1>8. off(addr) = n % PAGE_SIZE
  BY <1>1, OffsetSurvives DEF off, ADDRESSES
<1>9. FirstOfPage(addr) = PAGE_SIZE * page_index(addr)
  <2> DEFINE product == PAGE_SIZE * (n \div PAGE_SIZE)
  <2>1. product \in Int /\ n % PAGE_SIZE \in Int /\ n \in Int /\ n = product + (n % PAGE_SIZE)
    BY <1>1, <1>2, <1>4, SMT
  <2> HIDE DEF product
  <2>2. n - (n % PAGE_SIZE) = product
    BY <2>1
  <2>3. QED
    BY <2>2 DEF product, FirstOfPage, page_index
<1>10. QED
  BY <1>3, <1>6, <1>7, <1>8, <1>9

-----------------------------------------------------------------------------
(* The pointers stay valid.                                                *)

LEMMA InitInv == WholePages /\ FastInit => Inv
<1> SUFFICES ASSUME WholePages, FastInit PROVE Inv
  OBVIOUS
<1>1. memory \in [Slices -> [0..(PAGE_SIZE - 1) -> Byte]]
  BY DEF WholePages, FastInit
<1>2. OpenPage \in PageType /\ ~Mapped(OpenPage)
  BY DEF OpenPage, PageType, Mapped
<1>3. TypeInv
  BY <1>1, <1>2, HostAssumption DEF FastInit, TypeInv
<1>4. AccountInv
  BY <1>2 DEF FastInit, AccountInv
<1>5. QED
  BY <1>3, <1>4 DEF Inv

LEMMA MapInv ==
    ASSUME Inv, NEW addr \in Addrs, NEW kind \in {"Ram", "Rom"}, NEW slice \in Slices,
           MapPageAt(addr, kind, slice)
    PROVE  Inv'
<1> DEFINE page == page_index(addr)
           first == FirstOfPage(addr)
<1>1. addr \in Nat /\ page \in Indices /\ first = PAGE_SIZE * page
  BY AddressParts, HostAssumption
<1>2. /\ pages' = [pages EXCEPT ![page] = [kind |-> kind, ptr |-> slice]]
      /\ slice \in alive
      /\ placed' = [a \in DOMAIN placed \cup {first} |-> IF a = first THEN slice ELSE placed[a]]
      /\ UNCHANGED << open, lines, memory, alive >>
  BY DEF MapPageAt, MapPageIdx, Account
<1>3. TypeInv'
  BY <1>1, <1>2 DEF Inv, TypeInv, PageType
<1>4. ASSUME NEW i \in Indices, Mapped(pages[i])'
      PROVE  /\ (PAGE_SIZE * i \in DOMAIN placed)'
             /\ (placed[PAGE_SIZE * i] = pages[i].ptr)'
             /\ (pages[i].ptr \in alive)'
  <2> HIDE DEF page, first
  <2>1. CASE i = page
    <3>1. pages'[i].ptr = slice
      BY <1>1, <1>2, <2>1 DEF Inv, TypeInv
    <3>2. PAGE_SIZE * i = first
      BY <1>1, <2>1
    <3>3. QED
      BY <1>2, <3>1, <3>2
  <2>2. CASE i # page
    <3>1. pages'[i] = pages[i]
      BY <1>1, <1>2, <2>2 DEF Inv, TypeInv
    <3>2. PAGE_SIZE * i # first
      BY <1>1, <2>2, SamePage, PageAssumption DEF Indices
    <3>3. /\ PAGE_SIZE * i \in DOMAIN placed
          /\ placed[PAGE_SIZE * i] = pages[i].ptr
          /\ pages[i].ptr \in alive
      BY <1>4, <3>1 DEF Inv, AccountInv, Mapped
    <3>4. QED
      BY <1>2, <3>1, <3>2, <3>3
  <2>3. QED
    BY <2>1, <2>2
<1>5. AccountInv'
  BY <1>4 DEF AccountInv
<1>6. QED
  BY <1>3, <1>5 DEF Inv

LEMMA UnmapInv ==
    ASSUME Inv, NEW addr \in Addrs, MapOpenPageAt(addr)
    PROVE  Inv'
<1> DEFINE page == page_index(addr)
           first == FirstOfPage(addr)
<1>1. addr \in Nat /\ page \in Indices /\ first = PAGE_SIZE * page
  BY AddressParts, HostAssumption
<1>2. /\ pages' = [pages EXCEPT ![page] = OpenPage]
      /\ placed' = [a \in DOMAIN placed \ {first} |-> placed[a]]
      /\ UNCHANGED << open, lines, memory, alive >>
  BY DEF MapOpenPageAt, MapOpenPageIdx, Strike
<1>3. OpenPage \in PageType /\ ~Mapped(OpenPage)
  BY DEF OpenPage, PageType, Mapped
<1>4. TypeInv'
  BY <1>1, <1>2, <1>3 DEF Inv, TypeInv
<1>5. ASSUME NEW i \in Indices, Mapped(pages[i])'
      PROVE  /\ (PAGE_SIZE * i \in DOMAIN placed)'
             /\ (placed[PAGE_SIZE * i] = pages[i].ptr)'
             /\ (pages[i].ptr \in alive)'
  <2> HIDE DEF page, first
  <2>1. i # page
    BY <1>1, <1>2, <1>3, <1>5 DEF Inv, TypeInv, Mapped
  <2>2. pages'[i] = pages[i]
    BY <1>1, <1>2, <2>1 DEF Inv, TypeInv
  <2>3. PAGE_SIZE * i # first
    BY <1>1, <2>1, SamePage, PageAssumption DEF Indices
  <2>4. /\ PAGE_SIZE * i \in DOMAIN placed
        /\ placed[PAGE_SIZE * i] = pages[i].ptr
        /\ pages[i].ptr \in alive
    BY <1>5, <2>2 DEF Inv, AccountInv, Mapped
  <2>5. QED
    BY <1>2, <2>2, <2>3, <2>4
<1>6. AccountInv'
  BY <1>5 DEF AccountInv
<1>7. QED
  BY <1>4, <1>6 DEF Inv

\* An access through a mapped page stays inside a slice that exists.
LEMMA AccessValid ==
    ASSUME Inv, NEW addr \in Nat, Mapped(PageAt(addr))
    PROVE  /\ PageAt(addr).ptr \in Slices
           /\ off(addr) \in 0..(PAGE_SIZE - 1)
           /\ Valid(PageAt(addr), off(addr))
<1>1. page_index(addr) \in Indices /\ off(addr) \in 0..(PAGE_SIZE - 1)
  BY AddressParts
<1>2. PageAt(addr).ptr \in alive /\ PageAt(addr).ptr \in Slices
  BY <1>1 DEF Inv, AccountInv, TypeInv, PageAt
<1>3. DOMAIN memory[PageAt(addr).ptr] = 0..(PAGE_SIZE - 1)
  BY <1>2 DEF Inv, TypeInv
<1>4. QED
  BY <1>1, <1>2, <1>3 DEF Valid

LEMMA NextInv == Inv /\ [FastNext]_fastVars => Inv'
<1> SUFFICES ASSUME Inv, [FastNext]_fastVars PROVE Inv'
  OBVIOUS
<1>1. ASSUME NEW addr \in Addrs, NEW kind \in {"Ram", "Rom"}, NEW slice \in Slices,
             MapPageAt(addr, kind, slice)
      PROVE  Inv'
  BY <1>1, MapInv
<1>2. ASSUME NEW addr \in Addrs, MapOpenPageAt(addr) PROVE Inv'
  BY <1>2, UnmapInv
<1>3. ASSUME UNCHANGED << pages, alive, placed >>, open' \in Byte,
             memory' \in [Slices -> [0..(PAGE_SIZE - 1) -> Byte]]
      PROVE  Inv'
  BY <1>3 DEF Inv, TypeInv, AccountInv, Mapped
<1>4. open \in Byte /\ memory \in [Slices -> [0..(PAGE_SIZE - 1) -> Byte]]
  BY DEF Inv, TypeInv
<1>5. ASSUME NEW addr \in Addrs, Read(addr) PROVE Inv'
  <2>1. addr \in Nat
    BY HostAssumption
  <2>2. open' \in Byte
    <3>1. CASE ~Mapped(PageAt(addr))
      BY <1>4, <1>5, <3>1 DEF Read
    <3>2. CASE Mapped(PageAt(addr))
      <4>1. memory[PageAt(addr).ptr][off(addr)] \in Byte
        BY <1>4, <2>1, <3>2, AccessValid
      <4>2. QED
        BY <1>5, <2>1, <3>2, <4>1, AccessValid DEF Read
    <3>3. QED
      BY <3>1, <3>2
  <2>3. QED
    BY <1>3, <1>4, <1>5, <2>2 DEF Read
<1>6. ASSUME NEW addr \in Addrs, NEW data \in Byte, Write(addr, data) PROVE Inv'
  <2>1. addr \in Nat
    BY HostAssumption
  <2>2. memory' \in [Slices -> [0..(PAGE_SIZE - 1) -> Byte]]
    <3>1. CASE ~Writable(PageAt(addr))
      BY <1>4, <1>6, <3>1 DEF Write
    <3>2. CASE Writable(PageAt(addr))
      <4>1. Mapped(PageAt(addr))
        BY <3>2 DEF Writable, Mapped
      <4>2. memory' = [memory EXCEPT ![PageAt(addr).ptr][off(addr)] = data]
        BY <1>6, <2>1, <3>2, <4>1, AccessValid DEF Write
      <4>3. QED
        BY <1>4, <2>1, <4>1, <4>2, AccessValid
    <3>3. QED
      BY <3>1, <3>2
  <2>3. QED
    BY <1>3, <1>6, <2>2 DEF Write
<1>7. ASSUME NEW value \in Byte, DriveOpenBus(value) PROVE Inv'
  BY <1>3, <1>4, <1>7 DEF DriveOpenBus
<1>8. ASSUME NEW new, SetHostLines(new) PROVE Inv'
  BY <1>3, <1>4, <1>8 DEF SetHostLines
<1>9. ASSUME NEW slice \in Slices, Fill(slice) PROVE Inv'
  <2>1. PICK bytes \in [DOMAIN memory[slice] -> Byte] : memory' = [memory EXCEPT ![slice] = bytes]
    BY <1>9 DEF Fill
  <2>2. DOMAIN memory[slice] = 0..(PAGE_SIZE - 1)
    BY <1>4
  <2>3. memory' \in [Slices -> [0..(PAGE_SIZE - 1) -> Byte]]
    BY <1>4, <2>1, <2>2
  <2>4. QED
    BY <1>3, <1>4, <1>9, <2>3 DEF Fill
<1>10. ASSUME NEW slice \in Slices, Drop(slice) PROVE Inv'
  <2>1. /\ \A a \in DOMAIN placed : placed[a] # slice
        /\ alive' = alive \ {slice}
        /\ UNCHANGED << pages, open, lines, memory, placed >>
    BY <1>10 DEF Drop
  <2>2. TypeInv'
    BY <2>1 DEF Inv, TypeInv
  <2>3. AccountInv'
    BY <2>1 DEF Inv, AccountInv, Mapped
  <2>4. QED
    BY <2>2, <2>3 DEF Inv
<1>11. CASE UNCHANGED fastVars
  BY <1>3, <1>4, <1>11 DEF fastVars
<1>12. QED
  BY <1>1, <1>2, <1>5, <1>6, <1>7, <1>8, <1>9, <1>10, <1>11 DEF FastNext, SetLine

LEMMA InvAlive == Inv => MappedPagesExist
BY DEF Inv, TypeInv, AccountInv, MappedPagesExist, WholePage

\* However a host that passes whole pages maps, mirrors, replaces and unmaps them, and
\* whichever it drops once its own account does not have them mapped: the raw pointers of
\* the table point to slices that exist, and no access is beyond their end.
THEOREM PointersStayValid == WholePages /\ FastSpec => []MappedPagesExist
<1>1. WholePages /\ FastSpec => []Inv
  BY InitInv, NextInv, PTL DEF FastSpec
<1>2. QED
  BY <1>1, InvAlive, PTL

-----------------------------------------------------------------------------
(* Refinement.                                                             *)

\* In the space, an address is on the page its quotient names.
LEMMA ViewCell ==
    ASSUME NEW b \in 0..(ADDRESSES - 1)
    PROVE  /\ b \div PAGE_SIZE \in Indices
           /\ View[b] = Cell(pages[b \div PAGE_SIZE], b)
<1>1. ADDRESSES \in Nat \ {0} /\ b \in Nat /\ b < ADDRESSES
  BY PageAssumption, SMT DEF ADDRESSES
<1>2. b % ADDRESSES = b
  BY <1>1, SMT
<1>3. page_index(b) = b \div PAGE_SIZE /\ page_index(b) \in Indices
  BY <1>1, <1>2, AddressParts DEF page_index
<1>4. QED
  BY <1>3 DEF View

\* The cell behind an address of a mapped page, and of an open one.
LEMMA MappedCell ==
    ASSUME NEW page, NEW a, Mapped(page)
    PROVE  /\ Cell(page, a).kind = page.kind
           /\ Cell(page, a).slice = page.ptr
           /\ Cell(page, a).offset = a % PAGE_SIZE
BY DEF Cell

LEMMA OpenCell ==
    ASSUME NEW page, NEW a, ~Mapped(page)
    PROVE  Cell(page, a) = Space!Nobody
BY DEF Cell, Space!Nobody

\* Only the page table decides the view.
LEMMA ViewUnchanged == pages' = pages => View' = View
BY DEF View

\* Replacing one page of the table replaces the cells of one block of the view.
LEMMA ViewReplaced ==
    ASSUME Inv, NEW page \in Indices, NEW new, pages' = [pages EXCEPT ![page] = new]
    PROVE  View' = [b \in DOMAIN View |-> IF b \div PAGE_SIZE = page THEN Cell(new, b) ELSE View[b]]
<1>1. pages \in [Indices -> PageType]
  BY DEF Inv, TypeInv
<1>2. View' = [b \in 0..(ADDRESSES - 1) |-> Cell(pages'[b \div PAGE_SIZE], b)]
  BY DEF View, Cell, Mapped
<1>3. ASSUME NEW b \in 0..(ADDRESSES - 1)
      PROVE  Cell(pages'[b \div PAGE_SIZE], b)
                = IF b \div PAGE_SIZE = page THEN Cell(new, b) ELSE View[b]
  <2>1. b \div PAGE_SIZE \in Indices /\ View[b] = Cell(pages[b \div PAGE_SIZE], b)
    BY ViewCell
  <2>2. pages'[b \div PAGE_SIZE] = IF b \div PAGE_SIZE = page THEN new ELSE pages[b \div PAGE_SIZE]
    BY <1>1, <2>1
  <2>3. QED
    BY <2>1, <2>2
<1>4. DOMAIN View = 0..(ADDRESSES - 1)
  BY DEF View
<1>5. QED
  BY <1>2, <1>3, <1>4

LEMMA InitRefines == WholePages /\ FastInit => Space!MapInit
<1> SUFFICES ASSUME WholePages, FastInit PROVE Space!MapInit
  OBVIOUS
<1>1. ASSUME NEW b \in 0..(ADDRESSES - 1) PROVE View[b] = Space!Nobody
  <2>1. pages[b \div PAGE_SIZE] = OpenPage
    BY ViewCell DEF FastInit
  <2>2. QED
    BY <2>1, ViewCell, OpenCell DEF Mapped, OpenPage
<1>2. View = [a \in 0..(ADDRESSES - 1) |-> Space!Nobody]
  BY <1>1 DEF View
<1>3. memory \in [Slices -> [0..(PAGE_SIZE - 1) -> Byte]] /\ open = 0 /\ call = << "new" >>
  BY DEF WholePages, FastInit
<1>4. QED
  BY <1>2, <1>3 DEF Space!MapInit

LEMMA MapRefines ==
    ASSUME Inv, NEW addr \in Nat, NEW kind \in {"Ram", "Rom"}, NEW slice \in Slices,
           MapPageAt(addr, kind, slice)
    PROVE  Space!MapBlock(addr, kind, slice)
<1> DEFINE new == [kind |-> kind, ptr |-> slice]
           page == page_index(addr)
<1>1. pages' = [pages EXCEPT ![page] = new] /\ memory' = memory /\ open' = open
      /\ call' = << "map", addr, kind, slice >>
  BY DEF MapPageAt, MapPageIdx, Account
<1>2. page \in Indices /\ page = (addr % ADDRESSES) \div PAGE_SIZE
  BY AddressParts DEF page_index
<1>3. ASSUME NEW b \in 0..(ADDRESSES - 1)
      PROVE  Cell(new, b) = [kind |-> kind, slice |-> slice, offset |-> b % PAGE_SIZE]
  BY ViewCell DEF Cell, Mapped
<1> HIDE DEF new, page
<1>4. View' = [b \in DOMAIN View |-> IF b \div PAGE_SIZE = page THEN Cell(new, b) ELSE View[b]]
  BY <1>1, <1>2, ViewReplaced
<1>5. DOMAIN View = 0..(ADDRESSES - 1)
  BY DEF View
<1>6. View' = [b \in DOMAIN View |->
                  IF b \div PAGE_SIZE = page
                  THEN [kind |-> kind, slice |-> slice, offset |-> b % PAGE_SIZE] ELSE View[b]]
  BY <1>3, <1>4, <1>5
<1>7. QED
  BY <1>1, <1>2, <1>6 DEF Space!MapBlock, Space!SameBlock, Space!Place

LEMMA UnmapRefines ==
    ASSUME Inv, NEW addr \in Nat, MapOpenPageAt(addr)
    PROVE  Space!UnmapBlock(addr)
<1> DEFINE page == page_index(addr)
<1>1. pages' = [pages EXCEPT ![page] = OpenPage] /\ memory' = memory /\ open' = open
      /\ call' = << "unmap", addr >>
  BY DEF MapOpenPageAt, MapOpenPageIdx, Strike
<1>2. page \in Indices /\ page = (addr % ADDRESSES) \div PAGE_SIZE
  BY AddressParts DEF page_index
<1>3. \A b : Cell(OpenPage, b) = Space!Nobody
  BY OpenCell DEF Mapped, OpenPage
<1> HIDE DEF page
<1>4. View' = [b \in DOMAIN View |-> IF b \div PAGE_SIZE = page THEN Cell(OpenPage, b) ELSE View[b]]
  BY <1>1, <1>2, ViewReplaced
<1>5. View' = [b \in DOMAIN View |-> IF b \div PAGE_SIZE = page THEN Space!Nobody ELSE View[b]]
  BY <1>3, <1>4
<1>6. QED
  BY <1>1, <1>2, <1>5 DEF Space!UnmapBlock, Space!SameBlock, Space!Place

\* What an access at any address finds in the view.
LEMMA CellOf ==
    ASSUME NEW addr \in Nat
    PROVE  /\ addr % ADDRESSES \in DOMAIN View
           /\ View[addr % ADDRESSES] = Cell(PageAt(addr), addr)
           /\ off(addr) = addr % PAGE_SIZE
<1> DEFINE a == addr % ADDRESSES
<1>1. a \in 0..(ADDRESSES - 1) /\ off(addr) = a % PAGE_SIZE
  BY AddressParts
<1>2. View[a] = Cell(pages[a \div PAGE_SIZE], a) /\ off(addr) = addr % PAGE_SIZE
  BY <1>1, ViewCell DEF off
<1>3. PageAt(addr) = pages[a \div PAGE_SIZE]
  BY DEF PageAt, page_index
<1> HIDE DEF a
<1>4. View[a] = Cell(PageAt(addr), addr)
  BY <1>1, <1>2, <1>3 DEF Cell
<1>5. QED
  BY <1>1, <1>2, <1>4 DEF View, a

LEMMA ReadRefines ==
    ASSUME Inv, NEW addr \in Nat, Read(addr)
    PROVE  Space!ReadAt(addr)
<1> DEFINE a == addr % ADDRESSES
<1>1. View' = View /\ memory' = memory /\ call' = << "read", addr >>
  BY ViewUnchanged DEF Read
<1>2. CASE ~Mapped(PageAt(addr))
  <2>1. View[a] = Space!Nobody
    BY <1>2, CellOf, OpenCell
  <2>2. open' = open
    BY <1>2 DEF Read
  <2>3. QED
    BY <1>1, <2>1, <2>2 DEF Space!ReadAt, Space!Place
<1>3. CASE Mapped(PageAt(addr))
  <2>1. /\ View[a].kind \in {"Ram", "Rom"}
        /\ View[a].slice = PageAt(addr).ptr
        /\ View[a].offset = off(addr)
    BY <1>3, CellOf, MappedCell DEF Mapped
  <2>2. View[a] # Space!Nobody
    BY <2>1 DEF Space!Nobody
  <2>3. open' = memory[PageAt(addr).ptr][off(addr)]
    BY <1>3, AccessValid DEF Read
  <2>4. QED
    BY <1>1, <2>1, <2>2, <2>3 DEF Space!ReadAt, Space!Place
<1>4. QED
  BY <1>2, <1>3

LEMMA WriteRefines ==
    ASSUME Inv, NEW addr \in Nat, NEW data \in Byte, Write(addr, data)
    PROVE  Space!WriteAt(addr, data)
<1> DEFINE a == addr % ADDRESSES
<1>1. View' = View /\ open' = data /\ call' = << "write", addr >>
  BY ViewUnchanged DEF Write
<1>2. CASE ~Writable(PageAt(addr))
  <2>1. View[a].kind # "Ram"
    <3>1. CASE Mapped(PageAt(addr))
      BY <1>2, <3>1, CellOf, MappedCell DEF Writable
    <3>2. CASE ~Mapped(PageAt(addr))
      BY <3>2, CellOf, OpenCell DEF Space!Nobody
    <3>3. QED
      BY <3>1, <3>2
  <2>2. memory' = memory
    BY <1>2 DEF Write
  <2>3. QED
    BY <1>1, <2>1, <2>2 DEF Space!WriteAt, Space!Place
<1>3. CASE Writable(PageAt(addr))
  <2>1. Mapped(PageAt(addr))
    BY <1>3 DEF Writable, Mapped
  <2>2. View[a].kind = "Ram" /\ View[a].slice = PageAt(addr).ptr /\ View[a].offset = off(addr)
    BY <1>3, <2>1, CellOf, MappedCell DEF Writable
  <2>3. memory' = [memory EXCEPT ![PageAt(addr).ptr][off(addr)] = data]
    BY <1>3, <2>1, AccessValid DEF Write
  <2>4. QED
    BY <1>1, <2>2, <2>3 DEF Space!WriteAt, Space!Place
<1>4. QED
  BY <1>2, <1>3

LEMMA FillRefines ==
    ASSUME Inv, NEW slice \in Slices, Fill(slice)
    PROVE  Space!HostFills(slice)
<1>1. memory \in [Slices -> [0..(PAGE_SIZE - 1) -> Byte]]
  BY DEF Inv, TypeInv
<1>2. PICK bytes \in [0..(PAGE_SIZE - 1) -> Byte] : memory' = [memory EXCEPT ![slice] = bytes]
  BY <1>1 DEF Fill
<1> DEFINE new == [memory EXCEPT ![slice] = bytes]
<1>3. new \in [Slices -> [0..(PAGE_SIZE - 1) -> Byte]] /\ new[slice] = bytes
  BY <1>1
<1>4. View' = View /\ open' = open /\ call' = << "fill", slice >>
  BY ViewUnchanged DEF Fill
<1> HIDE DEF new
<1>5. QED
  BY <1>2, <1>3, <1>4 DEF Space!HostFills

LEMMA NextRefines ==
    Inv /\ [FastNext]_fastVars => [Space!MapNext]_(Space!spaceVars)
<1> SUFFICES ASSUME Inv, [FastNext]_fastVars PROVE [Space!MapNext]_(Space!spaceVars)
  OBVIOUS
<1>1. Addrs \subseteq Nat /\ DOMAIN memory = Slices
  BY HostAssumption DEF Inv, TypeInv
<1>2. ASSUME NEW addr \in Addrs, NEW kind \in {"Ram", "Rom"}, NEW slice \in Slices,
             MapPageAt(addr, kind, slice)
      PROVE  Space!MapNext
  BY <1>1, <1>2, MapRefines DEF Space!MapNext
<1>3. ASSUME NEW addr \in Addrs, MapOpenPageAt(addr) PROVE Space!MapNext
  BY <1>1, <1>3, UnmapRefines DEF Space!MapNext
<1>4. ASSUME NEW addr \in Addrs, Read(addr) PROVE Space!MapNext
  BY <1>1, <1>4, ReadRefines DEF Space!MapNext
<1>5. ASSUME NEW addr \in Addrs, NEW data \in Byte, Write(addr, data) PROVE Space!MapNext
  BY <1>1, <1>5, WriteRefines DEF Space!MapNext
<1>6. ASSUME NEW value \in Byte, DriveOpenBus(value) PROVE Space!MapNext
  <2>1. Space!HostDrives(value)
    BY <1>6, ViewUnchanged DEF DriveOpenBus, Space!HostDrives
  <2>2. QED
    BY <2>1 DEF Space!MapNext
<1>7. ASSUME NEW slice \in Slices, Fill(slice) PROVE Space!MapNext
  BY <1>1, <1>7, FillRefines DEF Space!MapNext
<1>8. ASSUME UNCHANGED << pages, open, memory, call >> PROVE UNCHANGED Space!spaceVars
  BY <1>8, ViewUnchanged DEF Space!spaceVars
<1>9. ASSUME NEW new, SetHostLines(new) PROVE UNCHANGED Space!spaceVars
  BY <1>8, <1>9 DEF SetHostLines
<1>10. ASSUME NEW slice, Drop(slice) PROVE UNCHANGED Space!spaceVars
  BY <1>8, <1>10 DEF Drop
<1>11. CASE UNCHANGED fastVars
  BY <1>8, <1>11 DEF fastVars
<1>12. QED
  BY <1>2, <1>3, <1>4, <1>5, <1>6, <1>7, <1>9, <1>10, <1>11 DEF FastNext, SetLine

\* The page table with its masks and raw pointers is the memory map it stands for: each call,
\* at the address its caller passed, in the space or beyond its top, maps the block or
\* reaches the cell that the map has at this address modulo the size of the space.
THEOREM TableImplementsMap == WholePages /\ FastSpec => ImplementsAddressSpace
<1>1. WholePages /\ FastSpec => []Inv
  BY InitInv, NextInv, PTL DEF FastSpec
<1>2. QED
  BY <1>1, InitRefines, NextRefines, PTL DEF FastSpec, ImplementsAddressSpace, Space!MapSpec
=============================================================================
