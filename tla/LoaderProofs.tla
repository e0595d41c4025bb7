---------------------------- MODULE LoaderProofs ----------------------------
(***************************************************************************)
(* What elf_loader.c builds, for every layout of the user's window, every  *)
(* page size and every set of program headers: LoaderInv is inductive. And *)
(* where the heap, the stack and the mmap region of a process lie from     *)
(* then on: LayoutInv is inductive.                                        *)
(***************************************************************************)
EXTENDS Loader, TLAPS

-----------------------------------------------------------------------------
(* Division *)

LEMMA TimesGrows ==
  ASSUME NEW p \in Nat \ {0}, NEW a \in Int, NEW b \in Int, a < b
  PROVE  p * a + p <= p * b
<1>1. b - a - 1 \in Nat OBVIOUS
<1>2. p * (b - a - 1) >= 0 BY <1>1
<1>3. p * (b - a - 1) = p * b - p * a - p OBVIOUS
<1> QED BY <1>2, <1>3

LEMMA Quotient ==
  ASSUME NEW p \in Nat \ {0}, NEW a \in Nat
  PROVE  /\ a \div p \in Nat /\ a % p \in 0 .. p - 1
         /\ a = p * (a \div p) + (a % p)
OBVIOUS

LEMMA QuotientUnique ==
  ASSUME NEW p \in Nat \ {0}, NEW k \in Nat, NEW r \in 0 .. p - 1
  PROVE  (p * k + r) \div p = k
<1> DEFINE a == p * k + r
           q == a \div p
<1>1. a \in Nat OBVIOUS
<1>2. q \in Nat /\ a = p * q + (a % p) /\ a % p \in 0 .. p - 1 BY <1>1, Quotient, Zenon
<1>3. p * k \in Nat /\ p * q \in Nat BY <1>2
<1> HIDE DEF q
<1>4. ~(q < k) BY <1>2, <1>3, TimesGrows
<1>5. ~(k < q) BY <1>2, <1>3, TimesGrows
<1> QED BY <1>2, <1>4, <1>5 DEF q

LEMMA QuotientGrows ==
  ASSUME NEW p \in Nat \ {0}, NEW a \in Nat, NEW b \in Nat, a <= b
  PROVE  a \div p <= b \div p
<1>1. SUFFICES ASSUME b \div p < a \div p PROVE FALSE BY Quotient
<1>2. p * (b \div p) + p <= p * (a \div p) BY <1>1, TimesGrows, Quotient
<1> QED BY <1>2, Quotient

\* The page of an address below a page boundary, and where a size rounded up ends.
LEMMA QuotientBelow ==
  ASSUME NEW p \in Nat \ {0}, NEW a \in Nat, NEW k \in Nat
  PROVE  /\ a < p * k <=> a \div p < k
         /\ a <= p * k => (a + p - 1) \div p <= k
<1>1. a \div p \in Nat /\ a % p \in 0 .. p - 1 /\ a = p * (a \div p) + (a % p) BY Quotient, Zenon
<1>2. a < p * k => a \div p < k
  <2>1. ASSUME k <= a \div p PROVE p * k <= p * (a \div p)
    <3>1. CASE k < a \div p BY <1>1, <3>1, TimesGrows
    <3>2. CASE k = a \div p BY <1>1, <3>2
    <3> QED BY <1>1, <2>1, <3>1, <3>2
  <2> QED BY <1>1, <2>1
<1>3. a \div p < k => a < p * k BY <1>1, TimesGrows
<1>4. a <= p * k => (a + p - 1) \div p <= k
  <2> SUFFICES ASSUME a <= p * k PROVE (a + p - 1) \div p <= k OBVIOUS
  <2>1. PICK x : x = a + p - 1 BY Zenon
  <2>2. x \in Nat BY <2>1
  <2>3. PICK q : q = x \div p BY Zenon
  <2>4. q \in Nat /\ x % p \in 0 .. p - 1 /\ x = p * q + (x % p) BY <2>2, <2>3, Quotient, Zenon
  <2>5. p * q \in Nat /\ p * k \in Nat /\ p * q <= x BY <2>4
  <2>6. k < q => p * k + p <= p * q BY <2>4, TimesGrows
  <2>7. ~(k < q) BY <2>1, <2>5, <2>6
  <2> QED BY <2>1, <2>3, <2>4, <2>7
<1> QED BY <1>2, <1>3, <1>4, Zenon

\* A number less than the divisor is the remainder.
LEMMA SmallRemainder ==
  ASSUME NEW p \in Nat \ {0}, NEW a \in Nat, a < p
  PROVE  a % p = a
<1>1. p * 0 + a = a /\ 0 \in Nat /\ a \in 0 .. p - 1 OBVIOUS
<1>2. a \div p = 0 BY <1>1, QuotientUnique
<1>3. a % p \in 0 .. p - 1 /\ a = p * (a \div p) + (a % p) BY Quotient, Zenon
<1>4. a = p * 0 + (a % p) BY <1>2, <1>3, Zenon
<1> QED BY <1>3, <1>4

-----------------------------------------------------------------------------
(* Pages *)

LEMMA Layout ==
  ASSUME LoaderAssumption
  PROVE  /\ P \in Nat \ {0} /\ Premap \in Nat \ {0}
         /\ LoadBase \in Nat \ {0} /\ StackBottom \in Nat \ {0} /\ StackTop \in Nat \ {0}
         /\ LoadBase < StackBottom /\ StackBottom + Premap * P <= StackTop
<1>1. {P, LoadBase, StackBottom, StackTop, Premap, Chunk} \subseteq Nat \ {0}
  BY Zenon DEF LoaderAssumption
<1>2. LoadBase < StackBottom /\ StackBottom + Premap * P <= StackTop
  BY Zenon DEF LoaderAssumption
<1> QED BY <1>1, <1>2, Zenon

LEMMA HeaderFields ==
  ASSUME LoaderAssumption, NEW h \in Headers
  PROVE  h.load \in BOOLEAN /\ h.vaddr \in Nat /\ h.memsz \in Nat
<1>1. Headers \subseteq [load : BOOLEAN, vaddr : Nat, memsz : Nat, filesz : Nat, offset : Nat]
  BY Zenon DEF LoaderAssumption
<1> QED BY <1>1, Zenon

\* A range of the window that ends at z needs the pages below Ceiling(z).
Ceiling(z) == (z + P - 1) \div P

LEMMA CeilingFacts ==
  ASSUME LoaderAssumption, NEW z \in Nat
  PROVE  /\ Ceiling(z) \in Nat /\ PageUp(z) = P * Ceiling(z) /\ PageOf(PageUp(z)) = Ceiling(z)
         /\ P * Ceiling(z) >= z /\ P * Ceiling(z) <= z + P - 1
<1>1. P \in Nat \ {0} /\ z + P - 1 \in Nat BY Layout
<1>2. /\ Ceiling(z) \in Nat /\ (z + P - 1) % P \in 0 .. P - 1
      /\ z + P - 1 = P * Ceiling(z) + ((z + P - 1) % P)
  BY <1>1, Quotient, Zenon DEF Ceiling
<1>3. PageUp(z) = P * Ceiling(z) BY <1>1, <1>2 DEF PageUp, Ceiling
<1>4. (P * Ceiling(z) + 0) \div P = Ceiling(z) BY <1>1, <1>2, QuotientUnique
<1>5. P * Ceiling(z) \in Nat BY <1>1, <1>2
<1>6. PageOf(PageUp(z)) = Ceiling(z) BY <1>3, <1>4, <1>5 DEF PageOf
<1> QED BY <1>1, <1>2, <1>3, <1>5, <1>6

\* What ends at or below page k needs no page beyond it.
LEMMA CeilingBelow ==
  ASSUME LoaderAssumption, NEW z \in Nat, NEW k \in Nat, z <= P * k
  PROVE  Ceiling(z) <= k
<1>1. P \in Nat \ {0} BY Layout, Zenon
<1>2. PICK r \in 0 .. P - 1 : r = P - 1 BY <1>1
<1>3. (P * k + r) \div P = k BY <1>1, QuotientUnique, Zenon
<1>4. P * k \in Nat BY <1>1
<1>5. z + P - 1 \in Nat /\ P * k + r \in Nat /\ z + P - 1 <= P * k + r BY <1>1, <1>2, <1>4
<1>6. (z + P - 1) \div P <= (P * k + r) \div P BY <1>1, <1>5, QuotientGrows, Zenon
<1> QED BY <1>3, <1>6, Zenon DEF Ceiling

\* The limits of the window are multiples of the page size.
LEMMA Limits ==
  ASSUME LoaderAssumption
  PROVE  /\ LoadBase = P * PageOf(LoadBase) /\ PageOf(LoadBase) \in Nat
         /\ StackBottom = P * PageOf(StackBottom) /\ PageOf(StackBottom) \in Nat
         /\ StackTop = P * PageOf(StackTop) /\ PageOf(StackTop) \in Nat
         /\ PageOf(LoadBase) < PageOf(StackBottom)
         /\ PageOf(StackBottom) + Premap <= PageOf(StackTop)
<1> USE Layout
<1>1. ASSUME NEW a \in {LoadBase, StackBottom, StackTop}
      PROVE  a = P * PageOf(a) /\ PageOf(a) \in Nat
  <2>1. {LoadBase, StackBottom, StackTop} \subseteq {n * P : n \in 1 .. StackTop}
    BY Zenon DEF LoaderAssumption
  <2>2. PICK n \in 1 .. StackTop : a = n * P BY Zenon, <2>1
  <2>3. n \in Nat /\ a = P * n + 0 BY <2>2
  <2>4. (P * n + 0) \div P = n BY <2>3, QuotientUnique
  <2> QED BY <2>3, <2>4 DEF PageOf
<1> DEFINE l == PageOf(LoadBase)
           s == PageOf(StackBottom)
           t == PageOf(StackTop)
<1>2. l \in Nat /\ s \in Nat /\ t \in Nat BY <1>1, Zenon
<1>3. LoadBase = P * l /\ StackBottom = P * s /\ StackTop = P * t BY <1>1, Zenon
<1> HIDE DEF l, s, t
<1>4. l < s
  <2>1. SUFFICES ASSUME s < l \/ s = l PROVE FALSE BY <1>2
  <2>2. P * s <= P * l BY <2>1, <1>2, TimesGrows
  <2> QED BY <2>2, <1>3
<1>5. s + Premap <= t
  <2>1. SUFFICES ASSUME t < s + Premap PROVE FALSE BY <1>2
  <2>2. P * t + P <= P * (s + Premap) BY <2>1, <1>2, TimesGrows
  <2>3. P * (s + Premap) = P * s + Premap * P BY <1>2
  <2> QED BY <2>2, <2>3, <1>3
<1> QED BY <1>1, <1>4, <1>5, Zenon DEF l, s, t

\* A segment that phdr_in_user_range() accepts has its pages between the base of the window
\* and the stack, all of them start below its end, and every address of it is on one.
LEMMA SegmentFacts ==
  ASSUME LoaderAssumption, NEW h \in Headers, InUserRange(h)
  PROVE  /\ h.vaddr + h.memsz \in Nat /\ h.vaddr + h.memsz <= StackBottom
         /\ SegmentPages(h) \subseteq PageOf(LoadBase) .. PageOf(StackBottom) - 1
         /\ \A p \in SegmentPages(h) : p * P < h.vaddr + h.memsz
         /\ \A a \in Nat : MapsEntry(h, a) => PageOf(a) \in SegmentPages(h)
<1> DEFINE z == h.vaddr + h.memsz
           s == PageOf(StackBottom)
<1>1. /\ P \in Nat \ {0} /\ LoadBase \in Nat /\ StackBottom \in Nat
      /\ h.vaddr \in Nat /\ h.memsz \in Nat /\ h.vaddr >= LoadBase
      /\ z \in Nat /\ z <= StackBottom
  BY Layout, HeaderFields DEF InUserRange
<1>2. /\ Ceiling(z) \in Nat /\ PageOf(PageUp(z)) = Ceiling(z) /\ P * Ceiling(z) <= z + P - 1
      /\ P * Ceiling(z) >= z
  BY <1>1, CeilingFacts, Zenon
<1>3. SegmentPages(h) = PageOf(h.vaddr) .. Ceiling(z) - 1 BY <1>2, Zenon DEF SegmentPages
<1>4. PageOf(h.vaddr) \in Nat /\ PageOf(LoadBase) <= PageOf(h.vaddr)
  BY <1>1, Quotient, QuotientGrows, Zenon DEF PageOf
<1>5. Ceiling(z) <= s
  <2>1. z <= P * s /\ s \in Nat BY <1>1, Limits, Zenon
  <2> QED BY <1>1, <2>1, CeilingBelow, Zenon
<1>6. ASSUME NEW p \in SegmentPages(h) PROVE p * P < z
  <2>1. p \in Nat /\ p < Ceiling(z) BY <1>2, <1>3, <1>4
  <2>2. P * p + P <= P * Ceiling(z) BY <1>1, <1>2, <2>1, TimesGrows
  <2>3. P * p \in Nat /\ P * Ceiling(z) \in Nat /\ P * p = p * P BY <1>1, <1>2, <2>1
  <2> QED BY <1>1, <1>2, <2>2, <2>3
<1>7. ASSUME NEW a \in Nat, MapsEntry(h, a) PROVE PageOf(a) \in SegmentPages(h)
  <2>1. a >= h.vaddr /\ a < z BY <1>1, <1>7 DEF MapsEntry
  <2>2. PageOf(a) \in Nat /\ PageOf(h.vaddr) <= PageOf(a)
    BY <1>1, <2>1, Quotient, QuotientGrows, Zenon DEF PageOf
  <2>3. P * PageOf(a) <= a BY <1>1, Quotient DEF PageOf
  <2>4. SUFFICES ASSUME Ceiling(z) <= PageOf(a) PROVE FALSE
    BY <1>2, <1>3, <1>4, <2>2
  <2>5. P * Ceiling(z) <= P * PageOf(a)
    BY <1>1, <1>2, <2>2, <2>4, TimesGrows
  <2>6. P * Ceiling(z) \in Nat /\ P * PageOf(a) \in Nat BY <1>1, <1>2, <2>2
  <2> QED BY <1>1, <1>2, <2>1, <2>3, <2>5, <2>6
<1>8. SegmentPages(h) \subseteq PageOf(LoadBase) .. s - 1
  <2>1. PageOf(LoadBase) \in Nat /\ s \in Nat BY Limits, Zenon
  <2> QED BY <1>2, <1>3, <1>4, <1>5, <2>1
<1> QED BY <1>1, <1>6, <1>7, <1>8, Zenon

-----------------------------------------------------------------------------
(* Files and address spaces *)

LEMMA FileFacts ==
  ASSUME LoaderAssumption, NEW f \in Files
  PROVE  /\ f.entry \in Nat /\ f.phdrs \in Seq(Headers)
         /\ \A i \in Nat \ {0} : i <= Len(f.phdrs) => f.phdrs[i] \in Headers
<1>1. Entries \subseteq Nat BY Zenon DEF LoaderAssumption
<1>2. f.entry \in Entries /\ f.phdrs \in UNION {[1 .. n -> Headers] : n \in 0 .. MaxHeaders}
  BY Zenon DEF Files
<1>3. PICK n \in 0 .. MaxHeaders : f.phdrs \in [1 .. n -> Headers] BY <1>2, Zenon
<1>4. f.phdrs \in Seq(Headers) /\ Len(f.phdrs) = n BY <1>3
<1>5. \A i \in Nat \ {0} : i <= Len(f.phdrs) => f.phdrs[i] \in Headers BY <1>3, <1>4
<1> QED BY <1>1, <1>2, <1>4, <1>5, Zenon

LEMMA RewrittenFile ==
  ASSUME NEW f \in Files, NEW i \in DOMAIN f.phdrs, NEW h \in Headers
  PROVE  /\ [f EXCEPT !.phdrs[i] = h] \in Files
         /\ Len([f EXCEPT !.phdrs[i] = h].phdrs) = Len(f.phdrs)
<1> DEFINE g == [f EXCEPT !.phdrs[i] = h]
<1>1. f \in [valid : BOOLEAN, entry : Entries,
             phdrs : UNION {[1 .. n -> Headers] : n \in 0 .. MaxHeaders}]
  BY Zenon DEF Files
<1>2. PICK n \in 0 .. MaxHeaders : f.phdrs \in [1 .. n -> Headers] BY <1>1, Zenon
<1>3. g.phdrs = [f.phdrs EXCEPT ![i] = h] BY <1>1, Zenon
<1>4. g.phdrs \in [1 .. n -> Headers] BY <1>2, <1>3
<1>5. g.valid = f.valid /\ g.entry = f.entry
      /\ g = [valid |-> g.valid, entry |-> g.entry, phdrs |-> g.phdrs]
  BY <1>1, SMTT(30)
<1>6. g \in Files BY <1>1, <1>2, <1>4, <1>5, Zenon DEF Files
<1>7. Len(g.phdrs) = n /\ Len(f.phdrs) = n BY <1>2, <1>4
<1> QED BY <1>6, <1>7, Zenon

\* A header that elf_load_image() has read, and an address space, are told from none.
LEMMA HeaderIsNotNil ==
  ASSUME NEW entry, NEW phnum
  PROVE  [entry |-> entry, phnum |-> phnum] # Nil
BY Zenon DEF Nil
LEMMA SpaceIsNotNil ==
  ASSUME NEW pages, NEW bytes
  PROVE  [pages |-> pages, bytes |-> bytes] # Nil
BY Zenon DEF Nil

\* The higher one of two numbers, as load_segments() moves heap_base.
LEMMA GrownFacts ==
  ASSUME NEW a \in Nat, NEW h, h.vaddr + h.memsz \in Nat
  PROVE  /\ Grown(a, h) \in {a, h.vaddr + h.memsz}
         /\ Grown(a, h) >= a /\ Grown(a, h) >= h.vaddr + h.memsz
<1> DEFINE b == h.vaddr + h.memsz
<1>1. \E m \in {a, b} : \A y \in {a, b} : m >= y OBVIOUS
<1>2. /\ Max({a, b}) \in {a, b}
      /\ \A y \in {a, b} : Max({a, b}) >= y
  BY <1>1, Zenon DEF Max
<1> QED BY <1>2, Zenon DEF Grown

-----------------------------------------------------------------------------
(* Each step keeps the invariant *)

\* Every way out of a load that failed leads to close_fs(), without a space.
LEMMA FailKeeps ==
  ASSUME LoaderInv, Fail, pc \in {"header", "validate", "segment", "copy", "argv"}
  PROVE  LoaderInv'
BY Zenon DEF LoaderInv, TypeOK, Balanced, FoundInv, PagesInWindow, HeaderInv, SpaceInv,
       Fail, SpaceAfterFailure

\* Opening, the checks of the headers and the creation of the space.
LEMMA CheckingKeeps ==
  ASSUME LoaderAssumption, LoaderInv, Find \/ Open \/ ReadHeader \/ Validate \/ CreateSpace
  PROVE  LoaderInv'
<1> USE DEF LoaderInv, TypeOK, Balanced, FoundInv, PagesInWindow, HeaderInv, SpaceInv
<1>1. CASE Find BY <1>1, Zenon DEF Find
<1>2. CASE Open
  <2>1. /\ pc = "found" /\ ~lost /\ pc' = "header" /\ refs' = refs + 1 /\ rewritten' = FALSE
        /\ UNCHANGED <<linked, file, ehdr, index, entry_mapped, heap_base, space, lost>>
    BY <1>2, Zenon DEF Open
  <2>2. linked /\ refs = 0 /\ space = Nil BY <2>1, Zenon
  <2>3. Balanced' /\ FoundInv' /\ PagesInWindow' /\ HeaderInv' /\ SpaceInv' BY <2>1, <2>2
  <2>4. TypeOK' BY <2>1, Zenon
  <2> QED BY <2>3, <2>4, Zenon
<1>3. CASE ReadHeader
  <2>1. CASE ~Fail
    <3>1. file.entry \in Nat BY FileFacts, Zenon
    <3>2. /\ pc = "header" /\ pc' = "validate" /\ index' = 1
          /\ ehdr' = [entry |-> file.entry, phnum |-> Len(file.phdrs)]
          /\ UNCHANGED <<linked, file, refs, space, rewritten, lost>>
      BY <1>3, <2>1, Zenon DEF ReadHeader
    <3>3. ehdr' # Nil /\ ehdr'.entry = file.entry /\ ehdr'.phnum = Len(file.phdrs)
      BY <3>2, HeaderIsNotNil, Zenon
    <3>4. TypeOK' /\ Balanced' /\ FoundInv' /\ PagesInWindow' BY <3>2, Zenon
    <3>5. HeaderInv' /\ SpaceInv' BY <3>1, <3>2, <3>3
    <3> QED BY <3>4, <3>5, Zenon
  <2>2. CASE Fail BY <1>3, <2>2, FailKeeps, Zenon DEF ReadHeader
  <2> QED BY <2>1, <2>2, Zenon
<1>4. CASE Validate
  <2>1. CASE Fail BY <1>4, <2>1, FailKeeps, Zenon DEF Validate
  <2>2. CASE ~Fail
    <3>1. /\ pc = "validate" /\ index' = index + 1
          /\ UNCHANGED <<linked, file, refs, pc, ehdr, space, heap_base, rewritten, lost>>
      BY <1>4, <2>2, Zenon DEF Validate
    <3> QED BY <3>1
  <2> QED BY <2>1, <2>2, Zenon
<1>5. CASE CreateSpace
  <2>1. CASE Fail BY <1>5, <2>1, FailKeeps, Zenon DEF CreateSpace
  <2>2. CASE ~Fail
    <3>1. /\ pc = "validate" /\ pc' = "segment" /\ entry_mapped' = FALSE
          /\ heap_base' = LoadBase /\ index' = 1 /\ space' = [pages |-> {}, bytes |-> {}]
          /\ UNCHANGED <<linked, file, refs, ehdr, rewritten, lost>>
      BY <1>5, <2>2, Zenon DEF CreateSpace
    <3>2. space' # Nil BY <3>1, SpaceIsNotNil, Zenon
    <3>3. LoadBase \in Nat /\ LoadBase <= StackBottom BY Layout
    <3> QED BY <3>1, <3>2, <3>3
  <2> QED BY <2>1, <2>2, Zenon
<1> QED BY <1>1, <1>2, <1>3, <1>4, <1>5, Zenon

\* load_segments(), which reads every header again and checks it again.
LEMMA SegmentKeeps ==
  ASSUME LoaderAssumption, LoaderInv, MapSegment
  PROVE  LoaderInv'
<1> DEFINE h == file.phdrs[index]
<1>1. h \in Headers
  BY FileFacts, Zenon DEF MapSegment, LoaderInv, TypeOK, HeaderInv
<1>2. CASE Fail BY <1>2, FailKeeps, Zenon DEF MapSegment
<1>3. CASE ~h.load /\ ~Fail
  <2>1. /\ pc = "segment" /\ index' = index + 1
        /\ UNCHANGED <<linked, file, refs, pc, ehdr, entry_mapped, heap_base, space, rewritten, lost>>
    BY <1>3, Zenon DEF MapSegment
  <2> QED BY <2>1
       DEF LoaderInv, TypeOK, Balanced, FoundInv, PagesInWindow, HeaderInv, SpaceInv
<1>4. CASE h.load /\ ~Fail
  <2>1. /\ pc = "segment" /\ pc' = "copy" /\ InUserRange(h)
        /\ entry_mapped' = (entry_mapped \/ MapsEntry(h, ehdr.entry))
        /\ heap_base' = Grown(heap_base, h)
        /\ space' = [pages |-> space.pages \cup SegmentPages(h),
                     bytes |-> Without(h.vaddr .. h.vaddr + h.memsz - 1)]
        /\ UNCHANGED <<linked, file, refs, ehdr, index, rewritten, lost>>
    BY <1>4, Zenon DEF MapSegment, Rechecked
  <2>2. /\ space # Nil /\ ehdr # Nil /\ ehdr.entry \in Nat /\ heap_base \in Nat /\ heap_base <= StackBottom
        /\ entry_mapped => PageOf(ehdr.entry) \in space.pages
        /\ \A p \in space.pages : p * P < heap_base
        /\ space.pages \subseteq PageOf(LoadBase) .. PageOf(StackTop) - 1
    BY <2>1, Zenon DEF LoaderInv, SpaceInv, PagesInWindow
  <2>3. /\ h.vaddr + h.memsz \in Nat /\ h.vaddr + h.memsz <= StackBottom
        /\ SegmentPages(h) \subseteq PageOf(LoadBase) .. PageOf(StackBottom) - 1
        /\ \A p \in SegmentPages(h) : p * P < h.vaddr + h.memsz
        /\ \A a \in Nat : MapsEntry(h, a) => PageOf(a) \in SegmentPages(h)
    BY <1>1, <2>1, SegmentFacts, Zenon
  <2> HIDE DEF h
  <2>4. /\ heap_base' \in Nat /\ heap_base' <= StackBottom
        /\ heap_base' >= heap_base /\ heap_base' >= h.vaddr + h.memsz
    BY <2>1, <2>2, <2>3, GrownFacts, Zenon
  <2>5. space' # Nil /\ space'.pages = space.pages \cup SegmentPages(h)
        /\ space' = [pages |-> space'.pages, bytes |-> space'.bytes]
    BY <2>1, SpaceIsNotNil, Zenon
  <2>6. space'.pages \subseteq PageOf(LoadBase) .. PageOf(StackTop) - 1
    <3>1. /\ PageOf(LoadBase) \in Nat /\ PageOf(StackBottom) \in Nat /\ PageOf(StackTop) \in Nat
          /\ PageOf(StackBottom) <= PageOf(StackTop)
      BY Limits, Layout
    <3> QED BY <2>2, <2>3, <2>5, <3>1
  <2>7. ASSUME NEW p \in space'.pages PROVE p * P < heap_base'
    <3>1. p \in Int /\ P \in Nat
      BY <2>6, Limits, Layout
    <3>2. p * P \in Int BY <3>1
    <3>3. p * P < heap_base \/ p * P < h.vaddr + h.memsz BY <2>2, <2>3, <2>5, Zenon
    <3> QED BY <2>2, <2>3, <2>4, <3>2, <3>3
  <2>8. entry_mapped' => PageOf(ehdr'.entry) \in space'.pages
    BY <2>1, <2>2, <2>3, <2>5, Zenon
  <2>9. TypeOK' /\ Balanced' /\ FoundInv' /\ HeaderInv'
    BY <2>1, Zenon DEF LoaderInv, TypeOK, Balanced, FoundInv, HeaderInv
  <2>10. PagesInWindow' BY <2>6, Zenon DEF PagesInWindow, PageOf
  <2>11. SpaceInv' BY <2>1, <2>2, <2>4, <2>5, <2>7, <2>8, Zenon DEF SpaceInv
  <2> QED BY <2>9, <2>10, <2>11, Zenon DEF LoaderInv
<1> QED BY <1>2, <1>3, <1>4, Zenon

\* The copying of a segment, the stack, argv, and the ways out.
LEMMA FinishingKeeps ==
  ASSUME LoaderAssumption, LoaderInv, CopyChunk \/ CopyDone \/ CloseFile \/ Exit
  PROVE  LoaderInv'
<1> USE DEF LoaderInv, TypeOK, Balanced, FoundInv, PagesInWindow, HeaderInv, SpaceInv
<1>0. CASE CopyChunk /\ Fail BY <1>0, FailKeeps, Zenon DEF CopyChunk
<1>1. CASE CopyChunk /\ ~Fail
  <2>1. /\ pc = "copy" /\ space # Nil
        /\ UNCHANGED <<linked, file, refs, pc, ehdr, index, entry_mapped, heap_base, rewritten, lost>>
    BY <1>1, Zenon DEF CopyChunk
  <2>2. space = [pages |-> space.pages, bytes |-> space.bytes] BY <2>1, Zenon
  <2>3. PICK b : space' = [space EXCEPT !.bytes = b] BY <1>1, Zenon DEF CopyChunk
  <2>4. space' = [pages |-> space.pages, bytes |-> b] BY <2>2, <2>3, Zenon
  <2>5. /\ space' # Nil /\ space'.pages = space.pages
        /\ space' = [pages |-> space'.pages, bytes |-> space'.bytes]
    BY <2>4, SpaceIsNotNil, Zenon
  <2> QED BY <2>1, <2>5, Zenon
<1>2. CASE CopyDone BY <1>2 DEF CopyDone
<1>3. CASE CloseFile
  <2>1. /\ pc = "close" /\ refs' = 0 /\ pc' = IF space = Nil THEN "idle" ELSE "run"
        /\ UNCHANGED <<linked, file, ehdr, entry_mapped, heap_base, space, rewritten, lost>>
    BY <1>3 DEF CloseFile
  <2> QED BY <2>1
<1>4. CASE Exit
  <2>1. /\ pc = "run" /\ pc' = "idle" /\ space' = Nil
        /\ UNCHANGED <<linked, file, refs, rewritten, lost>>
    BY <1>4, Zenon DEF Exit
  <2> QED BY <2>1, Zenon
<1> QED BY <1>0, <1>1, <1>2, <1>3, <1>4, Zenon

\* The heap begins on the page behind the image, at the latest where the stack begins.
LEMMA StackKeeps ==
  ASSUME LoaderAssumption, LoaderInv, MapStack
  PROVE  LoaderInv'
<1>1. CASE Fail BY <1>1, FailKeeps, Zenon DEF MapStack
<1>2. CASE ~Fail
  <2>1. /\ pc = "segment" /\ pc' = "argv" /\ entry_mapped /\ heap_base' = PageUp(heap_base)
        /\ space' = [space EXCEPT !.pages = @ \cup StackPages]
        /\ UNCHANGED <<linked, file, refs, ehdr, rewritten, lost>>
    BY <1>2, Zenon DEF MapStack
  <2>2. /\ space # Nil /\ space = [pages |-> space.pages, bytes |-> space.bytes]
        /\ ehdr # Nil /\ ehdr.entry \in Nat /\ heap_base \in Nat /\ heap_base <= StackBottom
        /\ PageOf(ehdr.entry) \in space.pages
        /\ \A p \in space.pages : p * P < heap_base
        /\ space.pages \subseteq PageOf(LoadBase) .. PageOf(StackTop) - 1
    BY <2>1, Zenon DEF LoaderInv, SpaceInv, PagesInWindow
  <2>3. space' = [pages |-> space.pages \cup StackPages, bytes |-> space.bytes]
    BY <2>1, <2>2, Zenon
  <2>4. /\ space' # Nil /\ space'.pages = space.pages \cup StackPages
        /\ space' = [pages |-> space'.pages, bytes |-> space'.bytes]
    BY <2>3, SpaceIsNotNil, Zenon
  <2>5. space'.pages \subseteq PageOf(LoadBase) .. PageOf(StackTop) - 1
    <3>1. /\ PageOf(LoadBase) \in Nat /\ PageOf(StackBottom) \in Nat /\ PageOf(StackTop) \in Nat
          /\ Premap \in Nat /\ PageOf(LoadBase) <= PageOf(StackTop) - Premap
      BY Limits, Layout
    <3>2. StackPages \subseteq PageOf(LoadBase) .. PageOf(StackTop) - 1 BY <3>1 DEF StackPages
    <3> QED BY <2>2, <2>4, <3>2, Zenon
  <2>6. /\ Ceiling(heap_base) \in Nat /\ heap_base' = P * Ceiling(heap_base)
        /\ P * Ceiling(heap_base) >= heap_base /\ P \in Nat \ {0}
    BY <2>1, <2>2, CeilingFacts, Layout, Zenon
  <2>7. heap_base' \in Nat /\ heap_base' <= StackBottom
    <3> DEFINE s == PageOf(StackBottom)
    <3>1. s \in Nat /\ StackBottom = P * s BY Limits, Zenon
    <3> HIDE DEF s
    <3>2. Ceiling(heap_base) <= s BY <2>2, <3>1, CeilingBelow, Zenon
    <3>3. P * Ceiling(heap_base) <= P * s BY <2>6, <3>1, <3>2, TimesGrows
    <3> QED BY <2>6, <3>1, <3>3
  <2>8. ASSUME NEW p \in space'.pages \ StackPages PROVE (p + 1) * P <= heap_base'
    <3>1. p \in Int /\ p * P < heap_base BY <2>2, <2>4, <2>5, Limits
    <3>2. p < Ceiling(heap_base)
      <4>1. SUFFICES ASSUME Ceiling(heap_base) <= p PROVE FALSE BY <2>6, <3>1
      <4>2. P * Ceiling(heap_base) <= P * p BY <2>6, <3>1, <4>1, TimesGrows
      <4>3. P * p = p * P /\ P * p \in Int /\ P * Ceiling(heap_base) \in Int BY <2>6, <3>1
      <4> QED BY <2>2, <2>6, <3>1, <4>2, <4>3
    <3>3. P * p + P <= P * Ceiling(heap_base) BY <2>6, <3>1, <3>2, TimesGrows
    <3>4. (p + 1) * P = P * p + P BY <2>6, <3>1
    <3> QED BY <2>6, <3>3, <3>4, Zenon
  <2>9. TypeOK' /\ Balanced' /\ FoundInv' /\ HeaderInv'
    BY <2>1, Zenon DEF LoaderInv, TypeOK, Balanced, FoundInv, HeaderInv
  <2>10. PagesInWindow' BY <2>5, Zenon DEF PagesInWindow, PageOf
  <2>11. SpaceInv' BY <2>1, <2>2, <2>4, <2>7, <2>8, Zenon DEF SpaceInv, StackPages
  <2> QED BY <2>9, <2>10, <2>11, Zenon DEF LoaderInv
<1> QED BY <1>1, <1>2, Zenon

LEMMA ArgvKeeps ==
  ASSUME LoaderAssumption, LoaderInv, NEW sizes \in ArgSizes, SetupArgv(sizes)
  PROVE  LoaderInv'
<1>1. CASE Fail BY <1>1, FailKeeps, Zenon DEF SetupArgv
<1>2. CASE ~Fail
  <2>1. /\ pc = "argv" /\ pc' = "close"
        /\ UNCHANGED <<linked, file, refs, ehdr, index, entry_mapped, heap_base, space, rewritten, lost>>
    BY <1>2, Zenon DEF SetupArgv
  <2> QED BY <2>1, Zenon
       DEF LoaderInv, TypeOK, Balanced, FoundInv, PagesInWindow, HeaderInv, SpaceInv
<1> QED BY <1>1, <1>2, Zenon

\* Others may write to the file, but cannot remove it while it is open; a file that was
\* only looked up is lost.
LEMMA OthersKeep ==
  ASSUME LoaderAssumption, LoaderInv,
         \/ \E i \in 1 .. MaxHeaders, h \in Headers : Rewrite(i, h)
         \/ Unlink \/ Create
  PROVE  LoaderInv'
<1>1. ASSUME NEW i \in 1 .. MaxHeaders, NEW h \in Headers, Rewrite(i, h)
      PROVE  LoaderInv'
  <2>1. /\ i \in DOMAIN file.phdrs /\ file' = [file EXCEPT !.phdrs[i] = h] /\ rewritten' = TRUE
        /\ UNCHANGED <<linked, refs, pc, ehdr, index, entry_mapped, heap_base, space, lost>>
    BY <1>1, Zenon DEF Rewrite
  <2>2. file' \in Files /\ Len(file'.phdrs) = Len(file.phdrs)
    BY <2>1, RewrittenFile, Zenon DEF LoaderInv, TypeOK
  <2> QED BY <2>1, <2>2, Zenon
       DEF LoaderInv, TypeOK, Balanced, FoundInv, PagesInWindow, HeaderInv, SpaceInv
<1>2. CASE Unlink
  <2>1. /\ refs = 0 /\ linked' = FALSE /\ lost' = (lost \/ pc = "found")
        /\ UNCHANGED <<file, refs, pc, ehdr, index, entry_mapped, heap_base, space, rewritten>>
    BY <1>2, Zenon DEF Unlink, MayUnlink
  <2>2. TypeOK' /\ Balanced' /\ FoundInv'
    <3>1. TypeOK' BY <2>1, Zenon DEF LoaderInv, TypeOK
    <3>2. ~(refs' > 0) BY <2>1
    <3>3. Balanced' BY <2>1, <3>2, Zenon DEF LoaderInv, Balanced
    <3>4. FoundInv' BY <2>1, Zenon DEF FoundInv
    <3> QED BY <3>1, <3>3, <3>4, Zenon
  <2>3. PagesInWindow' /\ HeaderInv' /\ SpaceInv'
    BY <2>1, Zenon DEF LoaderInv, PagesInWindow, HeaderInv, SpaceInv
  <2> QED BY <2>2, <2>3, Zenon DEF LoaderInv
<1>3. CASE Create
  <2>1. /\ linked' = TRUE
        /\ UNCHANGED <<file, refs, pc, ehdr, index, entry_mapped, heap_base, space, rewritten, lost>>
    BY <1>3, Zenon DEF Create
  <2>2. TypeOK' /\ Balanced' /\ FoundInv' BY <2>1, Zenon DEF LoaderInv, TypeOK, Balanced, FoundInv
  <2>3. PagesInWindow' /\ HeaderInv' /\ SpaceInv'
    BY <2>1, Zenon DEF LoaderInv, PagesInWindow, HeaderInv, SpaceInv
  <2> QED BY <2>2, <2>3, Zenon DEF LoaderInv
<1> QED BY <1>1, <1>2, <1>3, Zenon

-----------------------------------------------------------------------------

\* elf_load_image() maps no page outside the window, its reference to the file is released
\* exactly once and a failed load leaves no address space, and a program starts with its
\* entry point mapped and its heap behind its image: whatever the program headers are,
\* whoever writes to the file between the two readings of them, and wherever a read fails;
\* up to the point where a file that was looked up is unlinked before it is opened.
THEOREM LoadsSafe ==
  ASSUME LoaderAssumption
  PROVE  Spec => [](PagesInWindow /\ Balanced /\ Startable)
<1>1. Init => LoaderInv
  BY Zenon DEF Init, LoaderInv, TypeOK, Balanced, FoundInv, PagesInWindow, HeaderInv, SpaceInv
<1>2. LoaderInv /\ [Next]_vars => LoaderInv'
  <2> SUFFICES ASSUME LoaderInv, [Next]_vars PROVE LoaderInv'
    BY Zenon
  <2>1. CASE Load
    BY <2>1, CheckingKeeps, SegmentKeeps, FinishingKeeps, StackKeeps, ArgvKeeps, Zenon DEF Load
  <2>2. CASE UNCHANGED vars
    BY <2>2, Zenon
       DEF vars, LoaderInv, TypeOK, Balanced, FoundInv, PagesInWindow, HeaderInv, SpaceInv
  <2> QED BY <2>1, <2>2, OthersKeep, Zenon DEF Next
<1>3. LoaderInv => PagesInWindow /\ Balanced /\ Startable
  BY Zenon DEF LoaderInv, SpaceInv, Startable
<1> QED BY <1>1, <1>2, <1>3, PTL DEF Spec

-----------------------------------------------------------------------------
(* The layout of a process *)

CONSTANTS Two32, LowTop, ExtBase, ExtPages, Segments, TopImages
VARIABLES loaded, image, heap_start, heap_break, ext_map, mapped

Mem == INSTANCE UserMemory WITH W <- Two32

\* The boundaries of the layout, in pages.
LEMMA UserPages ==
  ASSUME Mem!UserMemoryAssumption
  PROVE  \E h, t, e \in Nat :
           /\ Mem!HeapMax = P * h /\ StackBottom = P * (h + 1) /\ StackTop = P * t /\ ExtBase = P * e
           /\ Mem!PageOf(Mem!HeapMax) = h /\ Mem!PageOf(StackBottom) = h + 1
           /\ Mem!PageOf(StackTop) = t /\ Mem!PageOf(ExtBase) = e
           /\ h > 0 /\ h + 1 < t /\ t < e
<1>1. {Two32, P, LoadBase, StackBottom, StackTop, Premap, LowTop, ExtBase, ExtPages} \subseteq Nat \ {0}
  BY Zenon DEF Mem!UserMemoryAssumption
<1>2. LoadBase < StackBottom - P /\ StackBottom < StackTop /\ StackTop < LowTop /\ LowTop < ExtBase
  BY Zenon DEF Mem!UserMemoryAssumption
<1>3. {StackBottom, StackTop, ExtBase} \subseteq {n * P : n \in 1 .. Two32}
  BY Zenon DEF Mem!UserMemoryAssumption
<1>4. PICK b \in 1 .. Two32 : StackBottom = b * P BY <1>3, Zenon
<1>5. PICK t \in 1 .. Two32 : StackTop = t * P BY <1>3, Zenon
<1>6. PICK e \in 1 .. Two32 : ExtBase = e * P BY <1>3, Zenon
<1>7. Two32 \in Nat /\ P \in Nat \ {0} /\ LoadBase \in Nat /\ LowTop \in Nat BY <1>1, Zenon
<1>8. b \in Nat /\ t \in Nat /\ e \in Nat BY <1>4, <1>5, <1>6, <1>7
<1>9. StackBottom = P * b /\ StackTop = P * t /\ ExtBase = P * e BY <1>4, <1>5, <1>6, <1>7, <1>8
<1>10. PICK h : h = b - 1 BY Zenon
<1>11. h \in Nat /\ b = h + 1 BY <1>4, <1>7, <1>10
<1>12. Mem!HeapMax = P * h
  <2>1. P * (h + 1) = P * h + P /\ P * h \in Nat BY <1>7, <1>11
  <2> QED BY <1>7, <1>9, <1>11, <2>1 DEF Mem!HeapMax
<1>13. \A k \in Nat : Mem!PageOf(P * k) = k
  <2> TAKE k \in Nat
  <2>1. 0 \in 0 .. P - 1 /\ P * k + 0 = P * k BY <1>7
  <2> QED BY <1>7, <2>1, QuotientUnique, Zenon DEF Mem!PageOf
<1>14. h > 0
  <2>1. P * h > 0 BY <1>2, <1>7, <1>9, <1>12 DEF Mem!HeapMax
  <2> QED BY <1>7, <1>11, <2>1
<1>15. b < t
  <2>1. P * b < P * t BY <1>2, <1>9
  <2>2. t < b => P * t + P <= P * b BY <1>7, <1>8, TimesGrows
  <2>3. P * t \in Nat /\ P * b \in Nat BY <1>7, <1>8
  <2>4. t = b => P * t = P * b BY Zenon
  <2> QED BY <1>7, <1>8, <2>1, <2>2, <2>3, <2>4
<1>16. t < e
  <2>1. P * t < P * e BY <1>2, <1>7, <1>8, <1>9
  <2>2. e < t => P * e + P <= P * t BY <1>7, <1>8, TimesGrows
  <2>3. P * t \in Nat /\ P * e \in Nat BY <1>7, <1>8
  <2>4. t = e => P * t = P * e BY Zenon
  <2> QED BY <1>7, <1>8, <2>1, <2>2, <2>3, <2>4
<1>17. /\ Mem!PageOf(Mem!HeapMax) = h /\ Mem!PageOf(StackBottom) = h + 1
       /\ Mem!PageOf(StackTop) = t /\ Mem!PageOf(ExtBase) = e
  BY <1>8, <1>9, <1>11, <1>12, <1>13, Zenon
<1> QED BY <1>8, <1>9, <1>11, <1>12, <1>14, <1>15, <1>16, <1>17, Zenon

\* What the invariant says of a page.
PageFine(p) ==
  /\ p \in Int
  /\ \/ p < Mem!PageOf(Mem!HeapMax)
     \/ p \in Mem!PageOf(StackBottom) .. Mem!ShmPage
     \/ p >= Mem!PageOf(ExtBase) /\ p - Mem!PageOf(ExtBase) \in ext_map

\* The pages being fine, the guard page is absent and the pages of the mmap region that are
\* present are reserved.
LEMMA FinePages ==
  ASSUME Mem!UserMemoryAssumption, NEW here, NEW ext,
         \A p \in here : /\ p \in Int
                         /\ \/ p < Mem!PageOf(Mem!HeapMax)
                            \/ p \in Mem!PageOf(StackBottom) .. Mem!ShmPage
                            \/ p >= Mem!PageOf(ExtBase) /\ p - Mem!PageOf(ExtBase) \in ext
  PROVE  /\ Mem!PageOf(Mem!HeapMax) \notin here
         /\ \A p \in here : p <= Mem!ShmPage \/ p >= Mem!PageOf(ExtBase)
         /\ \A i \in Mem!ExtIndex : Mem!ExtPage(i) \in here => i \in ext
<1>1. PICK h, t, e \in Nat : /\ Mem!PageOf(Mem!HeapMax) = h /\ Mem!PageOf(StackBottom) = h + 1
                             /\ Mem!PageOf(StackTop) = t /\ Mem!PageOf(ExtBase) = e
                             /\ h + 1 < t /\ t < e
  BY UserPages
<1>2. \A p \in here : /\ p \in Int
                      /\ p < h \/ p \in h + 1 .. t \/ (p >= e /\ p - e \in ext)
  BY <1>1, Zenon DEF Mem!ShmPage
<1>3. h \notin here BY <1>1, <1>2
<1>4. \A p \in here : p <= t \/ p >= e BY <1>1, <1>2
<1>5. \A i \in Mem!ExtIndex : e + i \in here => i \in ext
  <2> SUFFICES ASSUME NEW i \in Mem!ExtIndex, e + i \in here PROVE i \in ext OBVIOUS
  <2>1. i \in Nat BY DEF Mem!ExtIndex, Mem!UserMemoryAssumption
  <2>2. ~(e + i < h) /\ ~(e + i \in h + 1 .. t) /\ e + i - e = i BY <1>1, <2>1
  <2>3. (e + i) - e = i BY <2>1
  <2>4. (e + i) - e \in ext BY <1>2, <2>2, Zenon
  <2> QED BY <2>3, <2>4, Zenon
<1> QED BY <1>1, <1>3, <1>4, <1>5, Zenon DEF Mem!ExtPage, Mem!ShmPage

\* The same after a step.
LEMMA FinePagesNext ==
  ASSUME Mem!UserMemoryAssumption, \A p \in mapped' : PageFine(p)'
  PROVE  Mem!GuardPageAbsent' /\ Mem!ExtMappedReserved'
<1>1. PICK here, ext : here = mapped' /\ ext = ext_map' BY Zenon
<1>2. \A p \in here : /\ p \in Int
                      /\ \/ p < Mem!PageOf(Mem!HeapMax)
                         \/ p \in Mem!PageOf(StackBottom) .. Mem!ShmPage
                         \/ p >= Mem!PageOf(ExtBase) /\ p - Mem!PageOf(ExtBase) \in ext
  BY <1>1, Zenon DEF PageFine, Mem!PageOf, Mem!HeapMax, Mem!ShmPage
<1> QED BY <1>1, <1>2, FinePages, Zenon
  DEF Mem!GuardPageAbsent, Mem!ExtMappedReserved, Mem!PageOf, Mem!HeapMax, Mem!ExtPage, Mem!ShmPage

\* The kinds of the constants.
LEMMA UserConstants ==
  ASSUME Mem!UserMemoryAssumption
  PROVE  /\ Two32 \in Nat \ {0} /\ P \in Nat \ {0} /\ LoadBase \in Nat /\ StackBottom \in Nat
         /\ StackTop \in Nat /\ Premap \in Nat /\ ExtBase \in Nat /\ ExtPages \in Nat
         /\ LoadBase < Mem!HeapMax /\ Mem!HeapMax \in Nat /\ Mem!HeapMax < StackBottom /\ StackBottom < StackTop
         /\ StackTop < Two32 /\ StackTop < ExtBase
<1>1. {Two32, P, LoadBase, StackBottom, StackTop, Premap, LowTop, ExtBase, ExtPages} \subseteq Nat \ {0}
  BY Zenon DEF Mem!UserMemoryAssumption
<1>2. LoadBase < StackBottom - P /\ StackBottom < StackTop /\ StackTop < LowTop /\ LowTop < ExtBase
  BY Zenon DEF Mem!UserMemoryAssumption
<1>3. ExtBase + ExtPages * P < Two32 BY Zenon DEF Mem!UserMemoryAssumption
<1>4. /\ Two32 \in Nat \ {0} /\ P \in Nat \ {0} /\ LoadBase \in Nat /\ StackBottom \in Nat
      /\ StackTop \in Nat /\ Premap \in Nat /\ ExtBase \in Nat /\ ExtPages \in Nat /\ LowTop \in Nat
  BY <1>1, Zenon
<1>5. ExtPages * P \in Nat BY <1>4
<1>6. StackTop < Two32 /\ StackTop < ExtBase BY <1>2, <1>3, <1>4, <1>5
<1>7. LoadBase < Mem!HeapMax /\ Mem!HeapMax \in Nat /\ Mem!HeapMax < StackBottom BY <1>2, <1>4 DEF Mem!HeapMax
<1> QED BY <1>2, <1>4, <1>6, <1>7, Zenon

\* A number below the counter's range is its own remainder.
LEMMA WordOf ==
  ASSUME Mem!UserMemoryAssumption, NEW x \in Nat, x < Two32
  PROVE  Mem!Word(x) = x
<1>1. Two32 \in Nat \ {0} BY UserConstants, Zenon
<1> QED BY <1>1, SmallRemainder, Zenon DEF Mem!Word

\* sys_sbrk() moves the break within its bounds.
LEMMA SbrkUser ==
  ASSUME Mem!UserMemoryAssumption, Mem!LayoutInv, NEW inc \in Int, Mem!Sbrk(inc)
  PROVE  Mem!LayoutInv'
<1>1. /\ loaded /\ heap_break' = Mem!Word(heap_break + inc)
      /\ UNCHANGED <<loaded, image, heap_start, ext_map, mapped>>
  BY Zenon DEF Mem!Sbrk
<1>2. heap_start \in Nat /\ heap_break \in Nat /\ heap_start <= heap_break /\ heap_break <= Mem!HeapMax
  BY <1>1, Zenon DEF Mem!LayoutInv, Mem!HeapBounds
<1>3. Mem!HeapMax \in Nat /\ Mem!HeapMax < Two32 /\ Two32 \in Nat BY UserConstants
<1>4. heap_break' \in Nat /\ heap_start <= heap_break' /\ heap_break' <= Mem!HeapMax
  <2>1. CASE inc < 0
    <3>1. -inc <= Mem!Word(heap_break - heap_start) BY <2>1, Zenon DEF Mem!Sbrk, Mem!MayShrink
    <3>2. heap_break - heap_start \in Nat /\ heap_break - heap_start < Two32 BY <1>2, <1>3
    <3>3. Mem!Word(heap_break - heap_start) = heap_break - heap_start BY <3>2, WordOf, Zenon
    <3>4. heap_break + inc \in Nat /\ heap_break + inc < Two32 /\ heap_start <= heap_break + inc
          /\ heap_break + inc <= Mem!HeapMax
      BY <1>2, <1>3, <2>1, <3>1, <3>3
    <3> QED BY <1>1, <3>4, WordOf, Zenon
  <2>2. CASE ~(inc < 0)
    <3>1. inc <= Mem!Word(Mem!HeapMax - heap_break) BY <2>2, Zenon DEF Mem!Sbrk, Mem!MayGrow
    <3>2. Mem!HeapMax - heap_break \in Nat /\ Mem!HeapMax - heap_break < Two32 BY <1>2, <1>3
    <3>3. Mem!Word(Mem!HeapMax - heap_break) = Mem!HeapMax - heap_break BY <3>2, WordOf, Zenon
    <3>4. heap_break + inc \in Nat /\ heap_break + inc < Two32 /\ heap_start <= heap_break + inc
          /\ heap_break + inc <= Mem!HeapMax
      BY <1>2, <1>3, <2>2, <3>1, <3>3
    <3> QED BY <1>1, <3>4, WordOf, Zenon
  <2> QED BY <2>1, <2>2, Zenon
<1> QED BY <1>1, <1>4, Zenon DEF Mem!LayoutInv, Mem!HeapBounds, Mem!GuardPageAbsent, Mem!ExtMappedReserved

\* sys_mmap() reserves pages.
LEMMA MmapUser ==
  ASSUME Mem!UserMemoryAssumption, Mem!LayoutInv, NEW n \in Nat, Mem!Mmap(n)
  PROVE  Mem!LayoutInv'
<1>1. PICK lo, hi : ext_map' = ext_map \cup lo .. hi BY Zenon DEF Mem!Mmap
<1>2. UNCHANGED <<loaded, image, heap_start, heap_break, mapped>> BY Zenon DEF Mem!Mmap
<1>3. ext_map \subseteq ext_map' BY <1>1, Zenon
<1> QED BY <1>2, <1>3, Zenon DEF Mem!LayoutInv, Mem!HeapBounds, Mem!GuardPageAbsent, Mem!ExtMappedReserved

\* sys_munmap() takes the pages away with their reservation.
LEMMA MunmapUser ==
  ASSUME Mem!UserMemoryAssumption, Mem!LayoutInv, NEW first \in Nat, NEW n \in Nat, Mem!Munmap(first, n)
  PROVE  Mem!LayoutInv'
<1>1. /\ ext_map' = ext_map \ (first .. first + n - 1)
      /\ mapped' = mapped \ {Mem!ExtPage(i) : i \in first .. first + n - 1}
      /\ UNCHANGED <<loaded, image, heap_start, heap_break>>
  BY Zenon DEF Mem!Munmap, Mem!Unmapped
<1>2. \A p \in mapped' : PageFine(p)'
  <2> SUFFICES ASSUME NEW p \in mapped' PROVE PageFine(p)' OBVIOUS
  <2>1. PageFine(p) /\ p \in Int BY <1>1, Zenon DEF Mem!LayoutInv, PageFine
  <2>2. PICK e \in Nat : Mem!PageOf(ExtBase) = e BY UserPages, Zenon
  <2>3. \A i \in first .. first + n - 1 : p # e + i BY <1>1, <2>2, Zenon DEF Mem!ExtPage
  <2>4. p - e \notin first .. first + n - 1
    <3>1. p = e + (p - e) BY <2>1, <2>2
    <3> QED BY <2>3, <3>1, Zenon
  <2> QED BY <1>1, <2>1, <2>2, <2>4, Zenon DEF PageFine, Mem!PageOf, Mem!HeapMax, Mem!ShmPage
<1>3. Mem!GuardPageAbsent' /\ Mem!ExtMappedReserved' BY <1>2, FinePagesNext, Zenon
<1> QED BY <1>1, <1>2, <1>3, Zenon DEF Mem!LayoutInv, Mem!HeapBounds, PageFine

\* sys_shm() brings in the page above the stack.
LEMMA ShmUser ==
  ASSUME Mem!UserMemoryAssumption, Mem!LayoutInv, Mem!SysShm
  PROVE  Mem!LayoutInv'
<1>1. /\ mapped' = mapped \cup {Mem!ShmPage}
      /\ UNCHANGED <<loaded, image, heap_start, heap_break, ext_map>>
  BY Zenon DEF Mem!SysShm
<1>2. PageFine(Mem!ShmPage)
  <2>1. PICK h, t \in Nat : Mem!PageOf(StackBottom) = h + 1 /\ Mem!PageOf(StackTop) = t /\ h + 1 < t
    BY UserPages, Zenon
  <2>2. t \in Int /\ t \in h + 1 .. t BY <2>1
  <2> QED BY <2>1, <2>2, Zenon DEF PageFine, Mem!ShmPage
<1>3. \A p \in mapped : PageFine(p) BY Zenon DEF Mem!LayoutInv, PageFine
<1>4. \A p \in mapped' : PageFine(p)' BY <1>1, <1>2, <1>3, Zenon DEF PageFine, Mem!PageOf, Mem!HeapMax, Mem!ShmPage
<1>5. Mem!GuardPageAbsent' /\ Mem!ExtMappedReserved' BY <1>4, FinePagesNext, Zenon
<1> QED BY <1>1, <1>4, <1>5, Zenon DEF Mem!LayoutInv, Mem!HeapBounds, PageFine

\* page_fault_handler() brings in pages of the heap, of the stack and of reserved runs only.
LEMMA TouchUser ==
  ASSUME Mem!UserMemoryAssumption, Mem!LayoutInv, NEW a \in Nat, Mem!Touch(a)
  PROVE  Mem!LayoutInv'
<1>1. /\ mapped' = mapped \cup {Mem!PageOf(a)} /\ loaded /\ Mem!DemandPaged(a)
      /\ UNCHANGED <<loaded, image, heap_start, heap_break, ext_map>>
  BY Zenon DEF Mem!Touch
<1>2. PICK h, t, e \in Nat :
           /\ Mem!HeapMax = P * h /\ StackBottom = P * (h + 1) /\ StackTop = P * t /\ ExtBase = P * e
           /\ Mem!PageOf(Mem!HeapMax) = h /\ Mem!PageOf(StackBottom) = h + 1
           /\ Mem!PageOf(StackTop) = t /\ Mem!PageOf(ExtBase) = e
           /\ h > 0 /\ h + 1 < t /\ t < e
  BY UserPages, Zenon
<1>3. P \in Nat \ {0} /\ h + 1 \in Nat BY <1>2, UserConstants
<1>4. \A k \in Nat : a < P * k <=> Mem!PageOf(a) < k BY <1>3, QuotientBelow, Zenon DEF Mem!PageOf
<1>5. Mem!PageOf(a) \in Nat BY <1>3, Quotient, Zenon DEF Mem!PageOf
<1>6. P * h \in Nat /\ P * (h + 1) \in Nat /\ P * t \in Nat /\ P * e \in Nat BY <1>2, <1>3
<1>7. PageFine(Mem!PageOf(a))
  <2>1. CASE a >= StackBottom /\ a < StackTop
    <3>1. ~(a < P * (h + 1)) /\ a < P * t BY <1>2, <1>6, <2>1
    <3>2. ~(Mem!PageOf(a) < h + 1) /\ Mem!PageOf(a) < t BY <1>2, <1>3, <1>4, <3>1, Zenon
    <3>3. Mem!PageOf(a) \in h + 1 .. t BY <1>2, <1>5, <3>2
    <3>4. Mem!PageOf(a) \in Int BY <1>5
    <3> QED BY <1>2, <3>3, <3>4, Zenon DEF PageFine, Mem!ShmPage
  <2>2. CASE a >= heap_start /\ a < heap_break
    <3>1. heap_break \in Nat /\ heap_break <= P * h BY <1>1, <1>2, Zenon DEF Mem!LayoutInv, Mem!HeapBounds
    <3>2. a < P * h BY <1>6, <2>2, <3>1
    <3>3. Mem!PageOf(a) < h /\ Mem!PageOf(a) \in Int BY <1>2, <1>4, <1>5, <3>2
    <3> QED BY <1>2, <3>3, Zenon DEF PageFine
  <2>3. CASE a >= ExtBase /\ Mem!PageOf(a) - Mem!PageOf(ExtBase) \in ext_map
    <3>1. ~(a < P * e) BY <1>2, <1>6, <2>3
    <3>2. ~(Mem!PageOf(a) < e) BY <1>2, <1>4, <3>1, Zenon
    <3>3. Mem!PageOf(a) >= e /\ Mem!PageOf(a) \in Int BY <1>2, <1>5, <3>2
    <3> QED BY <1>2, <2>3, <3>3, Zenon DEF PageFine
  <2> QED BY <1>1, <2>1, <2>2, <2>3, Zenon DEF Mem!DemandPaged
<1>8. \A p \in mapped : PageFine(p) BY Zenon DEF Mem!LayoutInv, PageFine
<1>9. \A p \in mapped' : PageFine(p)' BY <1>1, <1>7, <1>8, Zenon DEF PageFine, Mem!PageOf, Mem!HeapMax, Mem!ShmPage
<1>10. Mem!GuardPageAbsent' /\ Mem!ExtMappedReserved' BY <1>9, FinePagesNext, Zenon
<1> QED BY <1>1, <1>9, <1>10, Zenon DEF Mem!LayoutInv, Mem!HeapBounds, PageFine

\* phdr_in_user_range() keeps the end of a segment in the window.
LEMMA SegmentEnds ==
  ASSUME Mem!UserMemoryAssumption, ~TopImages, NEW segs \in SUBSET Segments, Mem!Load(segs), NEW seg \in segs
  PROVE  /\ seg.vaddr \in Nat /\ seg.memsz \in Nat /\ seg.vaddr + seg.memsz \in Nat
         /\ seg.vaddr + seg.memsz <= Mem!HeapMax
<1>1. seg.vaddr \in Nat /\ seg.memsz \in Nat
  <2>1. Segments \subseteq [vaddr : Nat, memsz : Nat] BY Zenon DEF Mem!UserMemoryAssumption
  <2> QED BY <2>1, Zenon
<1>2. seg.vaddr < StackBottom /\ seg.memsz <= Mem!Word(StackBottom - seg.vaddr)
  BY Zenon DEF Mem!Load, Mem!InUserRange
<1>3. StackBottom - seg.vaddr \in Nat /\ StackBottom - seg.vaddr < Two32 BY <1>1, <1>2, UserConstants
<1>4. Mem!Word(StackBottom - seg.vaddr) = StackBottom - seg.vaddr BY <1>3, WordOf, Zenon
<1>5. PICK x : x = seg.vaddr + seg.memsz BY Zenon
<1>6. x \in Nat /\ x <= StackBottom BY <1>1, <1>2, <1>4, <1>5, UserConstants
<1>7. x \notin Mem!HeapMax + 1 .. StackBottom BY <1>5, Zenon DEF Mem!Load
<1>8. x <= Mem!HeapMax BY <1>6, <1>7, UserConstants
<1> QED BY <1>1, <1>5, <1>6, <1>8, Zenon

\* The pages of the stack that elf_load_image() maps at once are pages of the stack.
LEMMA PremappedStack ==
  ASSUME Mem!UserMemoryAssumption
  PROVE  \A p \in Mem!PagesOf(StackTop - Premap * P, Premap * P) :
           p \in Mem!PageOf(StackBottom) .. Mem!PageOf(StackTop) - 1
<1>1. PICK h, t, e \in Nat :
           /\ Mem!HeapMax = P * h /\ StackBottom = P * (h + 1) /\ StackTop = P * t /\ ExtBase = P * e
           /\ Mem!PageOf(Mem!HeapMax) = h /\ Mem!PageOf(StackBottom) = h + 1
           /\ Mem!PageOf(StackTop) = t /\ Mem!PageOf(ExtBase) = e
           /\ h > 0 /\ h + 1 < t /\ t < e
  BY UserPages, Zenon
<1>2. P \in Nat \ {0} /\ Premap \in Nat BY UserConstants
<1>3. Premap * P < StackTop - StackBottom + P BY Zenon DEF Mem!UserMemoryAssumption
<1>4. Premap * P = P * Premap /\ P * (h + 1) = P * h + P /\ P * h \in Nat /\ P * t \in Nat /\ P * Premap \in Nat
  BY <1>1, <1>2
<1>5. P * Premap < P * t - P * h BY <1>1, <1>2, <1>3, <1>4
<1>6. Premap <= t - (h + 1)
  <2>1. t - h \in Nat /\ P * (t - h) = P * t - P * h BY <1>1, <1>2
  <2>2. t - h <= Premap => P * (t - h) <= P * Premap
    <3>1. t - h < Premap => P * (t - h) + P <= P * Premap BY <1>2, <2>1, TimesGrows
    <3>2. t - h = Premap => P * (t - h) = P * Premap BY Zenon
    <3>3. P * (t - h) \in Int BY <1>2, <2>1
    <3> QED BY <1>2, <1>4, <2>1, <3>1, <3>2, <3>3
  <2> QED BY <1>1, <1>2, <1>4, <1>5, <2>1, <2>2
<1>7. PICK f : f = t - Premap BY Zenon
<1>8. f \in Nat /\ h + 1 <= f BY <1>1, <1>2, <1>6, <1>7
<1>9. StackTop - Premap * P = P * f + 0 /\ (StackTop - Premap * P) + Premap * P + P - 1 = P * t + (P - 1)
  <2>1. P * f = P * t - P * Premap BY <1>1, <1>2, <1>7
  <2> QED BY <1>1, <1>2, <1>4, <1>8, <2>1
<1>10. Mem!PageOf(StackTop - Premap * P) = f
  <2>1. 0 \in 0 .. P - 1 BY <1>2
  <2> QED BY <1>2, <1>8, <1>9, <2>1, QuotientUnique, Zenon DEF Mem!PageOf
<1>11. Mem!PageOf((StackTop - Premap * P) + Premap * P + P - 1) = t
  <2>1. P - 1 \in 0 .. P - 1 BY <1>2
  <2> QED BY <1>1, <1>2, <1>9, <2>1, QuotientUnique, Zenon DEF Mem!PageOf
<1>12. Mem!PagesOf(StackTop - Premap * P, Premap * P) = f .. t - 1 BY <1>10, <1>11, Zenon DEF Mem!PagesOf
<1> QED BY <1>1, <1>8, <1>12

\* The pages of a segment lie below the guard page.
LEMMA SegmentBelow ==
  ASSUME Mem!UserMemoryAssumption, ~TopImages, NEW segs \in SUBSET Segments, Mem!Load(segs), NEW seg \in segs,
         NEW p \in Mem!PagesOf(seg.vaddr, seg.memsz)
  PROVE  p \in Int /\ p < Mem!PageOf(Mem!HeapMax)
<1>1. PICK h \in Nat : Mem!HeapMax = P * h /\ Mem!PageOf(Mem!HeapMax) = h BY UserPages, Zenon
<1>2. P \in Nat \ {0} BY UserConstants
<1>3. PICK x : x = seg.vaddr + seg.memsz BY Zenon
<1>4. x \in Nat /\ x <= P * h /\ seg.vaddr \in Nat BY <1>1, <1>3, SegmentEnds, Zenon
<1>5. Mem!PageOf(x + P - 1) <= h BY <1>1, <1>2, <1>4, QuotientBelow, Zenon DEF Mem!PageOf
<1>6. x + P - 1 \in Nat BY <1>2, <1>4
<1>7. Mem!PageOf(x + P - 1) \in Nat /\ Mem!PageOf(seg.vaddr) \in Nat
  BY <1>2, <1>4, <1>6, Quotient, Zenon DEF Mem!PageOf
<1>8. p \in Mem!PageOf(seg.vaddr) .. Mem!PageOf(x + P - 1) - 1 BY <1>3, Zenon DEF Mem!PagesOf
<1> QED BY <1>1, <1>5, <1>7, <1>8

\* The heap begins behind the image and below the guard page.
LEMMA HeapBaseBelow ==
  ASSUME Mem!UserMemoryAssumption, ~TopImages, NEW seg1 \in Segments, NEW seg2 \in Segments, Mem!Load({seg1, seg2})
  PROVE  Mem!HeapBase({seg1, seg2}) \in Nat /\ Mem!HeapBase({seg1, seg2}) <= Mem!HeapMax
<1>1. PICK h \in Nat : Mem!HeapMax = P * h BY UserPages, Zenon
<1>2. P \in Nat \ {0} /\ LoadBase \in Nat /\ LoadBase < Mem!HeapMax /\ Mem!HeapMax \in Nat BY UserConstants
<1>3. PICK T : T = {LoadBase} \cup {seg.vaddr + seg.memsz : seg \in {seg1, seg2}} BY Zenon
<1>4. {seg1, seg2} \in SUBSET Segments BY Zenon
<1>5. PICK x1, x2 : x1 = seg1.vaddr + seg1.memsz /\ x2 = seg2.vaddr + seg2.memsz BY Zenon
<1>6. x1 \in Nat /\ x1 <= Mem!HeapMax /\ x2 \in Nat /\ x2 <= Mem!HeapMax BY <1>4, <1>5, SegmentEnds, Zenon
<1>7. T = {LoadBase, x1, x2} BY <1>3, <1>5, Zenon
<1>8. \E x \in T : \A y \in T : x >= y BY <1>2, <1>6, <1>7
<1>9. Mem!Max(T) \in T BY <1>8, Zenon DEF Mem!Max
<1>10. PICK m : m = Mem!Max(T) BY Zenon
<1>11. m \in Nat /\ m <= P * h BY <1>1, <1>2, <1>6, <1>7, <1>9, <1>10
<1>12. PICK q : q = (m + P - 1) \div P BY Zenon
<1>13. m + P - 1 \in Nat BY <1>2, <1>11
<1>14. q \in Nat BY <1>2, <1>12, <1>13, Quotient, Zenon
<1>15. q <= h BY <1>1, <1>2, <1>11, <1>12, QuotientBelow, Zenon
<1>16. q * P \in Nat /\ q * P <= P * h
  <2>1. q < h => P * q + P <= P * h BY <1>1, <1>2, <1>14, TimesGrows
  <2>2. q * P = P * q /\ P * q \in Nat /\ P * h \in Nat BY <1>1, <1>2, <1>14
  <2>3. q = h => P * q = P * h BY Zenon
  <2> QED BY <1>1, <1>2, <1>14, <1>15, <2>1, <2>2, <2>3
<1>17. Mem!HeapBase({seg1, seg2}) = q * P BY <1>3, <1>10, <1>12, Zenon DEF Mem!HeapBase, Mem!PageUp
<1> QED BY <1>1, <1>16, <1>17, Zenon

\* elf_load_image() lays an image out below the guard page.
LEMMA LoadUser ==
  ASSUME Mem!UserMemoryAssumption, ~TopImages, NEW seg1 \in Segments, NEW seg2 \in Segments, Mem!Load({seg1, seg2})
  PROVE  Mem!LayoutInv'
<1>1. PICK segs : segs = {seg1, seg2} BY Zenon
<1>2. segs \in SUBSET Segments BY <1>1, Zenon
<1>3. Mem!Load(segs) BY <1>1, Zenon
<1>4. /\ loaded' = TRUE /\ heap_start' = Mem!HeapBase(segs) /\ heap_break' = Mem!HeapBase(segs) /\ ext_map' = {}
      /\ mapped' = (UNION {Mem!PagesOf(seg.vaddr, seg.memsz) : seg \in segs})
                     \cup Mem!PagesOf(StackTop - Premap * P, Premap * P)
  BY <1>3, Zenon DEF Mem!Load
<1>5. Mem!HeapBase(segs) \in Nat /\ Mem!HeapBase(segs) <= Mem!HeapMax BY <1>1, HeapBaseBelow, Zenon
<1>6. Mem!HeapBase(segs) <= Mem!HeapBase(segs) BY <1>5
<1>7. \A p \in mapped' : PageFine(p)'
  <2> SUFFICES ASSUME NEW p \in mapped' PROVE PageFine(p)' OBVIOUS
  <2>1. CASE p \in Mem!PagesOf(StackTop - Premap * P, Premap * P)
    <3>1. p \in Mem!PageOf(StackBottom) .. Mem!PageOf(StackTop) - 1 BY <2>1, PremappedStack, Zenon
    <3>2. PICK b, t \in Nat : Mem!PageOf(StackBottom) = b /\ Mem!PageOf(StackTop) = t BY UserPages
    <3>3. p \in Int /\ p \in Mem!PageOf(StackBottom) .. Mem!PageOf(StackTop) BY <3>1, <3>2
    <3> QED BY <3>3, Zenon DEF PageFine, Mem!PageOf, Mem!ShmPage
  <2>2. CASE p \in UNION {Mem!PagesOf(seg.vaddr, seg.memsz) : seg \in segs}
    <3>1. PICK seg \in segs : p \in Mem!PagesOf(seg.vaddr, seg.memsz) BY <2>2, Zenon
    <3>2. p \in Int /\ p < Mem!PageOf(Mem!HeapMax) BY <1>2, <1>3, <3>1, SegmentBelow, Zenon
    <3> QED BY <3>2, Zenon DEF PageFine, Mem!PageOf, Mem!HeapMax, Mem!ShmPage
  <2> QED BY <1>4, <2>1, <2>2, Zenon
<1>8. Mem!GuardPageAbsent' /\ Mem!ExtMappedReserved' BY <1>7, FinePagesNext, Zenon
<1> QED BY <1>4, <1>5, <1>6, <1>7, <1>8, Zenon DEF Mem!LayoutInv, Mem!HeapBounds, PageFine, Mem!HeapMax

\* Before the first image nothing is present, and every step preserves the invariant.
LEMMA UserInductive ==
  ASSUME Mem!UserMemoryAssumption, ~TopImages
  PROVE  (Mem!Init => Mem!LayoutInv) /\ (Mem!LayoutInv /\ [Mem!Next]_Mem!vars => Mem!LayoutInv')
<1>1. ASSUME Mem!Init PROVE Mem!LayoutInv
  BY <1>1, Zenon DEF Mem!Init, Mem!LayoutInv, Mem!HeapBounds, Mem!GuardPageAbsent, Mem!ExtMappedReserved
<1>2. ASSUME Mem!LayoutInv, [Mem!Next]_Mem!vars PROVE Mem!LayoutInv'
  <2>1. CASE UNCHANGED Mem!vars
    BY <1>2, <2>1, Zenon
       DEF Mem!vars, Mem!LayoutInv, Mem!HeapBounds, Mem!GuardPageAbsent, Mem!ExtMappedReserved, Mem!PageOf,
           Mem!ShmPage
  <2>2. ASSUME NEW seg1 \in Segments, NEW seg2 \in Segments, Mem!Load({seg1, seg2}) PROVE Mem!LayoutInv'
    BY <2>2, LoadUser, Zenon
  <2>3. ASSUME NEW inc \in -(Two32 \div 2) .. (Two32 \div 2) - 1, Mem!Sbrk(inc) PROVE Mem!LayoutInv'
    <3>1. inc \in Int BY UserConstants
    <3> QED BY <1>2, <2>3, <3>1, SbrkUser, Zenon
  <2>4. ASSUME NEW n \in 1 .. ExtPages, Mem!Mmap(n) PROVE Mem!LayoutInv'
    <3>1. n \in Nat BY UserConstants
    <3> QED BY <1>2, <2>4, <3>1, MmapUser, Zenon
  <2>5. ASSUME NEW first \in Mem!ExtIndex, NEW n \in 1 .. ExtPages, Mem!Munmap(first, n) PROVE Mem!LayoutInv'
    <3>1. n \in Nat /\ first \in Nat BY UserConstants DEF Mem!ExtIndex
    <3> QED BY <1>2, <2>5, <3>1, MunmapUser, Zenon
  <2>6. ASSUME NEW a \in 0 .. Two32 - 1, Mem!Touch(a) PROVE Mem!LayoutInv'
    <3>1. a \in Nat BY UserConstants
    <3> QED BY <1>2, <2>6, <3>1, TouchUser, Zenon
  <2>7. CASE Mem!SysShm
    BY <1>2, <2>7, ShmUser, Zenon
  <2> QED BY <1>2, <2>1, <2>2, <2>3, <2>4, <2>5, <2>6, <2>7, Zenon DEF Mem!Next
<1> QED BY <1>1, <1>2, Zenon

\* Without an image in the page below the stack, the break stays between the end of the
\* image and the guard page, which is never present; between the stack and the mmap region
\* only the page of sys_shm() is; and a page of the mmap region is present only while it is
\* reserved (sys_sbrk(), sys_munmap(), page_fault_handler()): for every layout and page size,
\* any number of pages and all segments.
THEOREM LayoutSafe ==
  ASSUME Mem!UserMemoryAssumption, ~TopImages
  PROVE  Mem!Spec => [](Mem!HeapBounds /\ Mem!GuardPageAbsent /\ Mem!ExtMappedReserved)
<1>1. Mem!Init => Mem!LayoutInv BY UserInductive, Zenon
<1>2. Mem!LayoutInv /\ [Mem!Next]_Mem!vars => Mem!LayoutInv' BY UserInductive, Zenon
<1>3. Mem!LayoutInv => Mem!HeapBounds /\ Mem!GuardPageAbsent /\ Mem!ExtMappedReserved BY Zenon DEF Mem!LayoutInv
<1> QED BY <1>1, <1>2, <1>3, PTL DEF Mem!Spec
=============================================================================
