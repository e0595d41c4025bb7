------------------------------ MODULE Umalloc --------------------------------
(***************************************************************************)
(* The allocator of user programs (user/umalloc.h): a circular free list in *)
(* the order of addresses, first fit from where the last call stopped,      *)
(* blocks merged as they are freed, and sbrk() when nothing fits.           *)
(*                                                                         *)
(* Addresses and sizes of blocks are in units of a header, HeaderSize       *)
(* bytes; byte counts are words below Word (2^32).  The ring is the free    *)
(* list from umalloc_freep on; umalloc_base lies below the heap.            *)
(***************************************************************************)
EXTENDS Integers, Sequences, SequencesExt, FiniteSets, FiniteSetsExt

CONSTANTS
  HeaderSize,   \* sizeof(Header)
  MoreCore,     \* UMALLOC_NALLOC
  Word,
  HeapUnits,    \* what sbrk() can give
  Requests,     \* the arguments of malloc()
  MaxGap        \* bound: units that the program takes from sbrk() itself

\* What the constants have to satisfy; the last requests, for which the rounding to
\* units would wrap, are left out.
UmallocAssumption ==
  /\ {HeaderSize, MoreCore, Word} \subseteq Nat \ {0} /\ HeapUnits \in Nat /\ MaxGap \in Nat
  /\ Requests \subseteq 0 .. Word - HeaderSize

VARIABLES
  ring,    \* the free blocks from umalloc_freep on; empty before the first malloc()
  given,   \* the blocks the program holds, with the bytes it asked for
  brk,     \* the units below the break
  gaps     \* the units the program took from sbrk() itself

vars == <<ring, given, brk, gaps>>

Block(a, n) == [addr |-> a, size |-> n]
Base == Block(-1, 0)
HeapStart == 1

Init == ring = <<>> /\ given = {} /\ brk = 0 /\ gaps = {}

-----------------------------------------------------------------------------
(* The free list *)

After(r, i) == r[IF i = Len(r) THEN 1 ELSE i + 1]
StartAt(r, i) == SubSeq(r, i, Len(r)) \o SubSeq(r, 1, i - 1)

\* The place of a block at address a: between two neighbours, or at the end of the arena.
Between(a, lo, hi) == a > lo /\ a < hi
AtEnd(a, lo, hi) == lo >= hi /\ (a > lo \/ a < hi)
PlaceOf(r, a) ==
  Min({i \in DOMAIN r : Between(a, r[i].addr, After(r, i).addr)
                        \/ AtEnd(a, r[i].addr, After(r, i).addr)})

\* Faulty variant: only the upper neighbour is merged.
MergedUp(p, b, rest) ==
  IF rest # <<>> /\ b.addr + b.size = rest[1].addr
  THEN <<p, Block(b.addr, b.size + rest[1].size)>> \o Tail(rest)
  ELSE <<p, b>> \o rest
\* Block b goes behind p, in front of rest, and merges with its neighbours.
Merged(p, b, rest) ==
  LET up == rest # <<>> /\ b.addr + b.size = rest[1].addr
      c == IF up THEN Block(b.addr, b.size + rest[1].size) ELSE b
      tail == IF up THEN Tail(rest) ELSE rest
  IN  IF p.addr + p.size = b.addr THEN <<Block(p.addr, p.size + c.size)>> \o tail
      ELSE <<p, c>> \o tail

\* free(): the list afterwards, from the lower neighbour on.
Freed(r, b) ==
  LET s == StartAt(r, PlaceOf(r, b.addr)) IN Merged(s[1], b, Tail(s))

\* The blocks of a size, in the order of the search: umalloc_freep comes last.
Fitting(r, n) == {i \in 2 .. Len(r) + 1 : r[IF i > Len(r) THEN 1 ELSE i].size >= n}

\* A block of n units out of block i: all of it, or its tail.  The list then starts with
\* the block before i.
Taken(r, i, n) ==
  LET s == StartAt(r, i - 1)
      p == s[2]
  IN  IF p.size = n THEN <<p, <<s[1]>> \o SubSeq(s, 3, Len(s))>>
      ELSE <<Block(p.addr + p.size - n, n), [s EXCEPT ![2].size = @ - n]>>

-----------------------------------------------------------------------------
(* The calls *)

Units(bytes) == ((bytes + HeaderSize - 1) % Word) \div HeaderSize + 1
Listed == IF ring = <<>> THEN <<Base>> ELSE ring

\* sbrk() of umalloc_morecore(): whether the system has that much, in a signed word.
Needed(n) == Max({n, MoreCore})
MayGrow(n) == n <= ((Word \div 2) - 1) \div HeaderSize /\ brk + n <= HeapUnits

\* malloc(): the results as <<block, list, break>>; none when it fails.
Malloced(n) ==
  LET more == Freed(Listed, Block(HeapStart + brk, Needed(n))) IN
  IF Fitting(Listed, n) # {}
  THEN {<<Taken(Listed, Min(Fitting(Listed, n)), n), brk>>}
  ELSE IF MayGrow(Needed(n))
       THEN {<<Taken(more, Min(Fitting(more, n)), n), brk + Needed(n)>>}
       ELSE {}

Held(b, bytes) == [addr |-> b.addr, size |-> b.size, bytes |-> bytes]
Unheld(h) == Block(h.addr, h.size)

Malloc(bytes) ==
  /\ bytes > 0
  /\ IF Malloced(Units(bytes)) = {} THEN ring' = Listed /\ UNCHANGED <<given, brk>>
     ELSE \E m \in Malloced(Units(bytes)) :
            /\ ring' = m[1][2] /\ brk' = m[2]
            /\ given' = given \cup {Held(m[1][1], bytes)}
  /\ UNCHANGED gaps

Free(h) ==
  /\ ring' = Freed(ring, Unheld(h)) /\ given' = given \ {h}
  /\ UNCHANGED <<brk, gaps>>

Usable(h) == (h.size - 1) * HeaderSize

\* realloc() of a block: it stays where it is if it is long enough; otherwise there is a
\* new one first, and the old one is freed.  The first bytes are copied.
Realloc(h, bytes) ==
  IF bytes = 0 THEN Free(h)
  ELSE IF Usable(h) >= bytes
  THEN given' = (given \ {h}) \cup {Held(h, bytes)} /\ UNCHANGED <<ring, brk, gaps>>
  ELSE \E m \in Malloced(Units(bytes)) :
         /\ ring' = Freed(m[1][2], Unheld(h)) /\ brk' = m[2]
         /\ given' = (given \ {h}) \cup {Held(m[1][1], bytes)}
         /\ UNCHANGED gaps

\* The program calls sbrk() for itself.
Sbrk(n) ==
  /\ Cardinality(gaps) + n <= MaxGap /\ brk + n <= HeapUnits
  /\ brk' = brk + n /\ gaps' = gaps \cup HeapStart + brk .. HeapStart + brk + n - 1
  /\ UNCHANGED <<ring, given>>

Next ==
  \/ \E bytes \in Requests : Malloc(bytes)
  \/ \E h \in given : Free(h)
  \/ \E h \in given, bytes \in Requests : Realloc(h, bytes)
  \/ \E n \in 1 .. MaxGap : Sbrk(n)

Spec == Init /\ [][Next]_vars

-----------------------------------------------------------------------------
(* Properties *)

UnitsOf(b) == b.addr .. b.addr + b.size - 1
Blocks == {Unheld(h) : h \in given} \cup {ring[i] : i \in DOMAIN ring}

\* Every unit below the break belongs to one block, free or given away, or to the
\* program itself: no two allocations overlap and no unit is lost.
UnitsExact ==
  /\ \A b, c \in Blocks : b # c => UnitsOf(b) \cap UnitsOf(c) = {}
  /\ UNION {UnitsOf(b) : b \in Blocks} \cup gaps = HeapStart .. HeapStart + brk - 1
  /\ gaps \cap UNION {UnitsOf(b) : b \in Blocks} = {}
  /\ Cardinality(given) + Len(ring) = Cardinality(Blocks)

\* A block is as long as the program asked for.
LongEnough == \A h \in given : Usable(h) >= h.bytes

\* The list is in the order of addresses, from one block on and around, and free
\* neighbours are merged: free() finds the place of every block.
RingSorted ==
  ring # <<>> =>
    LET s == StartAt(ring, Min({i \in DOMAIN ring : ring[i] = Base})) IN
    \A i \in 1 .. Len(s) - 1 : s[i].addr + s[i].size < s[i + 1].addr
=============================================================================
