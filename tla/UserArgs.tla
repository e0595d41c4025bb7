------------------------------ MODULE UserArgs -------------------------------
(***************************************************************************)
(* What a system call accepts as a pointer: a buffer or a string that lies  *)
(* in one region of user memory and is mapped (syscall.c, and               *)
(* paging_user_range_mapped() of paging.c).  Addresses are unsigned words.  *)
(***************************************************************************)
EXTENDS Integers, FiniteSets

CONSTANTS
  Word,        \* addresses are below Word
  P,           \* PAGE_SIZE
  Regions,     \* the regions of user memory, as <<base, top>>
  MaxString    \* MAX_USER_STRING

\* What the constants have to satisfy.
UserArgsAssumption ==
  /\ {Word, P, MaxString} \subseteq Nat \ {0}
  /\ \A r \in Regions : 0 <= r[1] /\ r[1] < r[2] /\ r[2] < Word

VARIABLES
  mapped,     \* the pages that are present and the user's
  zeros       \* the addresses that hold a zero byte

vars == <<mapped, zeros>>

UserPages == {p \in 0 .. Word \div P : \E r \in Regions : r[1] <= p * P /\ p * P < r[2]}

\* user_region_top(): the end of the region with this address, 0 if there is none.
RegionTop(a) ==
  IF \E r \in Regions : r[1] <= a /\ a < r[2]
  THEN (CHOOSE r \in Regions : r[1] <= a /\ a < r[2])[2] ELSE 0

LastPage(a, size) == ((a + size - 1) % Word) \div P

\* paging_user_range_mapped(): every page from the first to the last.
RangeMapped(a, size) ==
  \/ size = 0
  \/ size <= Word - 1 - a /\ (a \div P) .. LastPage(a, size) \subseteq mapped

\* Faulty variant: a buffer that ends where its region does is refused.
FitsBelow(a, size, top) == size < top - a
Fits(a, size, top) == size <= top - a

\* user_buffer_valid()
BufferValid(a, size) ==
  \/ size = 0
  \/ RegionTop(a) # 0 /\ Fits(a, size, RegionTop(a)) /\ RangeMapped(a, size)

\* The bytes that user_string_valid() may look at.
Limit(a) == IF RegionTop(a) - a > MaxString THEN MaxString ELSE RegionTop(a) - a

\* user_string_valid(): byte by byte up to the zero, which has to come before the limit.
StringValid(a) ==
  /\ RegionTop(a) # 0
  /\ \E i \in 0 .. Limit(a) - 1 :
       /\ a + i \in zeros
       /\ \A j \in 0 .. i : RangeMapped(a + j, 1) /\ (j < i => a + j \notin zeros)

Init == mapped = {} /\ zeros = {}

\* A page becomes the program's, or is no longer.
Map(p) == p \notin mapped /\ mapped' = mapped \cup {p} /\ UNCHANGED zeros
Unmap(p) == p \in mapped /\ mapped' = mapped \ {p} /\ UNCHANGED zeros

\* The program writes strings.
Write == zeros' \in {{a, a + 3} : a \in 0 .. Word - 1} /\ UNCHANGED mapped

Next == Write \/ \E p \in UserPages : Map(p) \/ Unmap(p)

Spec == Init /\ [][Next]_vars

-----------------------------------------------------------------------------
(* Properties *)

\* The bytes of a buffer, as addresses that do not wrap around.
Bytes(a, size) == a .. a + size - 1
PageOk(a) == a < Word /\ a \div P \in mapped
InOneRegion(S) == \E r \in Regions : \A b \in S : r[1] <= b /\ b < r[2]

\* A buffer is accepted exactly if each of its bytes is mapped and all are in one region
\* of user memory, for every address and every count up to the largest; a string, if that
\* holds of its bytes up to the first zero and there are at most MAX_USER_STRING of them.
ArgsExact ==
  \A a \in 0 .. Word - 1 :
    /\ \A size \in 0 .. Word - 1 :
         BufferValid(a, size) <=>
           size = 0 \/ (InOneRegion(Bytes(a, size)) /\ \A b \in Bytes(a, size) : PageOk(b))
    /\ StringValid(a) <=>
         \E size \in 1 .. MaxString :
           /\ InOneRegion(Bytes(a, size)) /\ \A b \in Bytes(a, size) : PageOk(b)
           /\ Bytes(a, size) \cap zeros = {a + size - 1}
=============================================================================
