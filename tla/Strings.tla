------------------------------ MODULE Strings ------------------------------
(***************************************************************************)
(* The string functions of src/string.c on a memory of a few bytes.        *)
(* Memory holds unsigned bytes; a function that reads one as a char, which *)
(* is signed here, gets Signed of it.                                      *)
(*                                                                         *)
(* Copies are followed byte by byte, as the order matters where regions    *)
(* overlap; a scan is the least index at which it stops.  Lengths have the *)
(* width of size_t: a copy that leaves the memory faults and panics.       *)
(***************************************************************************)
EXTENDS Integers, SequencesExt

CONSTANTS
  Bytes,            \* the size of the memory
  SizeModulus,      \* 2^32
  CharModulus       \* 2^8

NUL  == 0
NULL == -1

ASSUME StringsAssumption ==
  /\ Bytes \in Nat \ {0}
  /\ SizeModulus \in Nat /\ SizeModulus > Bytes
  /\ CharModulus \in Nat \ {0} /\ CharModulus % 2 = 0

VARIABLES
  mem,              \* address -> character
  faulted           \* an access has left the memory

stringVars == <<mem, faulted>>

Addresses == 0 .. Bytes - 1
Chars     == 0 .. CharModulus - 1

StringsInit ==
  /\ mem = [a \in Addresses |-> NUL]
  /\ faulted = FALSE

\* n bytes from s on are memory.
Inside(s, n) == s + n <= Bytes

\* There is a string at s.
IsString(s) == s \in Addresses /\ \E e \in s .. Bytes - 1 : mem[e] = NUL

Disjoint(s, m, t, n) == s + m <= t \/ t + n <= s

-----------------------------------------------------------------------------
(***************************************************************************)
(* Functions that only look                                                *)
(***************************************************************************)
\* A byte as a char.
Signed(c) == IF c < CharModulus \div 2 THEN c ELSE c - CharModulus

Strlen(s) == Min({n \in 0 .. Bytes - 1 - s : mem[s + n] = NUL})

\* c is an int: the byte c, if c is not the char it stands for, is not found.
Memchr(s, c, n) ==
  LET hits == {i \in 0 .. n - 1 : Signed(mem[s + i]) = c}
  IN  IF hits = {} THEN NULL ELSE s + Min(hits)

Strchr(s, c) == Memchr(s, c, Strlen(s))

\* Stops at the first difference: what lies behind it need not be memory.
Memcmp(lhs, rhs, n) ==
  LET differences == {i \in 0 .. n - 1 : /\ Inside(lhs, i + 1) /\ Inside(rhs, i + 1)
                                         /\ mem[lhs + i] # mem[rhs + i]}
  IN  IF differences = {} THEN 0
      ELSE Signed(mem[lhs + Min(differences)]) - Signed(mem[rhs + Min(differences)])

\* Mutant of Strcmp: the longer length, so that what lies behind the shorter
\* string is compared as well.
StrcmpLonger(lhs, rhs) == Memcmp(lhs, rhs, Max({Strlen(lhs), Strlen(rhs)}))

\* The shorter length.
Strcmp(lhs, rhs) == Memcmp(lhs, rhs, Min({Strlen(lhs), Strlen(rhs)}))

\* Mutant of Matches: all but the last character.
MatchesAllButOne(find, needle) == Memcmp(find, needle, Strlen(needle) - 1) = 0

Matches(find, needle) == Memcmp(find, needle, Strlen(needle)) = 0

Strstr(haystack, needle) ==
  LET search[h \in {a \in Addresses : IsString(a)}] ==
        LET find == Strchr(h, Signed(mem[needle]))
        IN  IF find = NULL \/ Matches(find, needle) THEN find ELSE search[find + 1]
  IN  search[haystack]

-----------------------------------------------------------------------------
(***************************************************************************)
(* Functions that write: what they make of the memory                      *)
(***************************************************************************)
Ascending(n)  == [i \in 1 .. n |-> i - 1]
Descending(n) == [i \in 1 .. n |-> n - i]

\* Byte i is copied, if there is memory.
CopyByte(m, dest, src, i) ==
  IF Inside(dest, i + 1) /\ Inside(src, i + 1)
  THEN [m EXCEPT ![dest + i] = m[src + i]] ELSE m

\* One byte after the other, in the order given.
Copy(m, dest, src, order) ==
  LET after[k \in 0 .. Len(order)] ==
        IF k = 0 THEN m ELSE CopyByte(after[k - 1], dest, src, order[k])
  IN  after[Len(order)]

AfterMemcpy(dest, src, n) == Copy(mem, dest, src, Ascending(Min({n, Bytes})))

\* Mutant of AfterMemmove: backward where forward is right.
AfterMemmoveSwapped(dest, src, n) ==
  Copy(mem, dest, src, IF dest < src THEN Descending(n) ELSE Ascending(n))

AfterMemmove(dest, src, n) ==
  Copy(mem, dest, src, IF dest < src THEN Ascending(n) ELSE Descending(n))

\* n - 1 as a size_t.
CopyLength(n) == (n - 1) % SizeModulus

\* n - 1 bytes whatever they are, and a terminator.
AfterStrncpy(dest, src, n) ==
  [AfterMemcpy(dest, src, CopyLength(n)) EXCEPT ![dest + n - 1] = NUL]

\* Mutant of AfterStrncat: strncpy is not given room for the terminator.
AfterStrncatShort(lhs, rhs, n) == AfterStrncpy(lhs + Strlen(lhs), rhs, n)

AfterStrncat(lhs, rhs, n) == AfterStrncpy(lhs + Strlen(lhs), rhs, n + 1)

-----------------------------------------------------------------------------
(***************************************************************************)
(* Calls, with regions that are memory and strings that end               *)
(***************************************************************************)
\* An int assigned to a byte.
Stored(c) == c % CharModulus

Memset(s, c, n) ==
  /\ Inside(s, n)
  /\ mem' = [a \in Addresses |->
              IF a \in s .. s + n - 1 THEN Stored(c) ELSE mem[a]]
  /\ UNCHANGED faulted

Memmove(dest, src, n) ==
  /\ Inside(dest, n) /\ Inside(src, n)
  /\ mem' = AfterMemmove(dest, src, n)
  /\ UNCHANGED faulted

Memcpy(dest, src, n) ==
  /\ Inside(dest, n) /\ Inside(src, n)
  /\ mem' = AfterMemcpy(dest, src, n)
  /\ UNCHANGED faulted

\* With n = 0 memcpy is called for 2^32 - 1 bytes.
Strncpy(dest, src, n) ==
  /\ Inside(dest, n) /\ Inside(src, n - 1)
  /\ IF n = 0
     THEN mem' = AfterMemcpy(dest, src, CopyLength(n)) /\ faulted' = TRUE
     ELSE mem' = AfterStrncpy(dest, src, n) /\ UNCHANGED faulted

\* strncpy with the length of the string alone.
Strcpy(dest, src) ==
  /\ IsString(src)
  /\ Strncpy(dest, src, Strlen(src))

Strncat(lhs, rhs, n) ==
  /\ IsString(lhs)
  /\ Inside(lhs + Strlen(lhs), n + 1) /\ Inside(rhs, n)
  /\ mem' = AfterStrncat(lhs, rhs, n)
  /\ UNCHANGED faulted

Strcat(dst, src) ==
  /\ IsString(src)
  /\ Strncat(dst, src, Strlen(src))

StringsNext ==
  /\ ~faulted
  /\ \E d, s \in Addresses :
       \/ Strcpy(d, s)
       \/ Strcat(d, s)
       \/ \E n \in 0 .. Bytes :
            \/ \E c \in 0 .. CharModulus : Memset(s, c, n)
            \/ Memcpy(d, s, n) \/ Memmove(d, s, n)
            \/ Strncpy(d, s, n) \/ Strncat(d, s, n)

StringsSpec == StringsInit /\ [][StringsNext]_stringVars

-----------------------------------------------------------------------------
(***************************************************************************)
(* Properties                                                              *)
(***************************************************************************)

\* The string at s of memory m.
Text(m, s) ==
  LET e == Min({a \in s .. Bytes - 1 : m[a] = NUL}) IN [i \in 1 .. e - s |-> m[s + i - 1]]

\* What copying n bytes has to leave: what was in src, however the regions
\* overlap, and nothing else changed.
Moved(dest, src, n) ==
  [a \in Addresses |->
     IF a \in dest .. dest + n - 1 THEN mem[src + (a - dest)] ELSE mem[a]]

\* memmove copies regions that overlap in either direction as if through a
\* buffer; memcpy does so for regions that do not overlap.
CopiesAreExact ==
  \A d, s \in Addresses, n \in 0 .. Bytes :
    Inside(d, n) /\ Inside(s, n) =>
      /\ AfterMemmove(d, s, n) = Moved(d, s, n)
      /\ Disjoint(d, n, s, n) => AfterMemcpy(d, s, n) = Moved(d, s, n)

\* Two strings apart, with room for the result.
Concatenable(l, r, n) ==
  /\ IsString(l) /\ IsString(r)
  /\ Inside(l + Strlen(l), n + 1) /\ Inside(r, n)
  /\ Disjoint(l, Strlen(l) + n + 1, r, Max({n, Strlen(r) + 1}))

\* strncat leaves the first string followed by the first n characters of the
\* second, ended, whatever was behind them before, and no byte beyond changed.
ConcatenationIsExact ==
  \A l, r \in Addresses, n \in 0 .. Bytes :
    Concatenable(l, r, n) =>
      LET after == AfterStrncat(l, r, n)
          more  == Text(mem, r)
      IN  /\ Text(after, l) = Text(mem, l) \o SubSeq(more, 1, Min({n, Len(more)}))
          /\ \A a \in Addresses :
               a \notin l + Strlen(l) .. l + Strlen(l) + n => after[a] = mem[a]

\* t and u differ, and t has the lesser char at the first difference.
Below(t, u) ==
  \E i \in 1 .. Min({Len(t), Len(u)}) :
    Signed(t[i]) < Signed(u[i]) /\ \A j \in 1 .. i - 1 : t[j] = u[j]

\* strcmp orders strings by the first character in which they differ.  Two
\* things are not as in the C library: characters are signed (string.c:58-63),
\* so those above 127 come first, and a string and one that begins with it
\* count as equal, which the code marks as still to be done (string.c:137).
ComparisonIsLexicographic ==
  \A l, r \in Addresses :
    IsString(l) /\ IsString(r) =>
      LET t == Text(mem, l)
          u == Text(mem, r)
      IN  /\ Strcmp(l, r) < 0 <=> Below(t, u)
          /\ Strcmp(l, r) > 0 <=> Below(u, t)
          /\ Strcmp(l, r) = 0 <=> IsPrefix(t, u) \/ IsPrefix(u, t)

\* strstr finds the first occurrence of a string that is not empty if there
\* is one; also where a false start overlaps the occurrence.
StrstrFindsFirst ==
  \A h, n \in Addresses :
    IsString(h) /\ IsString(n) /\ mem[n] # NUL =>
      LET found == {i \in 0 .. Strlen(h) - Strlen(n) :
                      \A j \in 0 .. Strlen(n) - 1 : mem[h + i + j] = mem[n + j]}
      IN  Strstr(h, n) = IF found = {} THEN NULL ELSE h + Min(found)
=============================================================================
