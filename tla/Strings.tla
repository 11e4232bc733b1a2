------------------------------ MODULE Strings --------------------------------
(***************************************************************************)
(* The string library of the virtual-memory environment (env/v/string.c)   *)
(* on a little-endian memory of bytes 0 .. Base-1.  memcpy, memset and     *)
(* memcmp work in words when their arguments are aligned.  One behaviour   *)
(* makes one call; a call is made only with operands C gives it a meaning  *)
(* for (in bounds, terminated, not overlapping where memcpy forbids it).   *)
(***************************************************************************)
EXTENDS Integers, Sequences

CONSTANTS Base,       \* values of a byte; 256 in the code
          WordSize,   \* sizeof(uintptr_t)
          Size,       \* bytes of memory (a bound)
          Texts       \* what atol is given

VARIABLES m, call     \* the memory; the call made, its result and the memory before

Addrs == 0 .. Size - 1
Aligned(x) == x % WordSize = 0

(* n steps of a copying loop that moves u bytes at a time. *)
CopyLoop(mm, dest, src, u, n) ==
  LET r[k \in 0 .. n] ==
        IF k = 0 THEN mm
        ELSE [a \in Addrs |-> IF a \in dest + (k-1)*u .. dest + k*u - 1
                                THEN r[k-1][src + (a - dest)] ELSE r[k-1][a]]
  IN  r[n]

memcpy(mm, dest, src, len) ==
  IF Aligned(dest) /\ Aligned(src) /\ Aligned(len)
    THEN CopyLoop(mm, dest, src, WordSize, len \div WordSize)
    ELSE CopyLoop(mm, dest, src, 1, len)

(* b to the n. *)
Power(b, n) == LET p[i \in 0 .. n] == IF i = 0 THEN 1 ELSE b * p[i - 1] IN p[n]

(* The word of ws bytes memset stores: shifts by one, two and two and two  *)
(* bytes; what is shifted past the word is lost.                           *)
Replicated(ws, byte) ==
  LET w1 == byte % Base
      w2 == (w1 + w1 * Base) % Power(Base, ws)
      w4 == IF ws <= 2 THEN w2 ELSE w2 + w2 * Power(Base, 2)
  IN  IF ws <= 4 THEN w4 ELSE w4 + w4 * Power(Base, 4)

ByteOf(word, j) == (word \div Power(Base, j)) % Base

memset(mm, dest, byte, len) ==
  [a \in Addrs |-> IF a \notin dest .. dest + len - 1 THEN mm[a]
                   ELSE IF Aligned(dest) /\ Aligned(len)
                          THEN ByteOf(Replicated(WordSize, byte), (a - dest) % WordSize)
                          ELSE byte % Base]

(* The first index k <= n with P[k], n if there is none. *)
FirstOf(P, n) == CHOOSE k \in 0 .. n : (k = n \/ P[k]) /\ \A j \in 0 .. k - 1 : ~P[j]

Terminated(mm, s) == \E a \in s .. Size - 1 : mm[a] = 0

strlen(mm, s) == FirstOf([k \in 0 .. Size - 1 - s |-> mm[s + k] = 0], Size - s)

(* The loop stops after the pair that ends s1 or differs. *)
strcmp(mm, s1, s2) ==
  LET n == Size - (IF s1 > s2 THEN s1 ELSE s2)
      k == FirstOf([j \in 0 .. n - 1 |-> mm[s1 + j] = 0 \/ mm[s1 + j] # mm[s2 + j]], n - 1)
  IN  mm[s1 + k] - mm[s2 + k]

Word(mm, a) == [j \in 0 .. WordSize - 1 |-> mm[a + j]]

(* Whole words first when both are aligned, then bytes from the word that  *)
(* differs, or from the end of the last whole word.                        *)
bug_memcmp_no_tail(mm, s1, s2, n) ==
  LET w == IF Aligned(s1) /\ Aligned(s2) THEN n - (n % WordSize) ELSE n
      k == FirstOf([j \in 0 .. w - 1 |-> mm[s1 + j] # mm[s2 + j]], w)
  IN  IF k = w THEN 0 ELSE mm[s1 + k] - mm[s2 + k]
memcmp(mm, s1, s2, n) ==
  LET w == IF Aligned(s1) /\ Aligned(s2)
             THEN FirstOf([j \in 0 .. (n \div WordSize) - 1 |->
                             Word(mm, s1 + j * WordSize) # Word(mm, s2 + j * WordSize)],
                          n \div WordSize) * WordSize
             ELSE 0
      k == FirstOf([j \in 0 .. n - w - 1 |-> mm[s1 + w + j] # mm[s2 + w + j]], n - w)
  IN  IF k = n - w THEN 0 ELSE mm[s1 + w + k] - mm[s2 + w + k]

(* Bytes up to and including the terminator, one at a time. *)
strcpy(mm, dest, src) == CopyLoop(mm, dest, src, 1, strlen(mm, src) + 1)

(* Leading spaces, one sign, then every character up to the end. *)
SP == 32
PLUS == 43
MINUS == 45
ZERO == 48
AfterSpaces(t) == SubSeq(t, FirstOf([k \in 0 .. Len(t) - 1 |-> t[k + 1] # SP], Len(t)) + 1, Len(t))
AddDigit(c, res) == res * 10 + (c - ZERO)
Digits(u) ==
  LET res[i \in 0 .. Len(u)] == IF i = 0 THEN 0 ELSE AddDigit(u[i], res[i - 1])
  IN  res[Len(u)]

atol(t) ==
  LET u == AfterSpaces(t)
      signed == u # << >> /\ Head(u) \in {PLUS, MINUS}
      res == Digits(IF signed THEN Tail(u) ELSE u)
  IN  IF signed /\ Head(u) = MINUS THEN -res ELSE res

(***************************************************************************)
(* One call per behaviour.                                                 *)
(***************************************************************************)
None == [fn |-> "none", args |-> << >>, ret |-> 0, before |-> << >>]

Init == m \in [Addrs -> {0, 1}] /\ call = None

Call(fn, args, ret, after) == /\ m' = after
                              /\ call' = [fn |-> fn, args |-> args, ret |-> ret, before |-> m]

Apart(a, b, n) == a + n <= b \/ b + n <= a

Memcpy == \E d, s \in Addrs, n \in 0 .. Size \div 2 :
            /\ d + n <= Size /\ s + n <= Size /\ Apart(d, s, n)
            /\ Call("memcpy", <<d, s, n>>, d, memcpy(m, d, s, n))
Memset == \E d \in Addrs, b \in {-1, 1, Base + 2}, n \in 0 .. Size :
            /\ d + n <= Size
            /\ Call("memset", <<d, b, n>>, d, memset(m, d, b, n))
Memcmp == \E s, t \in Addrs, n \in 0 .. Size :
            /\ s + n <= Size /\ t + n <= Size
            /\ Call("memcmp", <<s, t, n>>, memcmp(m, s, t, n), m)
Strlen == \E s \in Addrs : Terminated(m, s) /\ Call("strlen", <<s>>, strlen(m, s), m)
Strcmp == \E s, t \in Addrs : /\ Terminated(m, s) /\ Terminated(m, t)
                              /\ Call("strcmp", <<s, t>>, strcmp(m, s, t), m)
Strcpy == \E d, s \in Addrs :
            /\ Terminated(m, s) /\ d + strlen(m, s) < Size /\ Apart(d, s, strlen(m, s) + 1)
            /\ Call("strcpy", <<d, s>>, d, strcpy(m, d, s))
Atol == \E t \in Texts : Call("atol", t, atol(t), m)

Return == call # None /\ UNCHANGED <<m, call>>

Next == \/ call = None /\ (Memcpy \/ Memset \/ Memcmp \/ Strlen \/ Strcmp \/ Strcpy \/ Atol)
        \/ Return

(***************************************************************************)
(* Properties                                                              *)
(***************************************************************************)
Bytes(mm, a, n) == [k \in 1 .. n |-> mm[a + k - 1]]
CString(mm, a) == LET ends == {n \in 0 .. Size - 1 - a : mm[a + n] = 0}
                  IN  Bytes(mm, a, CHOOSE n \in ends : \A k \in ends : n <= k)
Untouched(d, n) == \A a \in Addrs \ (d .. d + n - 1) : m[a] = call.before[a]
Sign(x) == IF x < 0 THEN -1 ELSE IF x > 0 THEN 1 ELSE 0

(* Lexicographic order of two sequences of the same length. *)
LexSign(s, t) ==
  IF s = t THEN 0
  ELSE LET k == CHOOSE j \in DOMAIN s : s[j] # t[j] /\ \A l \in 1 .. j - 1 : s[l] = t[l]
       IN  Sign(s[k] - t[k])

(* memcpy, memset and strcpy leave the bytes they should where they should *)
(* and every other byte alone, whichever loop the alignment selects.       *)
StoresExact ==
  LET x == call.args IN
    /\ call.fn = "memcpy" => Bytes(m, x[1], x[3]) = Bytes(call.before, x[2], x[3])
                              /\ Untouched(x[1], x[3])
    /\ call.fn = "memset" => (\A a \in x[1] .. x[1] + x[3] - 1 : m[a] = x[2] % Base)
                              /\ Untouched(x[1], x[3])
    /\ call.fn = "strcpy" => LET str == CString(call.before, x[2])
                             IN  /\ CString(m, x[1]) = str
                                 /\ Untouched(x[1], Len(str) + 1)

(* memset's word holds the byte in each of its places, on a 32-bit and on  *)
(* a 64-bit machine.                                                       *)
WordIsByteEverywhere ==
  call.fn = "memset" => \A ws \in {4, 8}, j \in 0 .. 7 :
    j < ws => ByteOf(Replicated(ws, call.args[2]), j) = call.args[2] % Base

(* memcmp orders by the first byte that differs, not by the words; strcmp  *)
(* orders strings, a proper prefix first; strlen counts.                   *)
ComparisonsLexicographic ==
  LET x == call.args IN
    /\ call.fn = "memcmp" => Sign(call.ret) = LexSign(Bytes(m, x[1], x[3]), Bytes(m, x[2], x[3]))
    /\ call.fn = "strcmp" =>
         LET s == Append(CString(m, x[1]), 0)
             t == Append(CString(m, x[2]), 0)
             n == IF Len(s) < Len(t) THEN Len(s) ELSE Len(t)
         IN  Sign(call.ret) = LexSign(SubSeq(s, 1, n), SubSeq(t, 1, n))
    /\ call.fn = "strlen" => call.ret = Len(CString(m, x[1]))

(* The sum of a text's digits, each weighted by its place. *)
PlaceValue(t) ==
  LET sum[i \in 0 .. Len(t)] ==
        IF i = 0 THEN 0
        ELSE sum[i - 1] + (IF t[i] >= ZERO THEN (t[i] - ZERO) * Power(10, Len(t) - i) ELSE 0)
  IN  sum[Len(t)]

(* atol returns the number its text denotes: spaces, at most one sign and  *)
(* decimal digits, each weighted by its place.                             *)
AtolIsValue ==
  call.fn = "atol" =>
    LET t == call.args
    IN  call.ret = IF \E k \in DOMAIN t : t[k] = MINUS THEN -PlaceValue(t) ELSE PlaceValue(t)

(* Every function of string.c does what the C library says of it, on the   *)
(* word loops and on the byte loops; atol, which does not stop at a        *)
(* character that is no digit as C's does, on texts that have none.        *)
LibraryCorrect == StoresExact /\ WordIsByteEverywhere /\ ComparisonsLexicographic /\ AtolIsValue
=============================================================================
