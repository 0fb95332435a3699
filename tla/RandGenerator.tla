---------------------------- MODULE RandGenerator ----------------------------
(***************************************************************************)
(* RandGenerator (src/base/rand_generator.cpp): the Park-Miller "minimal   *)
(* standard" generator, rand_ <- rand_ * 48271 mod (2^31 - 1), computed in *)
(* uint32_t without a 64-bit product: the multiplier is applied to the low *)
(* 15 and the high 16 bits of rand_ separately and the pieces are folded   *)
(* back modulo 2^31 - 1.                                                   *)
(*                                                                         *)
(* TLC's integers are 32-bit signed, so a uint32_t above 2^31 - 1 is never *)
(* formed: `high' is kept as its two 16-bit halves and `x' as its bit 31   *)
(* and the 31 bits below it, which is what the code's masks and shifts    *)
(* take apart anyway.  rand_ is below 2^31 for every seed of this code     *)
(* (19260817, 233, 0 and the test's 20191106) and every value rand()       *)
(* returns, so (rand_ >> 15u) has at most 16 bits.                         *)
(***************************************************************************)
EXTENDS Integers

Modulus    == 2147483647   \* 2^31 - 1, what the fold reduces by
Multiplier == 48271

\* Mutant: the high part taken as rand_ >> 16u, one bit short.
RandShift16Mut(r) ==
  LET low  == (r % 32768) * Multiplier
      h    == r \div 65536
      a    == (h \div 256) * Multiplier
      t    == (a % 256) * 256 + (h % 256) * Multiplier
      hHi  == a \div 256 + t \div 65536
      hLo  == t % 65536
      m    == hLo * 32768
      s    == low + hHi
  IN  IF s > Modulus - m THEN s - (Modulus - m) ELSE m + s

\* RandGenerator::rand() on rand_ = r, returning the new rand_:
\*   low  = (r & 0x7fff) * 48271
\*   high = (r >> 15) * 48271, as hHi = high >> 16 and hLo = high & 0xffff
\*          from h = r >> 15 split into bytes (a = (h >> 8) * 48271)
\*   x    = low + (hLo << 15) + hHi = m + s
\*   rand_ = (x & 0x7fffffff) + (x >> 31): when x carries into bit 31 it is
\*          x - 2^31 + 1 = s - (Modulus - m).
Rand(r) ==
  LET low  == (r % 32768) * Multiplier
      h    == r \div 32768
      a    == (h \div 256) * Multiplier
      t    == (a % 256) * 256 + (h % 256) * Multiplier
      hHi  == a \div 256 + t \div 65536
      hLo  == t % 65536
      m    == hLo * 32768
      s    == low + hHi
  IN  IF s > Modulus - m THEN s - (Modulus - m) ELSE m + s

\* RandGenerator::rand(lower, upper) given the value rand() returned:
\* lower + rand() % (upper - lower), for the ranges TLC's integers hold.
RandRange(v, lower, upper) == lower + (v % (upper - lower))

\* _socket's port: rand(49162, 65536), a dynamic port.
PortDraw(v) == RandRange(v, 49162, 65536)

-----------------------------------------------------------------------------
(***************************************************************************)
(* The reference: the product modulo 2^31 - 1 by doubling and adding, each *)
(* sum reduced before it could leave the 31 bits.                          *)
(***************************************************************************)
AddMod(x, y) == IF x >= Modulus - y THEN x - (Modulus - y) ELSE x + y

RECURSIVE MulMod(_, _)
MulMod(k, r) ==
  IF k = 0 THEN 0
  ELSE LET half == MulMod(k \div 2, r)
       IN  AddMod(AddMod(half, half), IF k % 2 = 1 THEN r ELSE 0)

LehmerStep(r) == MulMod(Multiplier, r % Modulus)
=============================================================================
