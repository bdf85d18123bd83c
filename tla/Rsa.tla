--------------------------------- MODULE Rsa ---------------------------------
(***************************************************************************)
(* RSA signatures: the numbers of kernel/bignum.c and bignum_4k.c, which   *)
(* differ in the number of limbs only, and the verification of rsa.c and   *)
(* of bignum_4k.c on top of them.                                          *)
(*                                                                         *)
(* A number is a function from 0..Limbs - 1 to limbs of Width bits; a limb *)
(* takes its value modulo Radix wherever the code casts to uint32_t.  The  *)
(* loop of bn_modexp is a state machine, the loops below it are functions. *)
(* A byte of an encoded message is one of EmBytes, the prefix and the hash *)
(* of SHA-256 are short sequences of them.                                 *)
(***************************************************************************)
EXTENDS Integers, Sequences

CONSTANTS
    Limbs, Width,       \* BN_LIMBS or BN4K_LIMBS; 32
    Bases, Exponents, Moduli,   \* the arguments of bn_modexp, as values
    EmBytes,            \* what a byte of em may be; 0, 1 and 255 are among them
    EmLens,             \* n_len
    MinFill,            \* bytes of 255 that are demanded: 8
    DigestPrefix,       \* SHA256_DIGEST_PREFIX
    Digests             \* what sha256 may give

VARIABLES
    power,      \* bn_modexp at work: [base, exp, m] and its locals result, b and i
    em          \* the message that a signature opened to, and the hash it is compared with

rsaVars == <<power, em>>

ASSUME RsaAssumption ==
    /\ EmLens \subseteq Nat /\ MinFill \in Nat
    /\ DigestPrefix \in Seq(0..255) /\ Digests \subseteq Seq(0..255)

Radix == 2 ^ Width
Index == 0..Limbs - 1
Bits  == Limbs * Width

\* bn_from_be, for a value that fits.
Number(v) == [i \in Index |-> (v \div Radix ^ i) % Radix]
Value(a) == LET sum[i \in 0..Limbs] == IF i = 0 THEN 0 ELSE sum[i - 1] + a[i - 1] * Radix ^ (i - 1)
            IN  sum[Limbs]

----------------------------------------------------------------------------
(* bignum.c                                                                *)

\* bn_cmp: whether a >= b, decided by the highest limb that differs.
AtLeast(a, b) ==
    LET differ == {i \in Index : a[i] # b[i]}
    IN  differ = {} \/ LET top == CHOOSE i \in differ : \A j \in differ : j <= i IN a[top] > b[top]

\* sub_in_place; the last borrow is dropped.
Minus(a, b) ==
    LET d[i \in Index] == a[i] - b[i] - (IF i = 0 THEN 0 ELSE IF d[i - 1] < 0 THEN 1 ELSE 0)
    IN  [i \in Index |-> d[i] % Radix]

\* Mutant of Product: the carry out of a row is lost.
ProductCarryless(a, b) ==
    LET row[i \in 0..Limbs] ==
          IF i = 0 THEN [k \in 0..2 * Limbs - 1 |-> 0]
          ELSE LET r == row[i - 1]
                   t[j \in Index] == r[i - 1 + j] + a[i - 1] * b[j] + (IF j = 0 THEN 0 ELSE t[j - 1] \div Radix)
               IN  [k \in 0..2 * Limbs - 1 |-> IF k - i + 1 \in Index THEN t[k - i + 1] % Radix ELSE r[k]]
    IN  row[Limbs]

\* bn2_mul: row by row, the carry of each goes into the limb behind it.
Product(a, b) ==
    LET row[i \in 0..Limbs] ==
          IF i = 0 THEN [k \in 0..2 * Limbs - 1 |-> 0]
          ELSE LET r == row[i - 1]
                   t[j \in Index] == r[i - 1 + j] + a[i - 1] * b[j] + (IF j = 0 THEN 0 ELSE t[j - 1] \div Radix)
               IN  [k \in 0..2 * Limbs - 1 |->
                      IF k - i + 1 \in Index THEN t[k - i + 1] % Radix
                      ELSE IF k = i - 1 + Limbs THEN t[Limbs - 1] \div Radix ELSE r[k]]
    IN  row[Limbs]

Bit(a, n) == (a[n \div Width] \div 2 ^ (n % Width)) % 2

\* bn2_mod: the remainder takes up the bits of the product from the highest on; a
\* bit that leaves it at the top counts.
Remainder(p, m) ==
    LET rem[n \in 0..2 * Bits] ==      \* after n bits
          IF n = 0 THEN Number(0)
          ELSE LET r == rem[n - 1]
                   shifted == [i \in Index |-> ((2 * r[i]) % Radix)
                                 + (IF i = 0 THEN Bit(p, 2 * Bits - n) ELSE r[i - 1] \div (Radix \div 2))]
                   overflow == r[Limbs - 1] >= Radix \div 2
               IN  IF overflow \/ AtLeast(shifted, m) THEN Minus(shifted, m) ELSE shifted
    IN  rem[2 * Bits]

MulMod(a, b, m) == Remainder(Product(a, b), m)

\* The highest bit that is set, or -1.
TopBit(a) == LET set == {n \in 0..Bits - 1 : Bit(a, n) = 1}
             IN  IF set = {} THEN -1 ELSE CHOOSE n \in set : \A k \in set : k <= n

NoPower == [i |-> -1]
NoMessage == [bytes |-> <<>>, digest |-> <<>>]

AtRest == power = NoPower /\ em = NoMessage

ModExp ==
    /\ AtRest
    /\ \E base \in Bases, exp \in Exponents, m \in Moduli :
         power' = [base |-> base, exp |-> Number(exp), m |-> Number(m),
                   result |-> Number(1), b |-> Number(base), i |-> 0]
    /\ UNCHANGED em

\* A turn of the loop over the exponent's bits.
ModExpStep ==
    LET p == power
    IN  /\ power # NoPower /\ p.i <= TopBit(p.exp)
        /\ power' = [p EXCEPT !.result = IF Bit(p.exp, p.i) = 1 THEN MulMod(@, p.b, p.m) ELSE @,
                              !.b = IF p.i < TopBit(p.exp) THEN MulMod(@, @, p.m) ELSE @,
                              !.i = @ + 1]
        /\ UNCHANGED em

ModExpReturn ==
    /\ power # NoPower /\ power.i > TopBit(power.exp)
    /\ power' = NoPower
    /\ UNCHANGED em

----------------------------------------------------------------------------
(* rsa_pkcs1_v15_sha256_verify behind bn_to_be.                            *)

\* A signature has opened to some bytes.
Opened ==
    /\ AtRest
    /\ \E n \in EmLens, digest \in Digests : \E bytes \in [1..n -> EmBytes] :
         em' = [bytes |-> bytes, digest |-> digest]
    /\ UNCHANGED power

Verified == em # NoMessage /\ em' = NoMessage /\ UNCHANGED power

\* Mutant of AtEnd: bytes may follow the hash.
AtEndLoose(n, p, rest) == n - (p + 1) >= rest

\* The byte of 0 at p leaves room for the prefix and the hash, and for no more.
AtEnd(n, p, rest) == n - (p + 1) = rest

Accepted(bytes, digest) ==
    LET n     == Len(bytes)
        At(p) == bytes[p + 1]
        stop  == {p \in 2..n : p = n \/ At(p) # 255}
        p     == CHOOSE q \in stop : \A r \in stop : q <= r
        rest  == Len(DigestPrefix) + Len(digest)
    IN  /\ n >= 3 + MinFill + rest
        /\ At(0) = 0 /\ At(1) = 1
        /\ p >= 2 + MinFill /\ p < n /\ At(p) = 0
        /\ AtEnd(n, p, rest)
        /\ SubSeq(bytes, p + 2, p + 1 + rest) = DigestPrefix \o digest

RsaInit == power = NoPower /\ em = NoMessage

RsaNext ==
    \/ ModExp \/ ModExpStep \/ ModExpReturn
    \/ Opened \/ Verified

RsaSpec == RsaInit /\ [][RsaNext]_rsaVars

----------------------------------------------------------------------------
\* What is left to multiply in: b to the power of the bits from i on.  Modulo m it
\* is always the same, so that bn_modexp returns base ^ exp modulo m, a number
\* below m unless the exponent is 0: limbs, carries and borrows lose nothing.
RestOf(p) == Value(p.exp) \div 2 ^ p.i
Mod(v, m) == v % Value(m)
ModPower(v, n, m) == LET f[k \in 0..n] == IF k = 0 THEN Mod(1, m) ELSE Mod(f[k - 1] * v, m) IN f[n]
PowerRight ==
    power # NoPower =>
        LET p == power
        IN  /\ Mod(Value(p.result) * ModPower(IF p.i > TopBit(p.exp) THEN 1 ELSE Value(p.b), RestOf(p), p.m), p.m)
                  = ModPower(p.base, Value(p.exp), p.m)
            /\ p.i > 0 => Value(p.result) < Value(p.m) \/ Value(p.result) = 1

\* The one encoding of a hash for a length is accepted and nothing else.
Encoding(n, digest) ==
    LET rest == DigestPrefix \o digest
    IN  <<0, 1>> \o [i \in 1..n - 3 - Len(rest) |-> 255] \o <<0>> \o rest
PaddingStrict ==
    em # NoMessage => LET n == Len(em.bytes) IN
        Accepted(em.bytes, em.digest) <=>
            /\ n >= 3 + MinFill + Len(DigestPrefix) + Len(em.digest)
            /\ em.bytes = Encoding(n, em.digest)
=============================================================================
