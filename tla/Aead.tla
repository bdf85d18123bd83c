--------------------------------- MODULE Aead ---------------------------------
(***************************************************************************)
(* Sealed records: ChaCha20-Poly1305 as kernel/aead.c puts it together,    *)
(* with the limbs of poly1305.c.                                           *)
(*                                                                         *)
(* The code has limbs of 26 bits, bytes of 8, blocks of 16 bytes; here     *)
(* they have Width bits, ByteBits bits and BlockBytes bytes, so that, as   *)
(* there, five limbs are a block and two bits.  The key stream of          *)
(* chacha20_block is a constant; x |-> (k - x) stands for exclusive or,    *)
(* and undoes itself as that does.  What aead.c hands to poly1305_mac is   *)
(* always a number of whole blocks.                                        *)
(***************************************************************************)
EXTENDS Integers, Sequences, TLC

CONSTANTS
    LimbWidth, ByteBits, BlockBytes,
    ChaChaBytes,        \* bytes that a call of chacha20_block gives: 64
    KeyStream,          \* KeyStream[c]: what chacha20_block gives for the counter c
    PolyKeys,           \* r, clamped, and pad, as the first bytes of block 0 may give them
    MacInMax,           \* sizeof(mac_in)
    Aads, PlainTexts,        \* byte sequences: additional data, plain texts
    Tampered(_)         \* what may come of a byte sequence on its way (itself, too)

VARIABLE
    seal                \* a call of aead_seal or aead_open at work

ASSUME AeadAssumption == 5 * LimbWidth = BlockBytes * ByteBits + 2

Idle == [at |-> "idle"]
Limb == 2 ^ LimbWidth
ByteMod == 2 ^ ByteBits
BlockMod == ByteMod ^ BlockBytes
Prime == Limb ^ 5 - 5
I5 == 0..4

\* load32_le and the shifts: a block as a number, a number as limbs.
BlockNumber(bytes) ==
    LET n[i \in 0..BlockBytes] == IF i = 0 THEN 0 ELSE n[i - 1] + bytes[i] * ByteMod ^ (i - 1) IN n[BlockBytes]
ToLimbs(v) == [i \in I5 |-> (v \div Limb ^ i) % Limb]
Zeros(n) == [i \in 1..n |-> 0]

----------------------------------------------------------------------------
(* poly1305.c                                                              *)

\* poly1305_block: the block and the bit above it are added, the sum is multiplied
\* by r; what is above the fifth limb comes back five times at the lowest.
LimbProduct(h, r) ==
    LET At(i, j) == h[j] * (IF j <= i THEN r[i - j] ELSE 5 * r[5 + i - j])
    IN  [i \in I5 |-> At(i, 0) + At(i, 1) + At(i, 2) + At(i, 3) + At(i, 4)]

\* Mutant of Carried: what leaves the fifth limb is added once.
CarriedOnce(d) ==
    LET s[i \in I5] == d[i] + (IF i = 0 THEN 0 ELSE s[i - 1] \div Limb)
        h0 == (s[0] % Limb) + s[4] \div Limb
    IN  [i \in I5 |-> IF i = 0 THEN h0 % Limb ELSE IF i = 1 THEN (s[1] % Limb) + h0 \div Limb ELSE s[i] % Limb]

Carried(d) ==
    LET s[i \in I5] == d[i] + (IF i = 0 THEN 0 ELSE s[i - 1] \div Limb)
        h0 == (s[0] % Limb) + 5 * (s[4] \div Limb)
    IN  [i \in I5 |-> IF i = 0 THEN h0 % Limb ELSE IF i = 1 THEN (s[1] % Limb) + h0 \div Limb ELSE s[i] % Limb]

Block(h, r, bytes, hibit) ==
    LET m == ToLimbs(BlockNumber(bytes))
    IN  Carried(LimbProduct([i \in I5 |-> h[i] + m[i] + (IF i = 4 THEN hibit ELSE 0)], r))

\* poly1305_finish: another round of carries, from the second limb on; p is
\* subtracted if that leaves something; the pad is added.
Finish(h, pad) ==
    LET s[i \in 1..4] == h[i] + (IF i = 1 THEN 0 ELSE s[i - 1] \div Limb)
        h0 == h[0] + 5 * (s[4] \div Limb)
        k  == [i \in I5 |-> IF i = 0 THEN h0 % Limb ELSE IF i = 1 THEN (s[1] % Limb) + h0 \div Limb ELSE s[i] % Limb]
        g[i \in I5] == k[i] + (IF i = 0 THEN 5 ELSE g[i - 1] \div Limb)
        f  == [i \in I5 |-> IF g[4] >= Limb THEN (IF i = 4 THEN g[4] - Limb ELSE g[i] % Limb) ELSE k[i]]
        v[i \in I5] == f[i] * Limb ^ i + (IF i = 0 THEN 0 ELSE v[i - 1])
    IN  (v[4] + pad) % BlockMod

----------------------------------------------------------------------------
(* aead.c                                                                  *)

\* chacha20_xor from counter 1 on.
Xor(text) == [i \in DOMAIN text |->
                 (KeyStream[1 + (i - 1) \div ChaChaBytes][1 + ((i - 1) % ChaChaBytes)] - text[i]) % ByteMod]

\* while (mp % 16).
Padded(s) == s \o Zeros((BlockBytes - (Len(s) % BlockBytes)) % BlockBytes)
Length(s) == <<Len(s)>> \o Zeros(BlockBytes \div 2 - 1)     \* put_le64
MacInput(aad, cipher) == Padded(aad) \o Padded(cipher) \o Length(aad) \o Length(cipher)
TooLong(aad, cipher) == Len(aad) + Len(cipher) + 3 * BlockBytes - 2 > MacInMax

\* A mac at work: poly1305_init.
Mac(job, key, aad, cipher, tag) ==
    [at |-> "mac", job |-> job, key |-> key, aad |-> aad, cipher |-> cipher, tag |-> tag,
     left |-> MacInput(aad, cipher), h |-> ToLimbs(0)]

\* What the other side has: the record as it was sealed, and how.
Sealed(key, aad, plain, cipher, tag) ==
    [at |-> "sealed", key |-> key, aad |-> aad, plain |-> plain, cipher |-> cipher, tag |-> tag]

AeadSeal(key, aad, plain) ==
    /\ seal = Idle
    /\ seal' = IF TooLong(aad, plain) THEN Sealed(key, aad, plain, Xor(plain), 0)
               ELSE Mac("seal", key, aad, Xor(plain), 0) @@ [plain |-> plain]

\* aead_open of a record that may have been changed.
AeadOpen(aad, cipher, tag) ==
    /\ seal.at = "sealed"
    /\ seal' = IF TooLong(aad, cipher)
               THEN [at |-> "opened", sent |-> seal, aad |-> aad, cipher |-> cipher, tag |-> tag,
                     ok |-> FALSE, plain |-> <<>>]
               ELSE Mac("open", seal.key, aad, cipher, tag) @@ [sent |-> seal]

MacBlock ==
    /\ seal.at = "mac" /\ seal.left # <<>>
    /\ seal' = [seal EXCEPT !.h = Block(@, seal.key.r, SubSeq(seal.left, 1, BlockBytes), 2 ^ (LimbWidth - 2)),
                            !.left = SubSeq(@, BlockBytes + 1, Len(@))]

MacDone ==
    /\ seal.at = "mac" /\ seal.left = <<>>
    /\ LET tag == Finish(seal.h, seal.key.pad)
       IN  seal' = IF seal.job = "seal"
                   THEN Sealed(seal.key, seal.aad, seal.plain, seal.cipher, tag)
                   ELSE [at |-> "opened", sent |-> seal.sent, aad |-> seal.aad, cipher |-> seal.cipher,
                         tag |-> seal.tag, ok |-> tag = seal.tag,
                         plain |-> IF tag = seal.tag THEN Xor(seal.cipher) ELSE <<>>]

OpenReturns == seal.at = "opened" /\ seal' = Idle

AeadInit == seal = Idle
AeadNext ==
    \/ \E key \in PolyKeys, aad \in Aads, plain \in PlainTexts : AeadSeal(key, aad, plain)
    \/ seal.at = "sealed" /\ \E aad \in Tampered(seal.aad), cipher \in Tampered(seal.cipher),
           tag \in {seal.tag, 0} : AeadOpen(aad, cipher, tag)
    \/ MacBlock \/ MacDone \/ OpenReturns
AeadSpec == AeadInit /\ [][AeadNext]_seal

----------------------------------------------------------------------------
(* The definition of the mac: blocks, each with a bit above it, are the    *)
(* coefficients of a polynomial, taken at r modulo p; plus the pad.        *)
ModPrime(a, b) ==       \* a times b, bit by bit: the product itself is out of range
    LET p[n \in 0..5 * LimbWidth] ==
          IF n = 0 THEN 0 ELSE (((2 * p[n - 1]) % Prime) + ((b \div 2 ^ (5 * LimbWidth - n)) % 2) * a) % Prime
    IN  p[5 * LimbWidth]
LimbValue(l) == LET v[i \in I5] == l[i] * Limb ^ i + (IF i = 0 THEN 0 ELSE v[i - 1]) IN v[4] % Prime
Polynomial(input, r) ==
    LET n == Len(input) \div BlockBytes
        v[i \in 0..n] ==
          IF i = 0 THEN 0
          ELSE ModPrime((v[i - 1] + BlockNumber(SubSeq(input, (i - 1) * BlockBytes + 1, i * BlockBytes)) + BlockMod) % Prime,
                        LimbValue(r))
    IN  v[n]
Tag(key, aad, cipher) == (Polynomial(MacInput(aad, cipher), key.r) + key.pad) % BlockMod

\* The limbs hold the polynomial's value after each block, whatever is carried; two
\* different pairs of data never become the same blocks; and a record is opened
\* exactly if its tag is the one of what is there, the text of an unchanged record
\* being the text that was sealed.
AeadRight ==
    /\ seal.at = "mac" =>
         /\ LimbValue(seal.h) = Polynomial(SubSeq(MacInput(seal.aad, seal.cipher), 1,
                                  Len(MacInput(seal.aad, seal.cipher)) - Len(seal.left)), seal.key.r)
         /\ \A aad \in Aads, text \in PlainTexts :
              MacInput(aad, text) = MacInput(seal.aad, seal.cipher) => aad = seal.aad /\ text = seal.cipher
    /\ seal.at = "opened" =>
         /\ seal.ok <=> ~TooLong(seal.aad, seal.cipher) /\ seal.tag = Tag(seal.sent.key, seal.aad, seal.cipher)
         /\ (<<seal.aad, seal.cipher, seal.tag>> = <<seal.sent.aad, seal.sent.cipher, seal.sent.tag>>
                /\ ~TooLong(seal.aad, seal.cipher))
              => seal.ok /\ seal.plain = seal.sent.plain
=============================================================================
