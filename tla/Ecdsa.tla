--------------------------------- MODULE Ecdsa --------------------------------
(***************************************************************************)
(* Verification of ECDSA signatures (kernel/ecdsa.c) on a curve            *)
(* y^2 = x^3 - 3x + b over the integers modulo p, whose points are n in    *)
(* number: P-256 is one, the curves of the runs are small ones.            *)
(*                                                                         *)
(* bn_addmod and bn_mulmod compute modulo their last argument (module Rsa  *)
(* is about the limbs), so a number is an integer here.  A point is the    *)
(* code's <<X, Y, Z>>, for the affine X / Z^2, Y / Z^3.  The double and    *)
(* add loop of pt_mul is a state machine, which verify runs twice.         *)
(***************************************************************************)
EXTENDS Integers, Sequences

CONSTANTS
    P, N,               \* P256_P and P256_N
    Generator,          \* P256_GX, P256_GY
    Keys,               \* public keys: points <<x, y>> of the curve
    Hashes,             \* what sha256 may give, as a number
    SigInts             \* numbers that the INTEGERs of a signature hold

VARIABLES
    verify              \* a call of ecdsa_p256_sha256_verify at work

NotVerifying == [at |-> "idle"]

f_add(a, b, m) == (a + b) % m
f_sub(a, b, m) == f_add(a, m - b, m)
f_mul(a, b, m) == (a * b) % m

\* bn_modexp with the exponent m - 2: the inverse, as m is prime.
f_inv(a, m) == LET power[k \in 0..m - 2] == IF k = 0 THEN 1 % m ELSE f_mul(power[k - 1], a, m)
               IN  power[m - 2]

Infinity == <<0, 0, 0>>
pt_is_inf(pt) == pt[3] = 0

pt_dbl(pt) ==
    LET Mul(a, b) == f_mul(a, b, P)
        Sub(a, b) == f_sub(a, b, P)
        X == pt[1]   Y == pt[2]   Z == pt[3]
        delta == Mul(Z, Z)
        gamma == Mul(Y, Y)
        beta  == Mul(X, gamma)
        alpha == Mul(Mul(Sub(X, delta), f_add(X, delta, P)), 3)
        X3 == Sub(Mul(alpha, alpha), Mul(beta, 8))
        YZ == f_add(Y, Z, P)
        Z3 == Sub(Sub(Mul(YZ, YZ), gamma), delta)
        Y3 == Sub(Mul(alpha, Sub(Mul(beta, 4), X3)), Mul(Mul(gamma, gamma), 8))
    IN  IF pt_is_inf(pt) \/ Y = 0 THEN Infinity ELSE <<X3, Y3, Z3>>

\* pt_add for points with different X / Z^2: H is their difference.
Chord(pt, qt, Z1Z1, Z2Z2, U1, S1, H, rr) ==
    LET Mul(a, b) == f_mul(a, b, P)
        Sub(a, b) == f_sub(a, b, P)
        I  == Mul(Mul(H, H), 4)
        J  == Mul(H, I)
        t  == Mul(rr, 2)
        V  == Mul(U1, I)
        X3 == Sub(Sub(Mul(t, t), J), Mul(V, 2))
        Y3 == Sub(Mul(t, Sub(V, X3)), Mul(Mul(S1, J), 2))
        ZZ == f_add(pt[3], qt[3], P)
    IN  <<X3, Y3, Mul(Sub(Sub(Mul(ZZ, ZZ), Z1Z1), Z2Z2), H)>>

\* Mutant of SamePlace: points with the same X are taken for opposite ones.
SamePlaceOpposite(pt, rr) == Infinity

\* pt_add for points with the same X / Z^2: the same point, or opposite ones.
SamePlace(pt, rr) == IF rr = 0 THEN pt_dbl(pt) ELSE Infinity

pt_add(pt, qt) ==
    LET Mul(a, b) == f_mul(a, b, P)
        Z1Z1 == Mul(pt[3], pt[3])
        Z2Z2 == Mul(qt[3], qt[3])
        U1 == Mul(pt[1], Z2Z2)
        U2 == Mul(qt[1], Z1Z1)
        S1 == Mul(Mul(pt[2], qt[3]), Z2Z2)
        S2 == Mul(Mul(qt[2], pt[3]), Z1Z1)
        H  == f_sub(U2, U1, P)
        rr == f_sub(S2, S1, P)
    IN  IF pt_is_inf(pt) THEN qt ELSE IF pt_is_inf(qt) THEN pt
        ELSE IF H # 0 THEN Chord(pt, qt, Z1Z1, Z2Z2, U1, S1, H, rr)
        ELSE SamePlace(pt, rr)

pt_to_affine_x(pt) == LET zinv == f_inv(pt[3], P) IN f_mul(pt[1], f_mul(zinv, zinv, P), P)

----------------------------------------------------------------------------
(* DER: an element is a tag and, behind its length, its contents.          *)
Integer(v) == [tag |-> "INTEGER", val |-> v]
Other == [tag |-> "OTHER", val |-> 0]
Signature(items) == [tag |-> "SEQUENCE", val |-> items]
Signatures ==
    {Signature(<<Integer(r), Integer(s)>>) : r, s \in SigInts}
        \cup {Signature(<<Integer(1), Integer(1), Other>>), Signature(<<Integer(1)>>),
              Signature(<<Integer(1), Other>>), Signature(<<>>), Other}

\* parse_ecdsa_sig: two INTEGERs; what follows them is not looked at.
Parses(sig) ==
    /\ sig.tag = "SEQUENCE" /\ Len(sig.val) >= 2
    /\ \A k \in 1..2 : sig.val[k].tag = "INTEGER"

\* The checks before the arithmetic.
InRange(v) == v # 0 /\ v < N

ScalarBit(k, i) == (k \div 2 ^ i) % 2
\* The highest bit that is set, or -1: pt_mul's top.
Top(k) == IF k = 0 THEN -1 ELSE CHOOSE i \in 0..k : 2 ^ i <= k /\ k < 2 ^ (i + 1)

Multiply(scalar, pt) == [k |-> scalar, pt |-> pt, r |-> Infinity, i |-> Top(scalar)]

Begun(key, hash, sig) ==
    IF ~Parses(sig) \/ ~InRange(sig.val[1].val) \/ ~InRange(sig.val[2].val)
    THEN [at |-> "done", key |-> key, hash |-> hash, sig |-> sig, result |-> FALSE]
    ELSE LET r == sig.val[1].val
             w == f_inv(sig.val[2].val, N)
             e == hash % N          \* the loop that subtracts n
         IN  [at |-> "u1G", key |-> key, hash |-> hash, sig |-> sig,
              u2 |-> f_mul(r, w, N),
              mul |-> Multiply(f_mul(e, w, N), Generator \o <<1>>)]

StartVerify ==
    /\ verify = NotVerifying
    /\ \E key \in Keys, hash \in Hashes, sig \in Signatures : verify' = Begun(key, hash, sig)

\* A turn of pt_mul's loop: r is doubled and, where the bit is set, added to.
MulStep ==
    /\ verify.at \in {"u1G", "u2Q"} /\ verify.mul.i >= 0
    /\ LET m == verify.mul
           d == pt_dbl(m.r)
       IN  verify' = [verify EXCEPT !.mul.r = IF ScalarBit(m.k, m.i) = 1 THEN pt_add(d, m.pt) ELSE d,
                                    !.mul.i = @ - 1]

\* pt_mul returns the product of the generator, and starts on the key.
FirstDone ==
    /\ verify.at = "u1G" /\ verify.mul.i < 0
    /\ verify' = [at |-> "u2Q", key |-> verify.key, hash |-> verify.hash, sig |-> verify.sig,
                  u1G |-> verify.mul.r, mul |-> Multiply(verify.u2, verify.key \o <<1>>)]

\* The last loop subtracts n, and r is compared.
SameX(x, r) == x % N = r

SecondDone ==
    /\ verify.at = "u2Q" /\ verify.mul.i < 0
    /\ LET R == pt_add(verify.u1G, verify.mul.r)
       IN  verify' = [at |-> "done", key |-> verify.key, hash |-> verify.hash, sig |-> verify.sig,
                      result |-> ~pt_is_inf(R) /\ SameX(pt_to_affine_x(R), verify.sig.val[1].val)]

VerifyReturns == verify.at = "done" /\ verify' = NotVerifying

EcdsaInit == verify = NotVerifying
EcdsaNext ==
    \/ StartVerify \/ MulStep \/ FirstDone \/ SecondDone \/ VerifyReturns
EcdsaSpec == EcdsaInit /\ [][EcdsaNext]_verify

----------------------------------------------------------------------------
(* The group itself: the points in affine form, added by the chord and the *)
(* tangent; k times a point, by adding it k times.                         *)
Zero == <<>>
Plus(a, b) ==
    LET slope == IF a = b THEN f_mul(3 * a[1] * a[1] - 3, f_inv((2 * a[2]) % P, P), P)
                 ELSE f_mul(b[2] - a[2], f_inv((b[1] - a[1]) % P, P), P)
        x == (slope * slope - a[1] - b[1]) % P
    IN  IF a = Zero THEN b ELSE IF b = Zero THEN a
        ELSE IF a[1] = b[1] /\ (a[2] + b[2]) % P = 0 THEN Zero
        ELSE <<x, (slope * (a[1] - x) - a[2]) % P>>
TimesTable(a) == LET t[k \in 0..N] == IF k = 0 THEN Zero ELSE Plus(t[k - 1], a) IN t
Times(k, a) == TimesTable(a)[k % N]

\* A Jacobian point stands for an affine one.
StandsFor(pt, a) ==
    IF pt_is_inf(pt) THEN a = Zero
    ELSE /\ a # Zero
         /\ (a[1] * pt[3] * pt[3]) % P = pt[1]
         /\ (a[2] * pt[3] * pt[3] * pt[3]) % P = pt[2]

\* At each turn r is the point times the bits of the scalar that were taken, also
\* when pt_add meets the same point, the opposite one or infinity; and the verdict is
\* the one of the group: yes exactly if r and s are below n, not 0, and
\* (e/s)G + (r/s)Q has a coordinate x that is r modulo n.
EcdsaRight ==
    /\ verify.at \in {"u1G", "u2Q"} =>
         LET m == verify.mul
         IN  StandsFor(m.r, Times(m.k \div 2 ^ (m.i + 1), <<m.pt[1], m.pt[2]>>))
    /\ verify.at = "done" =>
         (verify.result <=>
            /\ Parses(verify.sig)
            /\ LET r == verify.sig.val[1].val
                   s == verify.sig.val[2].val
                   w == CHOOSE v \in 0..N - 1 : (v * s) % N = 1
                   R == Plus(Times(verify.hash * w, Generator), Times(r * w, verify.key))
               IN  /\ r \in 1..N - 1 /\ s \in 1..N - 1
                   /\ R # Zero /\ R[1] % N = r)
=============================================================================
