--------------------------- MODULE ThresholdScalars ---------------------------
(***************************************************************************)
(* The arithmetic of threshold signing, shared by dkg/ceremony.ts,         *)
(* dkg/chilldkg-spark-signer.ts and signer/threshold-signer.ts: scalars    *)
(* modulo a prime, a point written as the scalar its base is multiplied    *)
(* by.  A public key is normalized to the even one of a point and its      *)
(* opposite; here the lower half of the scalars are the even ones.         *)
(***************************************************************************)
EXTENDS Integers, Sequences, FiniteSets, FiniteSetsExt

CONSTANT P   \* the order of the group, secp256k1.CURVE.n

ASSUME ThresholdScalarsAssumption ==
  /\ P \in Nat /\ P > 2
  /\ \A d \in 2..(P - 1) : P % d # 0

Scalar == 0..(P - 1)
mod(x) == x % P
Total(Value(_), S) == mod(MapThenSumSet(Value, S))

\* For each exponent the power as a function of the base: by squares, as the code
\* does it.
modPow[exponent \in 0..P] ==
  [base \in Scalar |->
     IF exponent = 0 THEN 1
     ELSE mod((IF exponent % 2 = 1 THEN base ELSE 1) * modPow[exponent \div 2][mod(base * base)])]

invertScalar(value) == modPow[P - 2][value]

lagrangeCoefficientAtZero(x, xs) ==
  MapThenFoldSet(LAMBDA a, b : mod(a * b), 1,
                 LAMBDA other : mod((-other) * invertScalar(mod(x - other))),
                 LAMBDA S : CHOOSE s \in S : TRUE,
                 xs \ {x})

\* The share of a participant: the polynomial, whose first coefficient is the
\* secret, at its index.
splitShamirSecret(coefficients, index) ==
  mod(MapThenSumSet(LAMBDA k : coefficients[k] * modPow[k - 1][index], DOMAIN coefficients))

IsOdd(point) == point > P \div 2
normalizeSparkPublicKey(point) == IF IsOdd(point) THEN mod(-point) ELSE point

\* The share that belongs to the normalized key.
shareValue(coefficients, index) ==
  IF IsOdd(coefficients[1]) THEN mod(-splitShamirSecret(coefficients, index))
  ELSE splitShamirSecret(coefficients, index)

\* External: the share Spark's library computes for a secret, from what it
\* derives of the nonce and of the transcript.
FrostShare(secret, nonce, challenge) == mod(nonce + challenge * secret)

\* Mutant of signFrost: the challenge is left in the nonce's part.
SignFrostTwice(coefficients, selected, tweak, nonce, challenge) ==
  LET z1 == FrostShare(1, nonce, challenge)
      effectiveChallenge == mod(FrostShare(2, nonce, challenge) - z1)
  IN mod(z1 + effectiveChallenge * tweak
         + effectiveChallenge * Total(LAMBDA i : lagrangeCoefficientAtZero(i, selected)
                                                 * shareValue(coefficients, i), selected))

\* signFrost of both signers: the library is run with the secrets 1 and 2 to
\* learn its challenge, and the selected shares are put in for the secret.  A
\* leaf's key is the group's and a tweak; ThresholdSparkSigner has no tweak.
signFrost(coefficients, selected, tweak, nonce, challenge) ==
  LET z1 == FrostShare(1, nonce, challenge)
      effectiveChallenge == mod(FrostShare(2, nonce, challenge) - z1)
      nonceOnlyShare == mod(z1 - effectiveChallenge)
  IN mod(nonceOnlyShare + effectiveChallenge * tweak
         + effectiveChallenge * Total(LAMBDA i : lagrangeCoefficientAtZero(i, selected)
                                                 * shareValue(coefficients, i), selected))
=============================================================================
