--------------------------- MODULE ThresholdShares ---------------------------
(***************************************************************************)
(* The arithmetic of the shares: share.SplitWithRand and share.Recover     *)
(* (internal/share/shamir.go), the sums of finalizeDKG                     *)
(* (internal/committee/service.go) and the interpolation of                *)
(* AggregateThresholdSignatures (internal/crypto/bls.go).                  *)
(*                                                                         *)
(* A signature share is the signer's key share times the hash of the       *)
(* message, and the pairing check compares the two as multiples of that    *)
(* hash.  So a signature share is modelled by the key share, and the       *)
(* signature of the committee by the secret that the interpolation must    *)
(* give.  The field is the integers modulo a small prime.                  *)
(***************************************************************************)
EXTENDS Naturals, Integers, Sequences, FiniteSets, Functions, SequencesExt

CONSTANTS
  P,              \* the prime modulus (frModulus)
  CommitteeSize,  \* number of members, each of them dealer and signer
  Threshold,      \* t
  BitsPerByte     \* 8; less for a bitmap of several bytes in small instances

\* The member indices are different and not zero modulo P.
ASSUME SharesAssumption ==
  /\ P \in Nat /\ P > CommitteeSize
  /\ \A a \in 2 .. P - 1 : P % a # 0
  /\ CommitteeSize \in Nat \ {0}
  /\ Threshold \in 1 .. CommitteeSize
  /\ BitsPerByte \in Nat \ {0}

VARIABLES
  coeffs,  \* coeffs[d]: the polynomial dealer d has sampled, or Undealt
  signed   \* the members whose share arrived, in the order of arrival

vars == <<coeffs, signed>>

Field == 0 .. P - 1
Member == 0 .. CommitteeSize - 1
Undealt == <<>>
Error == -1

\* A polynomial as its coefficients, the secret first.
Polynomial == [1 .. Threshold -> Field]
Secret(c) == c[1]

\* The loops that multiply: every round reduces modulo P.
Product(h) == FoldFunction(LAMBDA factor, acc : (acc * factor) % P, 1, h)

\* xPow after n rounds of evalPoly.
Power(x, n) == Product([k \in 1 .. n |-> x])

\* Mutant: the highest coefficient is left out.
EvalPolyShort(c, x) ==
  SumFunction([k \in 1 .. Len(c) - 1 |-> c[k] * Power(x, k - 1)]) % P

\* evalPoly.
EvalPoly(c, x) == SumFunction([k \in DOMAIN c |-> c[k] * Power(x, k - 1)]) % P

\* What SplitWithRand may sample for a secret: any other coefficients.  It
\* refuses a threshold below 2, and more shares needed than there are.
Splits(secret) ==
  IF Threshold < 2 \/ CommitteeSize < Threshold THEN {}
  ELSE {c \in Polynomial : Secret(c) = secret}

\* The share of member i: it is the value at i + 1.
ShareOf(c, i) == EvalPoly(c, i + 1)

\* ModInverse; the modulus is prime, so only 0 has none.
ModInverse(a) ==
  IF \E b \in Field : (a * b) % P = 1
    THEN CHOOSE b \in Field : (a * b) % P = 1
    ELSE Error

\* Mutant: the sign of the numerator's factors is lost.
LagrangeCoeffUnsigned(xs, x) ==
  LET others == xs \ {x}
      num == Product([y \in others |-> y])
      den == Product([y \in others |-> x - y])
  IN  (num * ModInverse(den)) % P

\* lagrangeCoeffAtZero, for the point x among the points xs.
LagrangeCoeffAtZero(xs, x) ==
  LET others == xs \ {x}
      num == Product([y \in others |-> -y])
      den == Product([y \in others |-> x - y])
  IN  (num * ModInverse(den)) % P

\* The value at 0 of the polynomial through the values of members.
Interpolate(members, value) ==
  LET xs == {i + 1 : i \in members}
  IN  SumFunction([i \in members |->
                     value[i] * LagrangeCoeffAtZero(xs, i + 1)]) % P

\* Mutant: like Recover, only a threshold of the responses is interpolated.
AggregateFirst(value, indices) ==
  LET some == ToSet(SubSeq(indices, 1, Threshold))
  IN  Interpolate(some, value)

\* AggregateThresholdSignatures: every response is interpolated; an empty
\* list and a repeated index are refused.
AggregateThresholdSignatures(value, indices) ==
  IF indices = <<>> \/ ~IsInjective(indices) THEN Error
  ELSE Interpolate(ToSet(indices), value)

\* Mutant: a repeated index is not noticed.
RecoverUnchecked(value, indices) ==
  IF Threshold < 2 \/ Len(indices) < Threshold THEN Error
  ELSE Interpolate(ToSet(SubSeq(indices, 1, Threshold)), value)

\* Recover: only the first t shares are interpolated, a repeated index is
\* refused wherever it is.
Recover(value, indices) ==
  IF Threshold < 2 \/ Len(indices) < Threshold \/ ~IsInjective(indices)
    THEN Error
    ELSE Interpolate(ToSet(SubSeq(indices, 1, Threshold)), value)

\* finalizeDKG: the key share of member i, and the committee's secret, which
\* nobody computes: the committee key is this multiple of the generator.
Dealt == \A d \in Member : coeffs[d] # Undealt

LocalShare ==
  [i \in Member |-> SumFunction([d \in Member |-> ShareOf(coeffs[d], i)]) % P]

CommitteeSecret == SumFunction([d \in Member |-> Secret(coeffs[d])]) % P

\* Mutant: the byte of the bit is forgotten.
MakeBitmapOneByte(indices) ==
  [byte \in 0 .. (CommitteeSize + BitsPerByte - 1) \div BitsPerByte - 1 |->
     IF byte = 0 THEN {i % BitsPerByte : i \in indices} ELSE {}]

\* makeBitmap, and the bitmap of all members in finalizeDKG: a byte is the set
\* of its bits.
MakeBitmap(indices) ==
  [byte \in 0 .. (CommitteeSize + BitsPerByte - 1) \div BitsPerByte - 1 |->
     {i % BitsPerByte : i \in {k \in indices \cap Member : k \div BitsPerByte = byte}}]

\* validateBitmap: the number of bits, of which there must be one.
ValidateBitmap(bitmap) ==
  LET count == SumFunction([byte \in DOMAIN bitmap |-> Cardinality(bitmap[byte])])
  IN  IF count = 0 THEN Error ELSE count

\* AggregatePublicKeys (and AggregateSignatures, which only tests use): as many
\* points as bits, none of them twice, are added up.
AggregatePublicKeys(points, bitmap) ==
  IF ValidateBitmap(bitmap) # Len(points) \/ ~IsInjective(points) THEN Error
  ELSE SumFunction(points) % P

\* finalizeDKG: the committee key, as a multiple of the generator.  It is
\* refused when two dealers have the same public key.
CommitteeKey ==
  AggregatePublicKeys([d \in 1 .. CommitteeSize |-> Secret(coeffs[d - 1])],
                      MakeBitmap(Member))

------------------------------------------------------------------------------
Init ==
  /\ coeffs = [d \in Member |-> Undealt]
  /\ signed = <<>>

\* broadcastDealerShares: dealer d samples a secret that is not zero and the
\* polynomial of its shares.  (The model deals in the order of the members:
\* the order makes no difference to the sums.)
Deal(d) ==
  /\ coeffs[d] = Undealt
  /\ \A e \in 0 .. d - 1 : coeffs[e] # Undealt
  /\ \E secret \in Field \ {0} : \E c \in Splits(secret) :
       coeffs' = [coeffs EXCEPT ![d] = c]
  /\ UNCHANGED signed

\* The coordinator adds the share of member i to the responses.
Respond(i) ==
  /\ Dealt
  /\ i \notin ToSet(signed)
  /\ signed' = Append(signed, i)
  /\ UNCHANGED coeffs

Next == \E i \in Member : Deal(i) \/ Respond(i)

Spec == Init /\ [][Next]_vars

------------------------------------------------------------------------------
(***************************************************************************)
(* Properties.                                                             *)
(***************************************************************************)
Enough == Dealt /\ Len(signed) >= Threshold

\* Whichever members respond, in whatever order, as soon as there is a
\* threshold of them their key shares, each the sum of one share of every
\* dealer, combine to the signature that verifies under the committee key.
AnyThresholdCombines ==
  (Enough /\ CommitteeKey # Error)
    => AggregateThresholdSignatures(LocalShare, signed) = CommitteeKey

\* One share of another key among the responses, and the signature does not
\* verify, even with more responses than the threshold.
ForeignShareIsNoticed ==
  Enough =>
    \A i \in ToSet(signed) : \A v \in Field \ {LocalShare[i]} :
      AggregateThresholdSignatures([LocalShare EXCEPT ![i] = v], signed)
        # CommitteeSecret

\* Fewer shares than the threshold say nothing: for every secret there is one
\* polynomial, as likely as the dealer's own, that gives the same shares.
FewerSharesHideTheSecret ==
  \A d \in Member :
    (coeffs[d] # Undealt /\ Len(signed) < Threshold)
      => \A secret \in Field :
           \E c \in Splits(secret) :
             \A i \in ToSet(signed) : ShareOf(c, i) = ShareOf(coeffs[d], i)

\* Recover gives the secret of a dealer back from any threshold of its shares,
\* whatever their order, and refuses fewer shares and a share given twice.
RecoverIsExact ==
  \A d \in Member : coeffs[d] # Undealt =>
    LET shares == [i \in Member |-> ShareOf(coeffs[d], i)]
    IN  /\ Recover(shares, signed) =
             IF Len(signed) < Threshold THEN Error ELSE Secret(coeffs[d])
        /\ \A i \in ToSet(signed) : Recover(shares, Append(signed, i)) = Error

\* The bitmap of a result names exactly the members that signed, also when it
\* has more than one byte and when its last byte is not full.
BitmapNamesSigners ==
  LET bitmap == MakeBitmap(ToSet(signed))
  IN  /\ {i \in Member : i % BitsPerByte \in bitmap[i \div BitsPerByte]} = ToSet(signed)
      /\ ValidateBitmap(bitmap) = IF signed = <<>> THEN Error ELSE Len(signed)
==============================================================================
