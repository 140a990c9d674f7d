-------------------------------- MODULE G711 ---------------------------------
(***************************************************************************)
(* The A-law codec of g711.h: an octet to a 16-bit sample and back.        *)
(***************************************************************************)
EXTENDS Integers

Samples == -(2 ^ 15) .. 2 ^ 15 - 1
Codes   == 0 .. 255

\* alaw ^ 0x55: bits 0, 2, 4 and 6 are toggled.
Toggle(b) ==
  LET flip(bit) == IF (b \div bit) % 2 = 1 THEN -bit ELSE bit
  IN  b + flip(1) + flip(4) + flip(16) + flip(64)

\* The absolute value of a code whose bits were toggled: mantissa and segment.
Magnitude(a) ==
  LET t   == 16 * (a % 16)
      seg == (a \div 16) % 8
  IN  CASE seg = 0 -> t + 8
        [] seg = 1 -> t + 264
        [] OTHER   -> (t + 264) * 2 ^ (seg - 1)

decodeSample(alaw) ==
  LET a == Toggle(alaw) IN IF a >= 128 THEN Magnitude(a) ELSE -Magnitude(a)

\* pcm = -pcm in an int16_t: -32768 has no opposite there and stays as it is.
Negated(pcm) == IF pcm = -32768 THEN pcm ELSE -pcm

\* The segment of a value below 2^15: seg_end[k] is 2^(k + 8) - 1.
Segment(v) == IF v < 256 THEN 0 ELSE CHOOSE k \in 1 .. 7 : 2 ^ (k + 7) <= v /\ v < 2 ^ (k + 8)

encodeSample(pcm) ==
  LET sign    == IF pcm < 0 THEN 128 ELSE 0
      value   == IF pcm < 0 THEN Negated(pcm) ELSE pcm
      clamped == IF value > 32635 THEN 32635 ELSE value
      seg     == Segment(clamped)
      low     == clamped \div (2 ^ (IF seg = 0 THEN 4 ELSE seg + 3))
  IN  Toggle(sign + 16 * seg + (low % 16))

\* Half the distance between two neighbouring values of the code for pcm; the
\* last segment also takes what lies above its end.
Resolution(pcm) ==
  LET v == IF pcm < 0 THEN -pcm ELSE pcm
  IN  IF v < 256 THEN 8 ELSE 2 ^ (Segment(v) + 2)

\* A fact about the two functions over their whole domain, evaluated by TLC:
\* they disagree about the sign bit (g711.h:26 and :32).  A sample that is
\* encoded and decoded again is, within the resolution of the code, the OPPOSITE
\* of what it was; the one without an opposite becomes the smallest there is.
ASSUME CodecInverts ==
  /\ \A pcm \in Samples \ {-32768} :
       LET error == decodeSample(encodeSample(pcm)) + pcm
       IN  -Resolution(pcm) <= error /\ error <= Resolution(pcm)
  /\ decodeSample(encodeSample(-32768)) = 8
=============================================================================
