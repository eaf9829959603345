---------------------------- MODULE ChipCommands ----------------------------
(***************************************************************************)
(* How AsicInit computes the commands that bring a chip to its frequency:  *)
(* the clamp of -aon-frequency, the search for the dividers of each step,  *)
(* and the CRC that ends a command.                                        *)
(*                                                                         *)
(* Frequencies are in steps of 6.25 MHz, a quarter of the crystal's 25     *)
(* MHz: a frequency f and dividers fb / d are compared as f / 4 and        *)
(* fb / d.  The code compares floating point numbers with a tolerance of   *)
(* pllEpsilon: what is equal in it is equal here, since two distances that *)
(* differ do so by 25 MHz / (4 * 98 * 98) at least.                        *)
(***************************************************************************)
EXTENDS Integers, SequencesExt

-----------------------------------------------------------------------------
(* The frequencies *)

(* math.Round of mhz / 6.25, at least 24 and at most 128 *)
FrequencyTarget(mhz) ==
  LET target == (8 * mhz + 25) \div 50
  IN  IF target > 128 THEN 128 ELSE IF target < 24 THEN 24 ELSE target

(* The steps of AsicInit to a target *)
Ramp(mhz) == 10 .. FrequencyTarget(mhz)

-----------------------------------------------------------------------------
(* pllGetParameters2 *)

FbDividerMin == 96

FbDividerMax == 198

(* The dividers that are tried, and the feedback that fits best            *)
Dividers(freq, refDiv, postDiv1, postDiv2) ==
  LET divider == refDiv * postDiv1 * postDiv2
  IN  [refDiv |-> refDiv, postDiv1 |-> postDiv1, postDiv2 |-> postDiv2,
       divider |-> divider, fbDivider |-> (freq * divider + 2) \div 4]

(* The three loops, each from the highest value down *)
Tried(freq) ==
  [n \in 1 .. 2 * 7 * 7 |->
     Dividers(freq, 2 - ((n - 1) \div 49), 7 - (((n - 1) \div 7) % 7),
              7 - ((n - 1) % 7))]

IsAllowed(c) ==
  /\ c.postDiv1 > c.postDiv2
  /\ c.fbDivider \in FbDividerMin .. FbDividerMax

(* The distance from freq, times 4 * divider *)
Distance(freq, c) ==
  LET off == freq * c.divider - 4 * c.fbDivider
  IN  IF off < 0 THEN - off ELSE off

Closer(freq, c, b) == Distance(freq, c) * b.divider < Distance(freq, b) * c.divider

SameDistance(freq, c, b) ==
  Distance(freq, c) * b.divider = Distance(freq, b) * c.divider

LowerVco(c, b) == c.fbDivider * b.refDiv < b.fbDivider * c.refDiv

SameVco(c, b) == c.fbDivider * b.refDiv = b.fbDivider * c.refDiv

LowerPostDiv(c, b) == c.postDiv1 * c.postDiv2 < b.postDiv1 * b.postDiv2

(* What is returned when no dividers are allowed *)
NoParams == [refDiv |-> 0, postDiv1 |-> 0, postDiv2 |-> 0, divider |-> 0,
             fbDivider |-> 0]

Better(freq, c, b) ==
  \/ b = NoParams
  \/ Closer(freq, c, b)
  \/ SameDistance(freq, c, b) /\ LowerVco(c, b)
  \/ SameDistance(freq, c, b) /\ SameVco(c, b) /\ LowerPostDiv(c, b)

PllGetParameters(freq) ==
  LET keep(b, c) == IF IsAllowed(c) /\ Better(freq, c, b) THEN c ELSE b
  IN  FoldLeft(keep, NoParams, Tried(freq))

(* The bytes of the command but the constant ones; 25 MHz times the        *)
(* feedback of 2400 MHz is 96.                                             *)
CalculatePll(freq) ==
  LET p == PllGetParameters(freq)
  IN  << IF p.fbDivider >= 96 * p.refDiv THEN 80 ELSE 64,
         p.fbDivider % 256, p.refDiv,
         16 * ((p.postDiv1 - 1) % 16) + ((p.postDiv2 - 1) % 16) >>

-----------------------------------------------------------------------------
(* CRC5_BM, on the bits of a command, the first one first *)

BitXor(a, b) == (a + b) % 2

(* The register from its highest bit down, after one more bit *)
ShiftIn(crc, bit) ==
  LET newBit == BitXor(crc[1], bit)
  IN  << crc[2], crc[3], BitXor(crc[4], newBit), crc[5], newBit >>

Crc5(bits) == FoldLeft(ShiftIn, << 1, 1, 1, 1, 1 >>, bits)

-----------------------------------------------------------------------------
(* Reference definitions and properties *)

(* "Prioritize: closest frequency, then lowest VCO, then lowest postdiv    *)
(* product" (aonminer.go:573), of all dividers and not only of each pair   *)
(* that the loop compares; and there is always something to choose.        *)
PllIsBest(freq) ==
  LET all == {c \in Range(Tried(freq)) : IsAllowed(c)}
      p   == PllGetParameters(freq)
  IN  /\ p \in all
      /\ \A c \in all :
           \/ Closer(freq, p, c)
           \/ /\ SameDistance(freq, p, c)
              /\ \/ LowerVco(p, c)
                 \/ SameVco(p, c) /\ ~ LowerPostDiv(c, p)

(* Every step of the ramp (aonminer.go:208), 6.25 MHz after the one       *)
(* before, is met exactly.                                                 *)
PllIsExact(freq) == Distance(freq, PllGetParameters(freq)) = 0

(* The remainder of a bit string by x^5 + x^2 + 1, by long division *)
Remainder(bits) ==
  LET generator == << 1, 0, 0, 1, 0, 1 >>
      divide(b, i) ==
        IF b[i] = 0 THEN b
        ELSE [j \in DOMAIN b |-> IF j \in i .. i + 5
                                 THEN BitXor(b[j], generator[j - i + 1])
                                 ELSE b[j]]
      n == Len(bits)
  IN  SubSeq(FoldLeft(divide, bits, [i \in 1 .. n - 5 |-> i]), n - 4, n)

(* The CRC (general.go:224-236) is that of the generator x^5 + x^2 + 1:    *)
(* the first five bits inverted, the command extended by five zeros and    *)
(* divided; and the register is empty after a command and its own CRC,     *)
(* which is how a chip sees that a command has come through.               *)
CrcIsRemainder(bits) ==
  LET inverted == [i \in 1 .. Len(bits) + 5 |->
                     IF i <= 5 THEN 1 - bits[i]
                     ELSE IF i <= Len(bits) THEN bits[i] ELSE 0]
  IN  /\ Crc5(bits) = Remainder(inverted)
      /\ Crc5(bits \o Crc5(bits)) = << 0, 0, 0, 0, 0 >>
=============================================================================
