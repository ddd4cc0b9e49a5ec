---------------------------- MODULE SizeClasses -----------------------------
(* The size classes of ota.h: bands of four classes, each band with twice  *)
(* the unit of the one before, below them the eight classes of 16 bytes    *)
(* and the class of 8.                                                     *)
EXTENDS Integers

TooLarge == -1

Band == 0 .. 9
Unit == <<16, 32, 64, 128, 256, 512, 1024, 2048, 4096, 8192>>

UnitOf(k) == Unit[k + 1]
BandEnd(k) == 8 * UnitOf(k)
InBand(size, k) == size <= BandEnd(k) /\ (k = 0 \/ BandEnd(k - 1) < size)
BandOf(size) == CHOOSE k \in Band : InBand(size, k)

MaxClass == BandEnd(9)

size_to_usable_size(size) ==
  IF size <= 8 THEN 8
  ELSE IF size > MaxClass THEN TooLarge
  ELSE LET u == UnitOf(BandOf(size)) IN u * ((size + u - 1) \div u)

(* A plausible slip: the addend is the unit.                               *)
WrongRoundUp(k) == UnitOf(k)

(* What is added before the division by the unit: one less than the unit,  *)
(* but 0x3ff also in the last band, whose unit is 0x2000.                  *)
RoundUp(k) == IF k = 9 THEN 1023 ELSE UnitOf(k) - 1

size_to_reservation_index(size) ==
  IF size <= 8 THEN 0
  ELSE IF size > MaxClass THEN TooLarge
  ELSE LET k == BandOf(size) IN 4 * k + (size + RoundUp(k)) \div UnitOf(k)

InClasses(index, k) == index <= 4 * k + 8 /\ (k = 0 \/ 4 * k + 4 < index)

index_to_max_usable_size(index) ==
  IF index = 0 THEN 8
  ELSE IF index > 44 THEN TooLarge
  ELSE LET k == CHOOSE k \in Band : InClasses(index, k)
       IN (index - 4 * k) * UnitOf(k)
=============================================================================
