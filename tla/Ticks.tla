--------------------------------- MODULE Ticks ---------------------------------
(***************************************************************************)
(* The tick sizes of the exchange and the snapping of a price to them.  A  *)
(* price is a whole number of the smallest steps a Decimal can make, Cent  *)
(* of them a hundredth of a won or a dollar.                               *)
(***************************************************************************)
EXTENDS Integers, Sequences

CONSTANT Cent

ASSUME TickAssumption == Cent \in Nat \ {0}

Unit == 100 * Cent

\* _KRX_TICKS: below this price, this tick size, in won; _KRX_TOP from the last one on.
KrxTicks == << <<2000, 1>>, <<5000, 5>>, <<20000, 10>>, <<50000, 50>>, <<200000, 100>>, <<500000, 500>> >>
KrxTop   == 1000

\* The tick size of the first band the price is below.
KrxSize(won) ==
  LET under == {i \in DOMAIN KrxTicks : won < KrxTicks[i][1]}
  IN  IF under = {} THEN KrxTop
      ELSE KrxTicks[CHOOSE i \in under : \A j \in under : i <= j][2]

TickSize(price, currency) ==
  IF currency = "USD" THEN Cent ELSE KrxSize(price \div Unit) * Unit

SnapDown(price, currency) ==
  LET tick == TickSize(price, currency) IN (price \div tick) * tick

\* (mutant) a tick added to a price that is on one
SnapUpAlways(price, currency) ==
  LET tick == TickSize(price, currency) IN (price \div tick) * tick + tick

SnapUp(price, currency) ==
  LET tick    == TickSize(price, currency)
      floored == (price \div tick) * tick
  IN  IF floored = price THEN floored ELSE floored + tick

-------------------------------------------------------------------------------
\* Properties.

\* The prices the exchange takes: whole won that are multiples of a step that grows with
\* the price, or whole cents.
PermittedWon(won) ==
  /\ won >= 2000   => won % 5 = 0
  /\ won >= 5000   => won % 10 = 0
  /\ won >= 20000  => won % 50 = 0
  /\ won >= 50000  => won % 100 = 0
  /\ won >= 200000 => won % 500 = 0
  /\ won >= 500000 => won % 1000 = 0

Permitted(price, currency) ==
  IF currency = "USD" THEN price % Cent = 0
                      ELSE price % Unit = 0 /\ PermittedWon(price \div Unit)

\* SnapDown is the highest permitted price up to this one and SnapUp the lowest from it
\* on, among the prices of a set, also where a snapped price is in another band than
\* the price it comes from.
SnapsWell(price, currency, prices) ==
  /\ Permitted(SnapDown(price, currency), currency) /\ SnapDown(price, currency) <= price
  /\ Permitted(SnapUp(price, currency), currency)   /\ SnapUp(price, currency) >= price
  /\ \A p \in prices : Permitted(p, currency) =>
       /\ p <= price => p <= SnapDown(price, currency)
       /\ p >= price => p >= SnapUp(price, currency)
===============================================================================
