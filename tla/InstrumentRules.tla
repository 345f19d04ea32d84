--------------------------- MODULE InstrumentRules ---------------------------
(***************************************************************************)
(* The arithmetic of an instrument over whole numbers.  Prices are         *)
(* quotations, amounts are in lots; inverted contracts, whose real price   *)
(* is a reciprocal, are left out.                                          *)
(***************************************************************************)
EXTENDS Integers

CONSTANT Config     \* [type, lot, multiplier, minSize, minVolume, factor]

ASSUME ConfigIsPositive ==
    /\ {Config.lot, Config.multiplier, Config.factor} \subseteq Nat \ {0}
    /\ {Config.minSize, Config.minVolume} \subseteq Nat
    /\ Config.type \in {"spot", "contract", "quantum_contract", "cfd"}

ReverseSide(side) == CASE side = "buy" -> "sell" [] side = "sell" -> "buy" [] OTHER -> side
Sign(side) == CASE side = "buy" -> 1 [] side = "sell" -> -1 [] OTHER -> 0

Larger(a, b) == IF a < b THEN b ELSE a

LotToAmount(lots) == lots * Config.multiplier
QuotationToPrice(price) ==
    IF Config.type = "quantum_contract" THEN price * Config.factor ELSE price

CalculatePnl(pos, close) ==
    Sign(pos.side) * LotToAmount(pos.amount) * QuotationToPrice(close - pos.open)

\* To a whole number of lots: nearest, down, up.
AdjustLot(a) == ((2 * a + Config.lot) \div (2 * Config.lot)) * Config.lot
AdjustLotDown(a) == (a \div Config.lot) * Config.lot
AdjustLotUp(a) == - AdjustLotDown(- a)

\* What one lot costs.
LotValue(price) == LotToAmount(QuotationToPrice(price))

\* The least size in lots, rounded up (calc_min_amount).
MinLots(price) ==
    Larger(AdjustLotUp(Larger(Config.minSize, Config.lot)),
           IF Config.minVolume = 0 THEN 0
           ELSE AdjustLotUp(- ((- Config.minVolume) \div LotValue(price))))

\* The amount of an order, given in lots or as a volume of money; 0 if the money is too little.
AdjustAmount(price, size, isVolume) ==
    IF isVolume
    THEN LET lots == AdjustLotDown(size \div LotValue(price))
         IN  IF lots < Config.minSize \/ lots < Config.lot \/ lots * LotValue(price) < Config.minVolume
             THEN 0 ELSE lots
    ELSE Larger(MinLots(price), AdjustLot(size))

\* calc_margin is more than the money there is.  Without leverage the code divides by zero.
Uncovered(price, amount, leverage, money) ==
    LET value == amount * LotValue(price)
    IN  IF leverage = 0 THEN value > 0 ELSE value > money * leverage
=============================================================================
