------------------------------- MODULE Pricing -------------------------------
(***************************************************************************)
(* What an order costs: PricingService, the discount of a promo code and   *)
(* the total of CreateOrder.  Money is counted in tenths of a cent, so     *)
(* that amounts the code does not round (prices of items, a fixed discount *)
(* cut to the total) can fall between cents until the database stores      *)
(* them; percentages are counted in hundredths, distances in kilometres.   *)
(***************************************************************************)
EXTENDS Integers, Rounding

CONSTANTS BaseFare, PerKm, MinFare   \* the tariffs of the configuration

ASSUME FaresAssumption == BaseFare \in Nat /\ PerKm \in Nat /\ MinFare \in Nat

DiscountTypes == {"fixed", "percent", "free_delivery"}

\* round2, and a column of type DECIMAL(10,2): to whole cents.
Cents(amount) == 10 * Rounded(amount, 10)

CalculateCost(distance) ==
  LET cost == BaseFare + distance * PerKm
  IN Cents(IF cost < MinFare THEN MinFare ELSE cost)

\* Terms a code may be created or updated with.  The column amount keeps two
\* digits, so a percentage given as positive may be stored as 0.
ValidTerms(terms) ==
  /\ terms.type \in DiscountTypes
  /\ terms.amount \in Nat
  /\ terms.type = "fixed" => terms.amount % 10 = 0
  /\ terms.type = "percent" => terms.amount \leq 10000

\* Mutant of Discount: a fixed discount is not limited by the total.
UnlimitedDiscount(terms, base, delivery) ==
  CASE terms.type = "fixed" -> terms.amount
    [] terms.type = "percent" -> 10 * Rounded(base * terms.amount, 100000)
    [] OTHER -> Cents(delivery)

\* Mutant of Discount: a discount in percent is not rounded.
UnroundedDiscount(terms, base, delivery) ==
  CASE terms.type = "fixed" -> IF terms.amount > base THEN base ELSE Cents(terms.amount)
    [] terms.type = "percent" -> Rounded(base * terms.amount, 10000)
    [] OTHER -> Cents(delivery)

\* calculateDiscount for the price `base' of items and delivery.
Discount(terms, base, delivery) ==
  CASE terms.type = "fixed" -> IF terms.amount > base THEN base ELSE Cents(terms.amount)
    [] terms.type = "percent" -> 10 * Rounded(base * terms.amount, 100000)
    [] terms.type = "free_delivery" -> Cents(delivery)

\* A discount rounded up may exceed the price by a fraction of a cent.
Total(base, discount) == IF discount > base THEN 0 ELSE base - discount
==============================================================================
