--------------------------- MODULE PromoCodesProofs ---------------------------
(***************************************************************************)
(* PromoCodes, for all tariffs, terms, baskets, codes and sessions.        *)
(***************************************************************************)
EXTENDS PromoCodes, FiniteSetTheorems, TLAPS

\* An amount in cents is the nearest one, and does not change again.
LEMMA CentsFit ==
  ASSUME NEW amount \in Nat
  PROVE  \E k \in Nat : /\ Cents(amount) = 10 * k
                        /\ 20 * k \leq 2 * amount + 10 /\ 2 * amount + 10 < 20 * k + 20
<1>1. /\ Rounded(amount, 10) \in Nat
      /\ 20 * Rounded(amount, 10) \leq 2 * amount + 10
      /\ 2 * amount + 10 < 20 * Rounded(amount, 10) + 20
  BY DEF Rounded
<1> QED
  BY <1>1 DEF Cents

LEMMA CentsIs ==
  ASSUME NEW amount \in Nat, NEW k \in Nat,
         20 * k \leq 2 * amount + 10, 2 * amount + 10 < 20 * k + 20
  PROVE  Cents(amount) = 10 * k
<1>1. PICK j \in Nat : /\ Cents(amount) = 10 * j
                       /\ 20 * j \leq 2 * amount + 10 /\ 2 * amount + 10 < 20 * j + 20
  BY CentsFit
<1>2. j = k
  BY <1>1
<1> QED
  BY <1>1, <1>2

LEMMA CentsType == \A amount \in Nat : Cents(amount) \in Nat
<1> SUFFICES ASSUME NEW amount \in Nat  PROVE Cents(amount) \in Nat
  OBVIOUS
<1>1. PICK k \in Nat : Cents(amount) = 10 * k
  BY CentsFit
<1> QED
  BY <1>1

\* What is rounded stays in order.
LEMMA CentsGrow ==
  ASSUME NEW a \in Nat, NEW b \in Nat, a \leq b
  PROVE  Cents(a) \leq Cents(b)
<1>1. PICK j \in Nat : Cents(a) = 10 * j /\ 20 * j \leq 2 * a + 10
  BY CentsFit
<1>2. PICK k \in Nat : Cents(b) = 10 * k /\ 2 * b + 10 < 20 * k + 20
  BY CentsFit
<1> QED
  BY <1>1, <1>2

\* A price, its discount and its total, as they are stored.
AddsUp(base, discount) == Cents(Total(base, discount)) + Cents(discount) = Cents(base)

\* A discount of whole cents is taken off the stored price, if it is no more
\* than that: also when it is more than the price itself.
LEMMA WholeCentsAddUp ==
  ASSUME NEW base \in Nat, NEW k \in Nat, 10 * k \leq Cents(base)
  PROVE  AddsUp(base, 10 * k)
<1>1. PICK n \in Nat : /\ Cents(base) = 10 * n
                       /\ 20 * n \leq 2 * base + 10 /\ 2 * base + 10 < 20 * n + 20
  BY CentsFit
<1>2. 10 * k \in Nat /\ Cents(10 * k) = 10 * k
  BY CentsIs
<1>3. CASE 10 * k > base
  <2>1. k = n
    BY <1>1, <1>3
  <2>2. Total(base, 10 * k) = 0 /\ Cents(0) = 0
    BY <1>3, CentsIs DEF Total
  <2> QED
    BY <1>1, <1>2, <2>1, <2>2 DEF AddsUp
<1>4. CASE 10 * k \leq base
  <2>1. Total(base, 10 * k) = base - 10 * k /\ base - 10 * k \in Nat /\ n - k \in Nat
    BY <1>1, <1>4 DEF Total
  <2>2. /\ 20 * (n - k) \leq 2 * (base - 10 * k) + 10
        /\ 2 * (base - 10 * k) + 10 < 20 * (n - k) + 20
    BY <1>1
  <2>3. Cents(base - 10 * k) = 10 * (n - k)
    BY <2>1, <2>2, CentsIs
  <2> QED
    BY <1>1, <1>2, <2>1, <2>3 DEF AddsUp
<1> QED
  BY <1>2, <1>3, <1>4

LEMMA CostType ==
  ASSUME NEW distance \in Nat
  PROVE  CalculateCost(distance) \in Nat
<1>1. distance * PerKm \in Nat /\ BaseFare \in Nat /\ MinFare \in Nat
  BY FaresAssumption
<1> QED
  BY <1>1, CentsType DEF CalculateCost

LEMMA TermsType ==
  ASSUME NEW t \in Terms
  PROVE  /\ t.type \in DiscountTypes /\ t.amount \in Nat /\ t.maxUses \in Nat
         /\ t.expiresAt \in 0 .. MaxTime \cup {Null} /\ t.active \in BOOLEAN
         /\ t.type = "percent" => t.amount \leq 10000
         /\ t.type = "fixed" => t.amount % 10 = 0
BY PromoAssumption DEF ValidTerms

\* Every discount adds up with its total.
LEMMA DiscountsAddUp ==
  ASSUME NEW t \in Terms, NEW base \in Nat, NEW delivery \in Nat, delivery \leq base
  PROVE  /\ Discount(t, base, delivery) \in Nat
         /\ AddsUp(base, Discount(t, base, delivery))
<1>1. CASE t.type = "fixed" /\ t.amount > base
  <2>1. Discount(t, base, delivery) = base
    BY <1>1 DEF Discount
  <2>2. Total(base, base) = 0 /\ Cents(0) = 0 /\ Cents(base) \in Nat
    BY CentsIs, CentsType DEF Total
  <2> QED
    BY <2>1, <2>2 DEF AddsUp
<1>2. CASE t.type = "fixed" /\ ~(t.amount > base)
  <2>1. t.amount \in Nat /\ t.amount % 10 = 0
    BY <1>2, TermsType
  <2>2. Discount(t, base, delivery) = Cents(t.amount)
    BY <1>2 DEF Discount
  <2>3. PICK k \in Nat : Cents(t.amount) = 10 * k
    BY <2>1, CentsFit
  <2>4. Cents(t.amount) \leq Cents(base)
    BY <1>2, <2>1, CentsGrow
  <2> QED
    BY <2>2, <2>3, <2>4, WholeCentsAddUp
<1>3. CASE t.type = "percent"
  <2> DEFINE a == base * t.amount
             q == Rounded(a, 100000)
  <2>1. t.amount \in Nat /\ t.amount \leq 10000
    BY <1>3, TermsType
  <2>2. a \in Nat /\ a \leq base * 10000
    BY <2>1
  <2>3. q \in Nat /\ 200000 * q \leq 2 * a + 100000
    BY <2>2 DEF Rounded
  <2>4. Discount(t, base, delivery) = 10 * q
    BY <1>3 DEF Discount
  <2> HIDE DEF a, q
  <2>5. 20 * q \leq 2 * base + 10
    BY <2>2, <2>3
  <2>6. PICK n \in Nat : Cents(base) = 10 * n /\ 2 * base + 10 < 20 * n + 20
    BY CentsFit
  <2>7. 10 * q \leq Cents(base)
    BY <2>3, <2>5, <2>6
  <2> QED
    BY <2>3, <2>4, <2>7, WholeCentsAddUp
<1>4. CASE t.type = "free_delivery"
  <2>1. Discount(t, base, delivery) = Cents(delivery)
    BY <1>4 DEF Discount
  <2>2. PICK k \in Nat : Cents(delivery) = 10 * k
    BY CentsFit
  <2>3. Cents(delivery) \leq Cents(base)
    BY CentsGrow
  <2> QED
    BY <2>1, <2>2, <2>3, WholeCentsAddUp
<1> QED
  BY <1>1, <1>2, <1>3, <1>4, TermsType DEF DiscountTypes

LEMMA BasketType ==
  ASSUME NEW b \in Baskets
  PROVE  /\ b.items \in Nat /\ CalculateCost(b.distance) \in Nat
         /\ b.items + CalculateCost(b.distance) \in Nat
         /\ CalculateCost(b.distance) \leq b.items + CalculateCost(b.distance)
<1>1. b.items \in Nat /\ b.distance \in Nat
  BY PromoAssumption
<1> QED
  BY <1>1, CostType

------------------------------------------------------------------------------

\* A row that exists has terms, new terms and more uses can be written to it.
LEMMA ExistingPromo ==
  ASSUME NEW p \in PromoRow, p.exists
  PROVE  /\ p.terms \in Terms /\ p.used \in Nat /\ p.exists = TRUE
         /\ \A terms \in Terms : /\ [p EXCEPT !.terms = terms] \in PromoRow
                                 /\ [p EXCEPT !.terms = terms].exists
                                 /\ [p EXCEPT !.terms = terms].used = p.used
         /\ [p EXCEPT !.used = @ + 1] \in PromoRow
         /\ [p EXCEPT !.used = @ + 1].exists
         /\ [p EXCEPT !.used = @ + 1].used = p.used + 1
<1>1. p # NoPromo
  BY DEF NoPromo
<1>2. p \in [exists : {TRUE}, terms : Terms, used : Nat]
  BY <1>1 DEF PromoRow
<1>3. ASSUME NEW terms \in Terms
      PROVE  /\ [p EXCEPT !.terms = terms] \in [exists : {TRUE}, terms : Terms, used : Nat]
             /\ [p EXCEPT !.terms = terms].used = p.used
  BY <1>2
<1>4. ASSUME NEW n \in Nat
      PROVE  /\ [p EXCEPT !.used = n] \in [exists : {TRUE}, terms : Terms, used : Nat]
             /\ [p EXCEPT !.used = n].used = n
  BY <1>2
<1>5. ASSUME NEW q \in [exists : {TRUE}, terms : Terms, used : Nat]
      PROVE  /\ q \in PromoRow /\ q.exists = TRUE /\ q.terms \in Terms /\ q.used \in Nat
  BY DEF PromoRow
<1>6. p.used + 1 \in Nat
  BY <1>2
<1> QED
  BY <1>2, <1>3, <1>4, <1>5, <1>6

LEMMA TypeStep == TypeOK /\ [Next]_vars => TypeOK'
<1> SUFFICES ASSUME TypeOK, [Next]_vars PROVE TypeOK'
  OBVIOUS
<1> USE DEF TypeOK
<1>0. /\ Null \notin Codes
      /\ Idle \in [at : {"idle", "priced"}, code : Codes \cup {Null}, base : Nat,
                   delivery : Nat, discount : Nat, checkedAt : 0 .. MaxTime]
  BY PromoAssumption DEF Idle
<1>1. ASSUME NEW c \in Codes, NEW terms \in Terms, CreatePromoCode(c, terms)  PROVE TypeOK'
  <2>0. [exists |-> TRUE, terms |-> terms, used |-> 0] \in PromoRow /\ Len(orders) \in Nat
    BY DEF PromoRow
  <2>1. promos' \in [Codes -> PromoRow] /\ born' \in [Codes -> Nat]
    BY <1>1, <2>0 DEF CreatePromoCode
  <2>2. ASSUME NEW d \in Codes, promos[d].exists  PROVE promos'[d].exists
    BY <1>1, <2>2 DEF CreatePromoCode
  <2> QED
    BY <1>1, <2>1, <2>2 DEF CreatePromoCode
<1>2. ASSUME NEW c \in Codes, NEW terms \in Terms, UpdatePromoCode(c, terms)  PROVE TypeOK'
  <2>1. promos[c] \in PromoRow /\ promos[c].exists
    BY <1>2 DEF UpdatePromoCode
  <2>2. promos' \in [Codes -> PromoRow]
    BY <1>2, <2>1, ExistingPromo DEF UpdatePromoCode
  <2>3. ASSUME NEW d \in Codes, promos[d].exists  PROVE promos'[d].exists
    <3>1. [promos[c] EXCEPT !.terms = terms].exists
      BY <2>1, ExistingPromo
    <3> QED
      BY <1>2, <2>3, <3>1 DEF UpdatePromoCode
  <2> QED
    BY <1>2, <2>2, <2>3 DEF UpdatePromoCode
<1>3. ASSUME NEW c \in Codes, DeletePromoCode(c)  PROVE TypeOK'
  <2>1. promos' \in [Codes -> PromoRow]
    BY <1>3 DEF DeletePromoCode, PromoRow
  <2>2. ASSUME NEW s \in Sessions, tx[s].code # Null  PROVE promos'[tx[s].code].exists
    <3>1. tx[s].at = "priced" /\ tx[s].code \in Codes
      BY <2>2
    <3>2. tx[s].code # c
      BY <1>3, <3>1 DEF DeletePromoCode, IsLocked
    <3> QED
      BY <1>3, <2>2, <3>1, <3>2 DEF DeletePromoCode
  <2> QED
    BY <1>3, <2>1, <2>2 DEF DeletePromoCode
<1>4. ASSUME NEW s \in Sessions, NEW basket \in Baskets, NEW code \in Codes \cup {Null},
             BeginOrder(s, basket, code)
      PROVE  TypeOK'
  <2> DEFINE delivery == CalculateCost(basket.distance)
             base == basket.items + delivery
             discount == IF code = Null THEN 0
                         ELSE Discount(promos[code].terms, base, delivery)
             t == [at |-> "priced", code |-> code, base |-> base, delivery |-> delivery,
                   discount |-> discount, checkedAt |-> now]
  <2>1. delivery \in Nat /\ base \in Nat /\ delivery \leq base
    BY BasketType
  <2>2. code # Null => code \in Codes /\ promos[code].exists /\ promos[code].terms \in Terms
    BY <1>4, <1>0, ExistingPromo DEF BeginOrder, IsUsable
  <2>3. discount \in Nat
    BY <2>1, <2>2, DiscountsAddUp
  <2>4. tx' = [tx EXCEPT ![s] = t] /\ UNCHANGED <<promos, orders, now, born>>
    BY <1>4 DEF BeginOrder
  <2> HIDE DEF delivery, base, discount
  <2> QED
    BY <2>1, <2>2, <2>3, <2>4
<1>5. ASSUME NEW s \in Sessions, CommitOrder(s)  PROVE TypeOK'
  <2> DEFINE t == tx[s]
  <2>1. Row(t) \in OrderRow
    <3>1. t.base \in Nat /\ t.discount \in Nat /\ Total(t.base, t.discount) \in Nat
      BY DEF Total
    <3> QED
      BY <3>1, CentsType DEF OrderRow, Row
  <2>2. orders' \in Seq(OrderRow)
    BY <1>5, <2>1 DEF CommitOrder
  <2>3. ASSUME NEW c \in Codes
        PROVE  promos'[c] \in PromoRow /\ promos'[c].exists = promos[c].exists
    <3>1. CASE c = t.code
      <4>1. promos[c] \in PromoRow /\ promos[c].exists
        BY <1>0, <3>1
      <4>2. promos'[c] = [promos[c] EXCEPT !.used = @ + 1]
        BY <1>5, <3>1 DEF CommitOrder
      <4> QED
        BY <4>1, <4>2, ExistingPromo
    <3>2. CASE c # t.code
      BY <1>5, <3>2 DEF CommitOrder
    <3> QED
      BY <3>1, <3>2
  <2>4. promos' = [c \in Codes |-> promos'[c]]
    BY <1>5 DEF CommitOrder
  <2>5. promos' \in [Codes -> PromoRow]
    BY <2>3, <2>4
  <2>6. tx' = [tx EXCEPT ![s] = Idle] /\ UNCHANGED <<now, born>>
    BY <1>5 DEF CommitOrder
  <2> QED
    BY <1>0, <2>2, <2>3, <2>5, <2>6 DEF Idle
<1>6. ASSUME NEW s \in Sessions, Abort(s)  PROVE TypeOK'
  BY <1>6, <1>0 DEF Abort, Idle
<1>7. CASE Tick
  BY <1>7, PromoAssumption DEF Tick
<1>8. CASE UNCHANGED vars
  BY <1>8 DEF vars
<1> QED
  BY <1>1, <1>2, <1>3, <1>4, <1>5, <1>6, <1>7, <1>8 DEF Next

\* The tables and the transactions keep their types.
THEOREM TypeCorrect == Spec => []TypeOK
<1>1. Init => TypeOK
  BY PromoAssumption DEF Init, TypeOK, PromoRow, NoPromo, Idle
<1> QED
  BY <1>1, TypeStep, PTL DEF Spec

------------------------------------------------------------------------------
(* What is checked under the lock of a code holds until COMMIT             *)

LocksExclude ==
  \A s, t \in Sessions : s # t /\ tx[s].code # Null => tx[s].code # tx[t].code

CheckedTermsHold == \A s \in Sessions : tx[s].code # Null => TermsHold(s)

\* A transaction keeps what it has checked if nobody writes its code.
LEMMA UntouchedTermsHold ==
  ASSUME NEW s \in Sessions, TermsHold(s), tx'[s] = tx[s],
         promos'[tx[s].code] = promos[tx[s].code]
  PROVE  TermsHold(s)'
BY DEF TermsHold

LEMMA TermsStep ==
  TypeOK /\ LocksExclude /\ CheckedTermsHold /\ [Next]_vars
    => LocksExclude' /\ CheckedTermsHold'
<1> SUFFICES ASSUME TypeOK, LocksExclude, CheckedTermsHold, [Next]_vars
             PROVE  LocksExclude' /\ CheckedTermsHold'
  OBVIOUS
<1>0. ASSUME NEW s \in Sessions, tx[s].code # Null
      PROVE  tx[s].code \in Codes /\ tx[s].at = "priced" /\ promos[tx[s].code].exists
  BY <1>0 DEF TypeOK
<1>1. CASE /\ tx' = tx
           /\ \A s \in Sessions : tx[s].code # Null => promos'[tx[s].code] = promos[tx[s].code]
  BY <1>1, UntouchedTermsHold DEF LocksExclude, CheckedTermsHold
<1>2. ASSUME NEW c \in Codes, NEW terms \in Terms, CreatePromoCode(c, terms)
      PROVE  LocksExclude' /\ CheckedTermsHold'
  <2>1. ASSUME NEW s \in Sessions, tx[s].code # Null
        PROVE  promos'[tx[s].code] = promos[tx[s].code]
    BY <1>0, <1>2, <2>1 DEF CreatePromoCode, TypeOK
  <2> QED
    BY <1>1, <1>2, <2>1 DEF CreatePromoCode
<1>3. ASSUME NEW c \in Codes, NEW terms \in Terms, UpdatePromoCode(c, terms)
      PROVE  LocksExclude' /\ CheckedTermsHold'
  <2>1. ASSUME NEW s \in Sessions, tx[s].code # Null
        PROVE  promos'[tx[s].code] = promos[tx[s].code]
    BY <1>0, <1>3, <2>1 DEF UpdatePromoCode, IsLocked, TypeOK
  <2> QED
    BY <1>1, <1>3, <2>1 DEF UpdatePromoCode
<1>4. ASSUME NEW c \in Codes, DeletePromoCode(c)  PROVE LocksExclude' /\ CheckedTermsHold'
  <2>1. ASSUME NEW s \in Sessions, tx[s].code # Null
        PROVE  promos'[tx[s].code] = promos[tx[s].code]
    BY <1>0, <1>4, <2>1 DEF DeletePromoCode, IsLocked, TypeOK
  <2> QED
    BY <1>1, <1>4, <2>1 DEF DeletePromoCode
<1>5. ASSUME NEW s \in Sessions, NEW basket \in Baskets, NEW code \in Codes \cup {Null},
             BeginOrder(s, basket, code)
      PROVE  LocksExclude' /\ CheckedTermsHold'
  <2>1. /\ tx'[s].code = code /\ tx'[s].checkedAt = now
        /\ code # Null => tx'[s].discount = Discount(promos[code].terms, tx'[s].base,
                                                     tx'[s].delivery)
        /\ code # Null => IsUsable(promos[code]) /\ ~IsLocked(code)
        /\ promos' = promos
        /\ \A u \in Sessions \ {s} : tx'[u] = tx[u]
    BY <1>5 DEF BeginOrder, TypeOK
  <2>2. LocksExclude'
    <3> SUFFICES ASSUME NEW u \in Sessions, NEW t \in Sessions, u # t, tx'[u].code # Null
                 PROVE  tx'[u].code # tx'[t].code
      BY DEF LocksExclude
    <3>1. ASSUME NEW v \in Sessions \ {s}, code # Null  PROVE tx[v].code # code
      BY <1>0, <2>1, <3>1 DEF IsLocked
    <3>2. CASE u = s
      BY <2>1, <3>1, <3>2
    <3>3. CASE t = s
      BY <2>1, <3>1, <3>3
    <3>4. CASE u # s /\ t # s
      BY <2>1, <3>4 DEF LocksExclude
    <3> QED
      BY <3>2, <3>3, <3>4
  <2>3. ASSUME code # Null  PROVE TermsHold(s)'
    BY <2>1, <2>3 DEF TermsHold, IsUsable, TypeOK
  <2>4. ASSUME NEW u \in Sessions \ {s}, tx'[u].code # Null  PROVE TermsHold(u)'
    BY <2>1, <2>4, UntouchedTermsHold DEF CheckedTermsHold
  <2> QED
    BY <2>1, <2>2, <2>3, <2>4 DEF CheckedTermsHold
<1>6. ASSUME NEW s \in Sessions, tx' = [tx EXCEPT ![s] = Idle],
             \A c \in Codes : c # tx[s].code => promos'[c] = promos[c]
      PROVE  LocksExclude' /\ CheckedTermsHold'
  <2>1. tx'[s].code = Null /\ \A u \in Sessions \ {s} : tx'[u] = tx[u]
    BY <1>6 DEF Idle, TypeOK
  <2>2. ASSUME NEW u \in Sessions, tx'[u].code # Null  PROVE TermsHold(u)'
    <3>1. u # s /\ tx'[u] = tx[u] /\ tx[u].code # Null
      BY <2>1, <2>2
    <3>2. tx[u].code \in Codes /\ tx[u].code # tx[s].code
      BY <1>0, <3>1 DEF LocksExclude
    <3> QED
      BY <1>6, <3>1, <3>2, UntouchedTermsHold DEF CheckedTermsHold
  <2>3. LocksExclude'
    BY <2>1 DEF LocksExclude
  <2> QED
    BY <2>2, <2>3 DEF CheckedTermsHold
<1>7. ASSUME NEW s \in Sessions, CommitOrder(s)  PROVE LocksExclude' /\ CheckedTermsHold'
  BY <1>6, <1>7 DEF CommitOrder
<1>8. ASSUME NEW s \in Sessions, Abort(s)  PROVE LocksExclude' /\ CheckedTermsHold'
  BY <1>6, <1>8 DEF Abort
<1>9. CASE Tick \/ UNCHANGED vars
  BY <1>1, <1>9 DEF Tick, vars
<1> QED
  BY <1>2, <1>3, <1>4, <1>5, <1>7, <1>8, <1>9 DEF Next

\* An order is committed with a code only if the code exists, is active and
\* below its limit at that moment, and gives the discount of the order.
THEOREM UsesStayWithinTerms == Spec => UsesAreWithinTerms
<1>1. Init => LocksExclude /\ CheckedTermsHold
  BY DEF Init, Idle, LocksExclude, CheckedTermsHold
<1>2. CheckedTermsHold /\ [Next]_vars =>
        [\A s \in Sessions :
           tx[s].code # Null /\ orders' # orders /\ tx'[s] = Idle => TermsHold(s)]_vars
  BY DEF CheckedTermsHold
<1> QED
  BY <1>1, <1>2, TypeCorrect, TermsStep, PTL DEF Spec, UsesAreWithinTerms

------------------------------------------------------------------------------
(* Prices                                                                  *)

DiscountsFit == \A s \in Sessions : AddsUp(tx[s].base, tx[s].discount)

LEMMA NoDiscountAddsUp ==
  ASSUME NEW base \in Nat
  PROVE  AddsUp(base, 0)
<1>1. Cents(base) \in Nat /\ 10 * 0 = 0
  BY CentsType
<1>2. 10 * 0 \leq Cents(base)
  BY <1>1
<1>3. AddsUp(base, 10 * 0)
  BY <1>2, WholeCentsAddUp
<1> QED
  BY <1>1, <1>3

LEMMA DiscountsStep == TypeOK /\ DiscountsFit /\ [Next]_vars => DiscountsFit'
<1> SUFFICES ASSUME TypeOK, DiscountsFit, [Next]_vars PROVE DiscountsFit'
  OBVIOUS
<1>1. ASSUME NEW s \in Sessions, NEW basket \in Baskets, NEW code \in Codes \cup {Null},
             BeginOrder(s, basket, code)
      PROVE  DiscountsFit'
  <2> DEFINE delivery == CalculateCost(basket.distance)
             base == basket.items + delivery
  <2>1. delivery \in Nat /\ base \in Nat /\ delivery \leq base
    BY BasketType
  <2>2. /\ tx'[s].base = base
        /\ tx'[s].discount = IF code = Null THEN 0
                             ELSE Discount(promos[code].terms, base, delivery)
        /\ \A u \in Sessions \ {s} : tx'[u] = tx[u]
    BY <1>1 DEF BeginOrder, TypeOK
  <2> HIDE DEF delivery, base
  <2>3. code # Null => promos[code].terms \in Terms
    BY <1>1, ExistingPromo DEF BeginOrder, IsUsable, TypeOK
  <2>4. AddsUp(base, IF code = Null THEN 0 ELSE Discount(promos[code].terms, base, delivery))
    BY <2>1, <2>3, NoDiscountAddsUp, DiscountsAddUp
  <2>5. AddsUp(tx'[s].base, tx'[s].discount)
    BY <2>2, <2>4
  <2> QED
    BY <2>2, <2>5 DEF DiscountsFit
<1>2. ASSUME NEW s \in Sessions, tx' = [tx EXCEPT ![s] = Idle]  PROVE DiscountsFit'
  <2>1. /\ tx'[s].base = 0 /\ tx'[s].discount = 0
        /\ \A u \in Sessions \ {s} : tx'[u] = tx[u]
    BY <1>2 DEF Idle, TypeOK
  <2> QED
    BY <2>1, NoDiscountAddsUp DEF DiscountsFit
<1>3. CASE UNCHANGED tx
  BY <1>3 DEF DiscountsFit
<1> QED
  BY <1>1, <1>2, <1>3 DEF Next, vars, CreatePromoCode, UpdatePromoCode, DeletePromoCode,
     CommitOrder, Abort, Tick

\* For all tariffs, baskets and discounts, what is stored of an order adds up:
\* its price and its discount are not negative and make the price it would be
\* stored with without a code.
THEOREM PricesStayRight == Spec => []PricesAddUp
<1>1. Init => DiscountsFit /\ PricesAddUp
  BY NoDiscountAddsUp DEF Init, Idle, DiscountsFit, PricesAddUp
<1>2. TypeOK /\ DiscountsFit /\ PricesAddUp /\ [Next]_vars => PricesAddUp'
  <2> SUFFICES ASSUME TypeOK, DiscountsFit, PricesAddUp, [Next]_vars PROVE PricesAddUp'
    OBVIOUS
  <2>1. ASSUME NEW s \in Sessions, CommitOrder(s)  PROVE PricesAddUp'
    <3> DEFINE new == Row(tx[s])
    <3>1. /\ 0 \leq new.total /\ 0 \leq new.discount
          /\ new.total + new.discount = Cents(new.base)
      <4>1. /\ tx[s].base \in Nat /\ tx[s].discount \in Nat
            /\ Total(tx[s].base, tx[s].discount) \in Nat
        BY DEF TypeOK, Total
      <4>2. /\ Cents(tx[s].discount) \in Nat
            /\ Cents(Total(tx[s].base, tx[s].discount)) \in Nat
        BY <4>1, CentsType
      <4>3. AddsUp(tx[s].base, tx[s].discount)
        BY DEF DiscountsFit
      <4> QED
        BY <4>2, <4>3 DEF Row, AddsUp
    <3>2. orders' = Append(orders, new) /\ orders \in Seq(OrderRow)
      BY <2>1 DEF CommitOrder, TypeOK
    <3> HIDE DEF new
    <3>3. /\ Len(orders) \in Nat /\ Len(orders') = Len(orders) + 1
          /\ orders'[Len(orders) + 1] = new
          /\ \A i \in 1 .. Len(orders) : orders'[i] = orders[i]
      BY <3>2
    <3>4. ASSUME NEW i \in 1 .. Len(orders')
          PROVE  orders'[i] = new \/ (i \in 1 .. Len(orders) /\ orders'[i] = orders[i])
      BY <3>3
    <3> QED
      BY <3>1, <3>4 DEF PricesAddUp
  <2>2. CASE UNCHANGED orders
    BY <2>2 DEF PricesAddUp
  <2> QED
    BY <2>1, <2>2 DEF Next, vars, CreatePromoCode, UpdatePromoCode, DeletePromoCode,
       BeginOrder, Abort, Tick
<1> QED
  BY <1>1, <1>2, TypeCorrect, DiscountsStep, PTL DEF Spec

------------------------------------------------------------------------------
(* Counting the uses                                                       *)

BornEarlier == \A c \in Codes : born[c] \leq Len(orders)

LEMMA BornStep == TypeOK /\ BornEarlier /\ [Next]_vars => BornEarlier'
<1> SUFFICES ASSUME TypeOK, BornEarlier, [Next]_vars PROVE BornEarlier'
  OBVIOUS
<1>1. Len(orders) \in Nat /\ \A c \in Codes : born[c] \in Nat
  BY DEF TypeOK
<1>2. ASSUME NEW c \in Codes, NEW terms \in Terms, CreatePromoCode(c, terms)
      PROVE  BornEarlier'
  BY <1>1, <1>2 DEF CreatePromoCode, BornEarlier, TypeOK
<1>3. ASSUME NEW s \in Sessions, CommitOrder(s)  PROVE BornEarlier'
  <2>1. Len(orders') = Len(orders) + 1
    BY <1>3 DEF CommitOrder, TypeOK
  <2>2. born' = born
    BY <1>3 DEF CommitOrder
  <2> QED
    BY <1>1, <2>1, <2>2 DEF BornEarlier
<1>4. CASE UNCHANGED <<orders, born>>
  BY <1>4 DEF BornEarlier
<1> QED
  BY <1>2, <1>3, <1>4 DEF Next, vars, UpdatePromoCode, DeletePromoCode, BeginOrder, Abort, Tick

LEMMA UsesAreFinite ==
  ASSUME TypeOK, NEW c \in Codes
  PROVE  IsFiniteSet(UsesOf(c)) /\ Cardinality(UsesOf(c)) \in Nat
<1>1. IsFiniteSet((born[c] + 1) .. Len(orders))
  BY FS_Interval DEF TypeOK
<1> QED
  BY <1>1, FS_Subset, FS_CardinalityType DEF UsesOf

\* The uses of the codes when an order is appended.
LEMMA UsesGrow ==
  ASSUME TypeOK, BornEarlier, NEW order, orders' = Append(orders, order), born' = born,
         NEW c \in Codes
  PROVE  UsesOf(c)' = IF order.promo = c THEN UsesOf(c) \cup {Len(orders) + 1} ELSE UsesOf(c)
<1> DEFINE n == Len(orders)
<1>1. /\ n \in Nat /\ born[c] \in Nat /\ born[c] \leq n
      /\ Len(orders') = n + 1 /\ orders'[n + 1] = order
      /\ \A i \in 1 .. n : orders'[i] = orders[i]
  BY DEF TypeOK, BornEarlier
<1> HIDE DEF n
<1>2. (born[c] + 1) .. (n + 1) = ((born[c] + 1) .. n) \cup {n + 1}
  BY <1>1
<1>3. \A i \in (born[c] + 1) .. n : orders'[i] = orders[i]
  BY <1>1
<1>4. UsesOf(c)' = {i \in (born[c] + 1) .. (n + 1) : orders'[i].promo = c}
  BY <1>1 DEF UsesOf
<1>5. UsesOf(c) = {i \in (born[c] + 1) .. n : orders[i].promo = c}
  BY DEF UsesOf, n
<1> QED
  BY <1>1, <1>2, <1>3, <1>4, <1>5 DEF n

\* used_count is the number of the orders committed with the code since it
\* was created, for any number of codes, sessions and orders.
THEOREM UsesStayOrders == Spec => []UsesAreOrders
<1>1. Init => BornEarlier /\ UsesAreOrders
  BY DEF Init, NoPromo, BornEarlier, UsesAreOrders
<1>2. TypeOK /\ BornEarlier /\ UsesAreOrders /\ [Next]_vars => UsesAreOrders'
  <2> SUFFICES ASSUME TypeOK, BornEarlier, UsesAreOrders, [Next]_vars,
                      NEW c \in Codes, promos'[c].exists
               PROVE  promos'[c].used = Cardinality(UsesOf(c)')
    BY DEF UsesAreOrders, UsesOf
  <2> DEFINE Goal == promos'[c].used = Cardinality(UsesOf(c)')
  <2>0. CASE UNCHANGED <<orders, born>> /\ promos'[c].used = promos[c].used /\ promos[c].exists
    BY <2>0 DEF UsesAreOrders, UsesOf
  <2>1. ASSUME NEW d \in Codes, NEW terms \in Terms, CreatePromoCode(d, terms)  PROVE Goal
    <3>1. CASE c = d
      <4>1. promos'[c].used = 0 /\ born'[c] = Len(orders) /\ orders' = orders
        BY <2>1, <3>1 DEF CreatePromoCode, TypeOK
      <4>2. UsesOf(c)' = {}
        BY <4>1 DEF UsesOf, TypeOK
      <4> QED
        BY <4>1, <4>2, FS_EmptySet
    <3>2. CASE c # d
      <4>1. promos'[c] = promos[c] /\ born'[c] = born[c] /\ orders' = orders
        BY <2>1, <3>2 DEF CreatePromoCode, TypeOK
      <4>2. UsesOf(c)' = UsesOf(c)
        BY <4>1 DEF UsesOf
      <4> QED
        BY <4>1, <4>2 DEF UsesAreOrders
    <3> QED
      BY <3>1, <3>2
  <2>2. ASSUME NEW d \in Codes, NEW terms \in Terms, UpdatePromoCode(d, terms)  PROVE Goal
    <3>1. promos'[c].used = promos[c].used /\ promos[c].exists
      BY <2>2, ExistingPromo DEF UpdatePromoCode, TypeOK
    <3> QED
      BY <2>0, <2>2, <3>1 DEF UpdatePromoCode
  <2>3. ASSUME NEW d \in Codes, DeletePromoCode(d)  PROVE Goal
    <3>1. promos'[c] = promos[c]
      BY <2>3 DEF DeletePromoCode, NoPromo, TypeOK
    <3> QED
      BY <2>0, <2>3, <3>1 DEF DeletePromoCode
  <2>4. ASSUME NEW s \in Sessions, CommitOrder(s)  PROVE Goal
    <3> DEFINE order == Row(tx[s])
    <3>1. orders' = Append(orders, order) /\ born' = born /\ order.promo = tx[s].code
      BY <2>4 DEF CommitOrder, Row
    <3> HIDE DEF order
    <3>2. UsesOf(c)' = IF tx[s].code = c THEN UsesOf(c) \cup {Len(orders) + 1} ELSE UsesOf(c)
      BY <3>1, UsesGrow
    <3>3. CASE tx[s].code = c
      <4>1. promos[c] \in PromoRow /\ promos[c].exists
        BY <3>3, PromoAssumption DEF TypeOK
      <4>2. promos'[c].used = promos[c].used + 1
        BY <2>4, <3>3, <4>1, ExistingPromo DEF CommitOrder
      <4>3. Len(orders) + 1 \notin UsesOf(c)
        BY DEF UsesOf, TypeOK
      <4>4. Cardinality(UsesOf(c)') = Cardinality(UsesOf(c)) + 1
        BY <3>2, <3>3, <4>3, UsesAreFinite, FS_AddElement
      <4> QED
        BY <4>1, <4>2, <4>4 DEF UsesAreOrders
    <3>4. CASE tx[s].code # c
      <4>1. promos'[c] = promos[c]
        BY <2>4, <3>4 DEF CommitOrder
      <4> QED
        BY <3>2, <3>4, <4>1 DEF UsesAreOrders
    <3> QED
      BY <3>3, <3>4
  <2>5. ASSUME UNCHANGED <<promos, orders, born>>  PROVE Goal
    BY <2>0, <2>5
  <2> HIDE DEF Goal
  <2>6. Goal
    BY <2>1, <2>2, <2>3, <2>4, <2>5 DEF Next, vars, BeginOrder, Abort, Tick
  <2> QED
    BY <2>6 DEF Goal
<1> QED
  BY <1>1, <1>2, TypeCorrect, BornStep, PTL DEF Spec
===============================================================================
