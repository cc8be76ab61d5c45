------------------------------ MODULE PromoCodes ------------------------------
(***************************************************************************)
(* Promo codes and the orders that use them.  CreateOrder is a transaction *)
(* that locks the row of the code, checks it, counts the use and inserts   *)
(* the order; administrators create, change and delete codes meanwhile,    *)
(* each with one statement that waits for the lock of the row.             *)
(***************************************************************************)
EXTENDS Pricing, Sequences, FiniteSets

CONSTANTS Codes,      \* promo codes
          Terms,      \* terms the administrators give a code
          Baskets,    \* [items, distance]: what customers order
          Sessions,   \* database sessions that create orders
          Null,       \* no promo code, no time of expiry
          MaxTime,    \* bound: the clock stops
          MaxOrders   \* bound: no order is begun when so many exist

\* maxUses = 0 stands for no limit.
ASSUME PromoAssumption ==
  /\ \A t \in Terms :
       /\ t \in [type : DiscountTypes, amount : Nat, maxUses : Nat,
                 expiresAt : 0 .. MaxTime \cup {Null}, active : BOOLEAN]
       /\ ValidTerms(t)
  /\ Baskets \subseteq [items : Nat, distance : Nat]
  /\ MaxTime \in Nat /\ Null \notin Codes \cup Nat

VARIABLES promos,   \* the table promo_codes
          orders,   \* the rows of the committed orders, with a history
                    \* field: base, the price of items and delivery
          tx,       \* the transaction of each session
          now,      \* time.Now()
          born      \* history variable: how many orders there were when the
                    \* row of the code was inserted

vars == <<promos, orders, tx, now, born>>

NoPromo == [exists |-> FALSE, terms |-> Null, used |-> 0]

Idle == [at |-> "idle", code |-> Null, base |-> 0, delivery |-> 0,
         discount |-> 0, checkedAt |-> 0]

Init ==
  /\ promos = [c \in Codes |-> NoPromo]
  /\ orders = <<>>
  /\ tx = [s \in Sessions |-> Idle]
  /\ now = 0
  /\ born = [c \in Codes |-> 0]

\* Mutant of IsLocked: ApplyPromoWithTx reads the code without FOR UPDATE.
IsNeverLocked(c) == FALSE

\* A transaction has selected the row of the code FOR UPDATE.
IsLocked(c) == \E s \in Sessions : tx[s].at = "priced" /\ tx[s].code = c

\* Mutant of IsUsable: a code may be used once more than its limit says.
IsUsableOnceMore(promo) ==
  /\ promo.exists
  /\ promo.terms.active
  /\ promo.terms.expiresAt # Null => promo.terms.expiresAt \geq now
  /\ promo.terms.maxUses > 0 => promo.used \leq promo.terms.maxUses

IsUsable(promo) ==
  /\ promo.exists
  /\ promo.terms.active
  /\ promo.terms.expiresAt # Null => promo.terms.expiresAt \geq now
  /\ promo.terms.maxUses > 0 => promo.used < promo.terms.maxUses

------------------------------------------------------------------------------

CreatePromoCode(c, terms) ==
  /\ ~promos[c].exists
  /\ promos' = [promos EXCEPT ![c] = [exists |-> TRUE, terms |-> terms, used |-> 0]]
  /\ born' = [born EXCEPT ![c] = Len(orders)]
  /\ UNCHANGED <<orders, tx, now>>

\* The number of uses is kept, whatever the new limit.
UpdatePromoCode(c, terms) ==
  /\ promos[c].exists
  /\ ~IsLocked(c)
  /\ promos' = [promos EXCEPT ![c].terms = terms]
  /\ UNCHANGED <<orders, tx, now, born>>

DeletePromoCode(c) ==
  /\ promos[c].exists
  /\ ~IsLocked(c)
  /\ promos' = [promos EXCEPT ![c] = NoPromo]
  /\ UNCHANGED <<orders, tx, now, born>>

\* CreateOrder up to its INSERT: price the order and, with a code, lock the
\* row of the code and check it.  A code that cannot be used is an error.
BeginOrder(s, basket, code) ==
  LET delivery == CalculateCost(basket.distance)
      base == basket.items + delivery
  IN
  /\ tx[s] = Idle
  /\ Len(orders) < MaxOrders
  /\ code # Null => ~IsLocked(code) /\ IsUsable(promos[code])
  /\ tx' = [tx EXCEPT ![s] =
              [at |-> "priced", code |-> code, base |-> base, delivery |-> delivery,
               discount |-> IF code = Null THEN 0
                            ELSE Discount(promos[code].terms, base, delivery),
               checkedAt |-> now]]
  /\ UNCHANGED <<promos, orders, now, born>>

\* The row of the order: its amounts are columns of type DECIMAL(10,2), which
\* keep whole cents.
Row(t) ==
  [promo |-> t.code, base |-> t.base, discount |-> Cents(t.discount),
   total |-> Cents(Total(t.base, t.discount))]

\* Mutant of CommitOrder: the use is counted by a statement that is lost.
CommitOrderOnly(s) ==
  LET t == tx[s] IN
  /\ t.at = "priced"
  /\ orders' = Append(orders, Row(t))
  /\ tx' = [tx EXCEPT ![s] = Idle]
  /\ UNCHANGED <<promos, now, born>>

\* UPDATE promo_codes SET used_count = used_count + 1, the INSERTs, COMMIT.
CommitOrder(s) ==
  LET t == tx[s] IN
  /\ t.at = "priced"
  /\ orders' = Append(orders, Row(t))
  /\ promos' = [c \in Codes |-> IF c = t.code
                                THEN [promos[c] EXCEPT !.used = @ + 1] ELSE promos[c]]
  /\ tx' = [tx EXCEPT ![s] = Idle]
  /\ UNCHANGED <<now, born>>

\* A statement fails, the client hangs up, the server or connection dies.
Abort(s) ==
  /\ tx[s].at = "priced"
  /\ tx' = [tx EXCEPT ![s] = Idle]
  /\ UNCHANGED <<promos, orders, now, born>>

Tick ==
  /\ now < MaxTime
  /\ now' = now + 1
  /\ UNCHANGED <<promos, orders, tx, born>>

Next ==
  \/ \E c \in Codes, terms \in Terms : CreatePromoCode(c, terms)
  \/ \E c \in Codes, terms \in Terms : UpdatePromoCode(c, terms)
  \/ \E c \in Codes : DeletePromoCode(c)
  \/ \E s \in Sessions, basket \in Baskets, code \in Codes \cup {Null} :
       BeginOrder(s, basket, code)
  \/ \E s \in Sessions : CommitOrder(s) \/ Abort(s)
  \/ Tick

Spec == Init /\ [][Next]_vars

------------------------------------------------------------------------------

PromoRow == [exists : {TRUE}, terms : Terms, used : Nat] \cup {NoPromo}

OrderRow == [promo : Codes \cup {Null}, base : Nat, discount : Nat, total : Nat]

\* The rows have their types, and a transaction that uses a code found it.
TypeOK ==
  /\ promos \in [Codes -> PromoRow]
  /\ orders \in Seq(OrderRow)
  /\ now \in 0 .. MaxTime
  /\ born \in [Codes -> Nat]
  /\ tx \in [Sessions -> [at : {"idle", "priced"}, code : Codes \cup {Null}, base : Nat,
                          delivery : Nat, discount : Nat, checkedAt : 0 .. MaxTime]]
  /\ \A s \in Sessions :
       /\ tx[s].at = "idle" => tx[s].code = Null
       /\ tx[s].code # Null => promos[tx[s].code].exists

\* The orders that used the code since its row was inserted.
UsesOf(c) == {i \in (born[c] + 1) .. Len(orders) : orders[i].promo = c}

\* used_count is the number of orders committed with the code since it was
\* created: uses and orders are committed together, none is lost or counted
\* for an order that was rolled back.
UsesAreOrders == \A c \in Codes : promos[c].exists => promos[c].used = Cardinality(UsesOf(c))

\* What a transaction has checked under the lock of the code still holds: the
\* code exists, is active and not used up, had not expired, and its terms
\* give the discount that was computed.
TermsHold(s) ==
  LET t == tx[s]
      promo == promos[t.code]
  IN
  /\ promo.exists
  /\ promo.terms.active
  /\ promo.terms.maxUses > 0 => promo.used < promo.terms.maxUses
  /\ promo.terms.expiresAt # Null => t.checkedAt \leq promo.terms.expiresAt
  /\ t.discount = Discount(promo.terms, t.base, t.delivery)

\* Nobody deletes, changes or uses up a code between the SELECT of
\* ApplyPromoWithTx and COMMIT: an order is committed with a code only under
\* the terms the code has at that moment.
UsesAreWithinTerms ==
  [][\A s \in Sessions :
       tx[s].code # Null /\ orders' # orders /\ tx'[s] = Idle => TermsHold(s)]_vars

\* Whatever the discount, no order is stored with a negative price, and its
\* price and its discount, each rounded on its own where the code or a column
\* rounds, add up to the cent to the price it would be stored with without a
\* code.
PricesAddUp ==
  \A i \in 1 .. Len(orders) :
    LET o == orders[i] IN
    /\ 0 \leq o.total /\ 0 \leq o.discount
    /\ o.total + o.discount = Cents(o.base)
==============================================================================
