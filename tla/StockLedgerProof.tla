------------------------- MODULE StockLedgerProof -------------------------
(***************************************************************************)
(* The counters never promise more than there is, for any products, orders *)
(* and baskets.  IInv adds to NeverOversold what it rests on: rows have    *)
(* one writer at a time, a transaction stands on its own lines, and what a *)
(* running checkout reserved is still backed when it commits.              *)
(***************************************************************************)
EXTENDS StockLedger, FiniteSetTheorems, TLAPS

\* Only the transaction of o moves in an action of o.
LEMMA BeginFacts ==
  ASSUME IInv, NEW o \in Orders, NEW k \in Kinds, k # "idle", Begin(o, k)
  PROVE  IInv'
<1> USE DEF IInv
<1>1. PICK r \in Lines(basket[o]) : at' = [at EXCEPT ![o] = r]
  BY DEF Begin
<1>2. /\ kind[o] = "idle" /\ done[o] = {} /\ r \in Rows
      /\ kind' = [kind EXCEPT ![o] = k]
      /\ UNCHANGED <<quantity, reserved, stock, sold, fate, basket, held, done>>
  BY DEF Begin, counters, orders, RowsHaveOneWriter, Lines
<1>3. TypeOK'
  BY <1>1, <1>2 DEF TypeOK, Kinds
<1>4. /\ kind'[o] = k /\ at'[o] = r /\ r # Nowhere
      /\ \A q \in Orders \ {o} : kind'[q] = kind[q] /\ at'[q] = at[q]
  BY <1>1, <1>2, StockAssumption DEF TypeOK
<1>5. NeverOversold'
  BY <1>2 DEF NeverOversold
<1>6. RowsHaveOneWriter'
  BY <1>2, <1>4 DEF RowsHaveOneWriter
<1>7. ReservedIsBacked'
  BY <1>2, <1>4 DEF ReservedIsBacked, Available
<1>8. OnItsLines'
  BY <1>1, <1>2, <1>4 DEF OnItsLines, Lines
<1> QED BY <1>3, <1>5, <1>6, <1>7, <1>8

\* A statement writes a row of its line or of the catalogue.
LEMMA TargetTyped ==
  ASSUME TypeOK, NEW o \in Orders, at[o] # Nowhere
  PROVE  Target(o) \in Rows \cup Catalogue
BY StockAssumption DEF TypeOK, Target

\* A statement that ran on a row nobody else has locked: the row joins the
\* transaction's, and no row has two writers.
LEMMA LockFacts ==
  ASSUME IInv, NEW o \in Orders, kind[o] # "idle", at[o] # Nowhere, Free(o), Lock(o)
  PROVE  /\ held' \in [Orders -> SUBSET (Rows \cup Catalogue)]
         /\ held'[o] = held[o] \cup {Target(o)}
         /\ \A q \in Orders \ {o} : held'[q] = held[q]
         /\ \A p, q \in Orders : p # q => held'[p] \cap held'[q] = {}
<1> USE DEF IInv
<1>1. /\ held \in [Orders -> SUBSET (Rows \cup Catalogue)]
      /\ held' = [held EXCEPT ![o] = held[o] \cup {Target(o)}]
      /\ Target(o) \in Rows \cup Catalogue
  BY TargetTyped DEF TypeOK, Lock
<1>2. /\ held' \in [Orders -> SUBSET (Rows \cup Catalogue)]
      /\ held'[o] = held[o] \cup {Target(o)}
      /\ \A q \in Orders \ {o} : held'[q] = held[q]
  BY <1>1
<1>3. \A q \in Orders \ {o} : Target(o) \notin held[q]
  BY DEF Free, WaitsFor
<1>4. \A p, q \in Orders : p # q => held[p] \cap held[q] = {}
  BY DEF RowsHaveOneWriter
<1> QED BY <1>2, <1>3, <1>4

\* The UPDATE of an inventory row that is sold: its line is not through yet.
LEMMA SellLineKeeps ==
  ASSUME IInv, NEW o \in Orders, SellLine(o)
  PROVE  IInv'
<1> USE DEF IInv
<1>1. /\ kind[o] = "sell" /\ at[o] # Nowhere /\ Free(o) /\ Lock(o)
      /\ UNCHANGED <<quantity, reserved, stock, sold, fate, basket, kind, done, at>>
  BY DEF SellLine, counters, orders
<1>2. /\ held' \in [Orders -> SUBSET (Rows \cup Catalogue)]
      /\ held'[o] = held[o] \cup {Target(o)}
      /\ \A q \in Orders \ {o} : held'[q] = held[q]
      /\ \A p, q \in Orders : p # q => held'[p] \cap held'[q] = {}
  BY <1>1, LockFacts
<1>3. TypeOK'
  BY <1>1, <1>2 DEF TypeOK
<1>4. NeverOversold' /\ ReservedIsBacked'
  BY <1>1 DEF NeverOversold, ReservedIsBacked, Available
<1>5. RowsHaveOneWriter'
  BY <1>1, <1>2 DEF RowsHaveOneWriter
<1>6. OnItsLines'
  BY <1>1, <1>2 DEF OnItsLines, Lines
<1> QED BY <1>3, <1>4, <1>5, <1>6

\* The last statement of a line: the line joins those the transaction is through with.
LEMMA AdvanceFacts ==
  ASSUME IInv, NEW o \in Orders, kind[o] # "idle", at[o] # Nowhere, Free(o), Advance(o),
         kind[o] = "sell" => AtCount(o),
         kind[o] = "reserve" => basket[o][at[o]] <= Available(at[o])
  PROVE  IInv'
<1> USE DEF IInv
<1> DEFINE through == done[o] \cup {at[o]}
           left == Lines(basket[o]) \ through
<1>1. PICK r \in IF left = {} THEN {Nowhere} ELSE left : at' = [at EXCEPT ![o] = r]
  BY DEF Advance
<1>2. /\ done' = [done EXCEPT ![o] = through] /\ Lock(o)
      /\ UNCHANGED <<quantity, reserved, stock, sold, fate, basket, kind>>
  BY DEF Advance, counters, orders
<1>3. at[o] \in Rows /\ at[o] \in Lines(basket[o]) /\ through \subseteq Lines(basket[o])
  BY DEF OnItsLines, Lines
<1>4. r \in Rows \cup {Nowhere} /\ through \in SUBSET Rows
  BY <1>3 DEF TypeOK, Lines
<1>5. /\ held' \in [Orders -> SUBSET (Rows \cup Catalogue)]
      /\ held'[o] = held[o] \cup {Target(o)}
      /\ \A q \in Orders \ {o} : held'[q] = held[q]
      /\ \A p, q \in Orders : p # q => held'[p] \cap held'[q] = {}
  BY <1>2, LockFacts
<1>6. TypeOK'
  BY <1>1, <1>2, <1>4, <1>5 DEF TypeOK
<1>7. /\ done'[o] = through /\ at'[o] = r
      /\ \A q \in Orders \ {o} : done'[q] = done[q] /\ at'[q] = at[q]
  BY <1>1, <1>2 DEF TypeOK
<1>8. NeverOversold'
  BY <1>2 DEF NeverOversold
<1>9. RowsHaveOneWriter'
  BY <1>2, <1>5, <1>7 DEF RowsHaveOneWriter
<1>10. ReservedIsBacked'
  <2>1. \A s \in through : kind[o] = "reserve" => basket[o][s] <= Available(s)
    BY DEF ReservedIsBacked
  <2> QED BY <2>1, <1>2, <1>7 DEF ReservedIsBacked, Available
<1>11. OnItsLines'
  <2>1. r = Nowhere => through = Lines(basket[o])
    BY <1>1, <1>3, StockAssumption DEF Lines
  <2>2. r # Nowhere => r \in Lines(basket[o]) \ through
    BY <1>1
  <2>3. (IF kind[o] = "sell" THEN through \cap Products ELSE through) \subseteq held'[o]
    <3>1. CASE kind[o] = "sell"
      BY <3>1, <1>5, StockAssumption DEF AtCount, OnItsLines
    <3>2. CASE kind[o] # "sell"
      BY <3>2, <1>5 DEF Target, AtCount, OnItsLines
    <3> QED BY <3>1, <3>2
  <2> QED BY <2>1, <2>2, <2>3, <1>2, <1>3, <1>5, <1>7 DEF OnItsLines, Lines
<1> QED BY <1>6, <1>8, <1>9, <1>10, <1>11

\* What the end of a transaction does to the other conjuncts, whatever it writes.
LEMMA CloseFacts ==
  ASSUME IInv, NEW o \in Orders, Close(o), UNCHANGED basket
  PROVE  /\ kind' \in [Orders -> Kinds] /\ done' \in [Orders -> SUBSET Rows]
         /\ held' \in [Orders -> SUBSET (Rows \cup Catalogue)]
         /\ at' \in [Orders -> Rows \cup {Nowhere}]
         /\ RowsHaveOneWriter' /\ OnItsLines'
         /\ kind'[o] = "idle"
         /\ \A q \in Orders \ {o} : kind'[q] = kind[q] /\ done'[q] = done[q]
<1> USE DEF IInv
<1>1. /\ kind' = [kind EXCEPT ![o] = "idle"] /\ done' = [done EXCEPT ![o] = {}]
      /\ held' = [held EXCEPT ![o] = {}] /\ at' = [at EXCEPT ![o] = Nowhere]
  BY DEF Close
<1>2. /\ kind' \in [Orders -> Kinds] /\ done' \in [Orders -> SUBSET Rows]
      /\ held' \in [Orders -> SUBSET (Rows \cup Catalogue)]
      /\ at' \in [Orders -> Rows \cup {Nowhere}]
  BY <1>1 DEF TypeOK, Kinds
<1>3. /\ kind'[o] = "idle" /\ held'[o] = {} /\ done'[o] = {} /\ at'[o] = Nowhere
      /\ \A q \in Orders \ {o} : /\ kind'[q] = kind[q] /\ held'[q] = held[q]
                                 /\ done'[q] = done[q] /\ at'[q] = at[q]
  BY <1>1 DEF TypeOK
<1>4. RowsHaveOneWriter'
  BY <1>3 DEF RowsHaveOneWriter
<1>5. OnItsLines'
  BY <1>3 DEF OnItsLines, Lines
<1> QED BY <1>2, <1>3, <1>4, <1>5

\* At its COMMIT a transaction holds the row of every line whose counters it writes: all
\* of them, or a sale's products.
LEMMA HoldsItsRows ==
  ASSUME IInv, NEW o \in Orders, kind[o] # "idle", at[o] = Nowhere,
         NEW r \in Lines(basket[o]), kind[o] = "sell" => r \in Products
  PROVE  r \in held[o]
BY DEF IInv, OnItsLines

\* So it does not write the counters of a row another checkout has reserved.
LEMMA OthersRows ==
  ASSUME IInv, NEW o \in Orders, kind[o] # "idle", at[o] = Nowhere,
         NEW q \in Orders \ {o}, kind[q] = "reserve", NEW r \in done[q]
  PROVE  /\ r \in Rows
         /\ (kind[o] = "sell" => r \in Products) => basket[o][r] = 0
<1>1. r \in Rows /\ r \in held[q]
  BY DEF IInv, OnItsLines, TypeOK
<1>2. r \notin held[o]
  BY <1>1 DEF IInv, RowsHaveOneWriter
<1>3. (kind[o] = "sell" => r \in Products) => r \notin Lines(basket[o])
  BY <1>2, HoldsItsRows
<1>4. basket[o][r] \in Nat
  BY <1>1, StockAssumption DEF IInv, TypeOK
<1> QED BY <1>1, <1>3, <1>4 DEF Lines

\* GREATEST(0, n - k) is a number no larger than n.
LEMMA DropFacts ==
  ASSUME NEW n \in Nat, NEW k \in Nat
  PROVE  Drop(n, k) \in Nat /\ Drop(n, k) <= n /\ (k = 0 => Drop(n, k) = n)
BY DEF Drop

\* A basket counts units of every row.
LEMMA BasketTyped ==
  ASSUME TypeOK, NEW o \in Orders
  PROVE  basket[o] \in [Rows -> Nat]
BY StockAssumption DEF TypeOK

-----------------------------------------------------------------------------
\* A checkout whose last statement has run still fits on every row.
LEMMA BasketFits ==
  ASSUME IInv, NEW o \in Orders, kind[o] = "reserve", at[o] = Nowhere, NEW r \in Rows
  PROVE  basket[o][r] <= Available(r)
<1> USE DEF IInv
<1>1. Available(r) \in Nat
  BY StockAssumption DEF Available, TypeOK, NeverOversold, Rows
<1>2. CASE r \in Lines(basket[o])
  BY <1>2 DEF OnItsLines, ReservedIsBacked
<1>3. CASE r \notin Lines(basket[o])
  <2>1. basket[o][r] = 0
    BY <1>3, BasketTyped DEF Lines
  <2> QED BY <2>1, <1>1
<1> QED BY <1>2, <1>3

\* COMMIT of a checkout: what it reserved was backed, so it still fits.
LEMMA PlaceOrderKeeps ==
  ASSUME IInv, NEW o \in Orders, PlaceOrder(o)
  PROVE  IInv'
<1> USE DEF IInv
<1>1. /\ kind[o] = "reserve" /\ at[o] = Nowhere /\ Close(o)
      /\ reserved' = [p \in Products |-> reserved[p] + basket[o][p]]
      /\ stock' = [v \in Variants |-> stock[v] - basket[o][v]]
      /\ fate' = [fate EXCEPT ![o] = "open"]
      /\ UNCHANGED <<quantity, sold, basket>>
  BY DEF PlaceOrder, Ready
<1>2. basket[o] \in [Rows -> Nat]
  BY BasketTyped
<1>3. \A r \in Rows : basket[o][r] <= Available(r)
  BY <1>1, BasketFits
<1>4. /\ reserved' \in [Products -> Nat] /\ stock' \in [Variants -> Nat]
      /\ fate' \in [Orders -> {"new", "open", "sold", "released"}]
  <2>1. \A v \in Variants : basket[o][v] <= stock[v] /\ basket[o][v] \in Nat
    BY <1>2, <1>3, StockAssumption DEF Available, Rows
  <2>2. \A p \in Products : basket[o][p] \in Nat
    BY <1>2 DEF Rows
  <2> QED BY <1>1, <2>1, <2>2 DEF TypeOK
<1>5. TypeOK'
  BY <1>1, <1>4, CloseFacts DEF TypeOK
<1>6. NeverOversold'
  <2> SUFFICES ASSUME NEW p \in Products PROVE reserved'[p] <= quantity'[p]
    BY DEF NeverOversold
  <2>1. basket[o][p] <= quantity[p] - reserved[p]
    BY <1>3 DEF Available, Rows
  <2>2. basket[o][p] \in Nat /\ quantity[p] \in Nat /\ reserved[p] \in Nat
    BY <1>2 DEF Rows, TypeOK
  <2> QED BY <2>1, <2>2, <1>1
<1>7. ReservedIsBacked'
  <2> SUFFICES ASSUME NEW q \in Orders \ {o}, kind[q] = "reserve", NEW r \in done[q]
               PROVE  basket[q][r] <= Available(r)'
    BY <1>1, CloseFacts DEF ReservedIsBacked
  <2>1. r \in Rows /\ basket[o][r] = 0
    BY <1>1, OthersRows
  <2>2. Available(r)' = Available(r)
    BY <2>1, <1>1 DEF Available, TypeOK, Rows
  <2> QED BY <2>2 DEF ReservedIsBacked
<1> QED BY <1>1, <1>5, <1>6, <1>7, CloseFacts

\* COMMIT of a settlement: both counters drop together.
LEMMA SellKeeps ==
  ASSUME IInv, NEW o \in Orders, Sell(o)
  PROVE  IInv'
<1> USE DEF IInv
<1>1. /\ kind[o] = "sell" /\ at[o] = Nowhere /\ Close(o)
      /\ quantity' = [p \in Products |-> Drop(quantity[p], basket[o][p])]
      /\ reserved' = [p \in Products |-> Drop(reserved[p], basket[o][p])]
      /\ sold' = [r \in Rows |-> sold[r] + basket[o][r]]
      /\ fate' = [fate EXCEPT ![o] = "sold"]
      /\ UNCHANGED <<stock, basket>>
  BY DEF Sell, Ready
<1>2. basket[o] \in [Rows -> Nat]
  BY BasketTyped
<1>3. \A p \in Products : /\ quantity[p] \in Nat /\ reserved[p] \in Nat
                           /\ basket[o][p] \in Nat /\ reserved[p] <= quantity[p]
  BY <1>2 DEF TypeOK, NeverOversold, Rows
<1>4. /\ quantity' \in [Products -> Nat] /\ reserved' \in [Products -> Nat]
      /\ sold' \in [Rows -> Nat]
      /\ fate' \in [Orders -> {"new", "open", "sold", "released"}]
  BY <1>1, <1>2, <1>3, DropFacts DEF TypeOK
<1>5. TypeOK'
  BY <1>1, <1>4, CloseFacts DEF TypeOK
<1>6. NeverOversold'
  BY <1>1, <1>3 DEF NeverOversold, Drop
<1>7. ReservedIsBacked'
  <2> SUFFICES ASSUME NEW q \in Orders \ {o}, kind[q] = "reserve", NEW r \in done[q]
               PROVE  basket[q][r] <= Available(r)'
    BY <1>1, CloseFacts DEF ReservedIsBacked
  <2>1. r \in Rows /\ (r \in Products => basket[o][r] = 0)
    BY <1>1, OthersRows
  <2>2. r \in Products => quantity'[r] = quantity[r] /\ reserved'[r] = reserved[r]
    BY <2>1, <1>1, <1>3, DropFacts
  <2>3. Available(r)' = Available(r)
    BY <2>1, <2>2, <1>1 DEF Available
  <2> QED BY <2>3 DEF ReservedIsBacked
<1> QED BY <1>1, <1>5, <1>6, <1>7, CloseFacts

\* COMMIT of a release: held units become available again.
LEMMA ReleaseKeeps ==
  ASSUME IInv, NEW o \in Orders, Release(o)
  PROVE  IInv'
<1> USE DEF IInv
<1>1. /\ kind[o] = "release" /\ at[o] = Nowhere /\ Close(o)
      /\ reserved' = [p \in Products |-> Drop(reserved[p], basket[o][p])]
      /\ stock' = [v \in Variants |-> stock[v] + basket[o][v]]
      /\ fate' = [fate EXCEPT ![o] = "released"]
      /\ UNCHANGED <<quantity, sold, basket>>
  BY DEF Release, Ready
<1>2. basket[o] \in [Rows -> Nat]
  BY BasketTyped
<1>3. \A p \in Products : /\ quantity[p] \in Nat /\ reserved[p] \in Nat
                           /\ basket[o][p] \in Nat /\ reserved[p] <= quantity[p]
  BY <1>2 DEF TypeOK, NeverOversold, Rows
<1>4. /\ reserved' \in [Products -> Nat] /\ stock' \in [Variants -> Nat]
      /\ fate' \in [Orders -> {"new", "open", "sold", "released"}]
  <2>1. \A v \in Variants : stock[v] \in Nat /\ basket[o][v] \in Nat
    BY <1>2 DEF TypeOK, Rows
  <2>2. stock' \in [Variants -> Nat]
    BY <2>1, <1>1
  <2>3. reserved' \in [Products -> Nat]
    BY <1>1, <1>3, DropFacts
  <2> QED BY <2>2, <2>3, <1>1 DEF TypeOK
<1>5. TypeOK'
  BY <1>1, <1>4, CloseFacts DEF TypeOK
<1>6. NeverOversold'
  BY <1>1, <1>3 DEF NeverOversold, Drop
<1>7. ReservedIsBacked'
  <2> SUFFICES ASSUME NEW q \in Orders \ {o}, kind[q] = "reserve", NEW r \in done[q]
               PROVE  basket[q][r] <= Available(r)'
    BY <1>1, CloseFacts DEF ReservedIsBacked
  <2>1. r \in Rows /\ basket[o][r] = 0
    BY <1>1, OthersRows
  <2>2. r \in Products => reserved'[r] = reserved[r]
    BY <2>1, <1>1, <1>3, DropFacts
  <2>3. r \in Variants => stock'[r] = stock[r]
    BY <2>1, <1>1 DEF TypeOK
  <2>4. Available(r)' = Available(r)
    BY <2>1, <2>2, <2>3, <1>1 DEF Available, Rows
  <2> QED BY <2>4 DEF ReservedIsBacked
<1> QED BY <1>1, <1>5, <1>6, <1>7, CloseFacts

\* A rollback undoes nothing the others could see.
LEMMA RollbackKeeps ==
  ASSUME IInv, NEW o \in Orders, Rollback(o)
  PROVE  IInv'
<1> USE DEF IInv
<1>1. Close(o) /\ UNCHANGED <<quantity, reserved, stock, sold, fate, basket>>
  BY DEF Rollback, counters, orders
<1>2. TypeOK'
  BY <1>1, CloseFacts DEF TypeOK
<1>3. NeverOversold'
  BY <1>1 DEF NeverOversold
<1>4. ReservedIsBacked'
  BY <1>1, CloseFacts DEF ReservedIsBacked, Available
<1> QED BY <1>1, <1>2, <1>3, <1>4, CloseFacts

\* The seller's number: no row of a running checkout, none below what is held.
LEMMA SetStockKeeps ==
  ASSUME IInv, NEW p \in Products, SetStock(p)
  PROVE  IInv'
<1> USE DEF IInv
<1>1. PICK n \in 0..MaxStock : reserved[p] <= n /\ quantity' = [quantity EXCEPT ![p] = n]
  BY DEF SetStock
<1>2. /\ \A o \in Orders : p \notin held[o]
      /\ UNCHANGED <<reserved, stock, sold, fate, basket, kind, held, done, at>>
  BY DEF SetStock, orders, txs
<1>3. TypeOK'
  <2>1. n \in Nat
    BY StockAssumption
  <2> QED BY <2>1, <1>1, <1>2 DEF TypeOK
<1>4. NeverOversold'
  BY <1>1, <1>2 DEF NeverOversold, TypeOK
<1>5. RowsHaveOneWriter' /\ OnItsLines'
  BY <1>2 DEF RowsHaveOneWriter, OnItsLines, Lines
<1>6. ReservedIsBacked'
  <2>1. \A r \in Rows \ {p} : Available(r)' = Available(r)
    BY <1>1, <1>2 DEF Available, TypeOK
  <2>2. \A o \in Orders : kind[o] = "reserve" => done[o] \subseteq Rows \ {p}
    BY <1>2 DEF TypeOK, OnItsLines
  <2> QED BY <2>1, <2>2, <1>2 DEF ReservedIsBacked
<1> QED BY <1>3, <1>4, <1>5, <1>6

-----------------------------------------------------------------------------
\* No transaction runs and nothing is held.
LEMMA InitInv == Init => IInv
<1> SUFFICES ASSUME Init PROVE IInv
  OBVIOUS
<1>1. TypeOK
  BY StockAssumption DEF Init, TypeOK, Kinds
<1>2. NeverOversold /\ RowsHaveOneWriter /\ ReservedIsBacked /\ OnItsLines
  BY StockAssumption DEF Init, NeverOversold, RowsHaveOneWriter, ReservedIsBacked, OnItsLines
<1> QED BY <1>1, <1>2 DEF IInv

\* Every action keeps the invariant.
LEMMA NextInv == IInv /\ [Next]_vars => IInv'
<1> SUFFICES ASSUME IInv, [Next]_vars PROVE IInv'
  OBVIOUS
<1>1. ASSUME NEW o \in Orders, Checkout(o) \/ BeginSale(o) \/ BeginRelease(o)
      PROVE  IInv'
  BY <1>1, BeginFacts DEF Checkout, BeginSale, BeginRelease, Kinds
<1>2. ASSUME NEW o \in Orders, Reserve(o)
      PROVE  IInv'
  <2>1. basket[o][at[o]] <= Available(at[o])
    <3>1. at[o] \in Rows
      BY <1>2 DEF Reserve, IInv, TypeOK
    <3>2. basket[o][at[o]] \in Nat
      BY <3>1, BasketTyped DEF IInv
    <3>3. Available(at[o]) \in Int
      BY <3>1 DEF Available, IInv, TypeOK, Rows
    <3> QED BY <1>2, <3>2, <3>3 DEF Reserve
  <2> QED BY <2>1, <1>2, AdvanceFacts DEF Reserve
<1>3. ASSUME NEW o \in Orders, SellLine(o) \/ CountSale(o) \/ ReleaseLine(o)
      PROVE  IInv'
  <2>1. AtCount(o) => kind[o] = "sell" /\ at[o] # Nowhere
    BY StockAssumption DEF AtCount, IInv, TypeOK, Rows
  <2>2. CASE SellLine(o)
    BY <2>2, SellLineKeeps
  <2>3. CASE CountSale(o)
    BY <2>1, <2>3, AdvanceFacts DEF CountSale
  <2>4. CASE ReleaseLine(o)
    BY <2>4, AdvanceFacts DEF ReleaseLine
  <2> QED BY <1>3, <2>2, <2>3, <2>4
<1>4. ASSUME NEW o \in Orders, Refuse(o) \/ BreakDeadlock(o) \/ Fail(o)
      PROVE  IInv'
  BY <1>4, RollbackKeeps DEF Refuse, BreakDeadlock, Fail
<1>5. ASSUME NEW o \in Orders, PlaceOrder(o) \/ Sell(o) \/ Release(o)
      PROVE  IInv'
  BY <1>5, PlaceOrderKeeps, SellKeeps, ReleaseKeeps
<1>6. ASSUME NEW p \in Products, SetStock(p)
      PROVE  IInv'
  BY <1>6, SetStockKeeps
<1>7. CASE UNCHANGED vars
  BY <1>7 DEF vars, counters, orders, txs, IInv, TypeOK, NeverOversold,
     RowsHaveOneWriter, ReservedIsBacked, OnItsLines, Available, Lines
<1> QED BY <1>1, <1>2, <1>3, <1>4, <1>5, <1>6, <1>7 DEF Next, Work

\* The inductive invariant holds.
THEOREM LedgerInvariance == Spec => []IInv
BY InitInv, NextInv, PTL DEF Spec

\* The counters keep their types: in particular no variant's stock goes negative.
THEOREM CountersTyped == Spec => []TypeOK
BY LedgerInvariance, PTL DEF IInv

\* No interleaving of checkouts, settlements, releases, rollbacks and seller edits
\* holds more units of a product than are on hand (inventory.ts:44-48).
THEOREM NoOversell == Spec => []NeverOversold
BY LedgerInvariance, PTL DEF IInv

\* Row locks never overlap and end with their transaction.
THEOREM OneWriterPerRow == Spec => []RowsHaveOneWriter
BY LedgerInvariance, PTL DEF IInv

\* A running checkout's earlier lines stay covered until it commits.
THEOREM CheckoutStaysBacked == Spec => []ReservedIsBacked
BY LedgerInvariance, PTL DEF IInv
-----------------------------------------------------------------------------
(* Sums over the orders.                                                   *)

\* A row x joins the sum with n[x] units.
LEMMA TotalAdds ==
  ASSUME NEW n, NEW S, NEW x, x \notin S, n[x] \in Nat, IsFiniteSet(UnitsOf(n, S))
  PROVE  /\ IsFiniteSet(UnitsOf(n, S \cup {x}))
         /\ TotalOf(n, S \cup {x}) = TotalOf(n, S) + n[x]
<1> DEFINE own == {x} \X (1..n[x])
<1>1. UnitsOf(n, S \cup {x}) = UnitsOf(n, S) \cup own
  BY DEF UnitsOf
<1>2. UnitsOf(n, S) \cap own = {}
  BY DEF UnitsOf
<1>3. IsFiniteSet(own) /\ Cardinality(own) = n[x]
  <2>1. IsFiniteSet({x}) /\ Cardinality({x}) = 1
    BY FS_Singleton
  <2>2. IsFiniteSet(1..n[x]) /\ Cardinality(1..n[x]) = n[x]
    BY FS_Interval
  <2>3. /\ IsFiniteSet(own)
        /\ Cardinality(own) = Cardinality({x}) * Cardinality(1..n[x])
    BY <2>1, <2>2, FS_Product
  <2> HIDE DEF own
  <2> QED BY <2>1, <2>2, <2>3
<1>4. /\ IsFiniteSet(UnitsOf(n, S) \cup own)
      /\ Cardinality(UnitsOf(n, S) \cup own)
           = Cardinality(UnitsOf(n, S)) + Cardinality(own) - Cardinality(UnitsOf(n, S) \cap own)
  BY <1>3, FS_Union
<1>5. Cardinality(UnitsOf(n, S) \cap own) = 0
  BY <1>2, FS_EmptySet
<1>6. Cardinality(UnitsOf(n, S)) \in Nat
  BY FS_CardinalityType
<1>7. Cardinality(UnitsOf(n, S \cup {x})) = Cardinality(UnitsOf(n, S)) + n[x]
  <2>1. Cardinality(UnitsOf(n, S \cup {x}))
          = Cardinality(UnitsOf(n, S)) + Cardinality(own) - Cardinality(UnitsOf(n, S) \cap own)
    BY <1>1, <1>4, Zenon
  <2> HIDE DEF own
  <2> QED BY <2>1, <1>3, <1>5, <1>6
<1> QED BY <1>1, <1>4, <1>7 DEF TotalOf

\* A row x of the sum leaves it with n[x] units.
LEMMA TotalDrops ==
  ASSUME NEW n, NEW S, NEW x \in S, n[x] \in Nat, IsFiniteSet(UnitsOf(n, S))
  PROVE  /\ IsFiniteSet(UnitsOf(n, S \ {x}))
         /\ TotalOf(n, S) = TotalOf(n, S \ {x}) + n[x]
         /\ TotalOf(n, S \ {x}) \in Nat
<1>1. UnitsOf(n, S \ {x}) \subseteq UnitsOf(n, S)
  BY DEF UnitsOf
<1>2. IsFiniteSet(UnitsOf(n, S \ {x}))
  BY <1>1, FS_Subset
<1>3. S = (S \ {x}) \cup {x} /\ x \notin S \ {x}
  OBVIOUS
<1>4. TotalOf(n, (S \ {x}) \cup {x}) = TotalOf(n, S \ {x}) + n[x]
  BY <1>2, <1>3, TotalAdds
<1>5. TotalOf(n, S \ {x}) \in Nat
  BY <1>2, FS_CardinalityType DEF TotalOf
<1> QED BY <1>2, <1>3, <1>4, <1>5

\* The sum over no row is 0.
LEMMA TotalOfNone ==
  ASSUME NEW n
  PROVE  IsFiniteSet(UnitsOf(n, {})) /\ TotalOf(n, {}) = 0
<1>1. UnitsOf(n, {}) = {}
  BY DEF UnitsOf
<1> QED BY <1>1, FS_EmptySet DEF TotalOf

-----------------------------------------------------------------------------
(* The counters are those sums.  Each is finite because the orders that    *)
(* make it up have taken units; a transaction is only open on an order     *)
(* whose fate it may decide.                                               *)

FateFitsKind ==
  \A o \in Orders : /\ kind[o] = "reserve" => fate[o] = "new"
                    /\ kind[o] \in {"sell", "release"} => fate[o] = "open"

Counted == {"open", "sold"}
SumsAreFinite == \A r \in Rows, f \in Counted : IsFiniteSet(UnitsOf(Units(r), Ended(f)))
Exact == FateFitsKind /\ SumsAreFinite /\ LedgerIsExact

\* When the fate of o becomes f, the sums of f gain its units and those of its old
\* fate lose them.
LEMMA SumsMove ==
  ASSUME TypeOK, SumsAreFinite, NEW o \in Orders, NEW f, fate[o] # f,
         fate' = [fate EXCEPT ![o] = f], UNCHANGED basket
  PROVE  \A r \in Rows, g \in Counted :
           /\ IsFiniteSet(UnitsOf(Units(r), Ended(g)))'
           /\ Total(r, g) \in Nat /\ Total(r, g)' \in Nat /\ basket[o][r] \in Nat
           /\ g = f => Total(r, g)' = Total(r, g) + basket[o][r]
           /\ g = fate[o] => Total(r, g) = Total(r, g)' + basket[o][r]
           /\ g # f /\ g # fate[o] => Total(r, g)' = Total(r, g)
<1> SUFFICES ASSUME NEW r \in Rows, NEW g \in Counted
             PROVE  /\ IsFiniteSet(UnitsOf(Units(r), Ended(g)))'
                    /\ Total(r, g) \in Nat /\ Total(r, g)' \in Nat /\ basket[o][r] \in Nat
                    /\ g = f => Total(r, g)' = Total(r, g) + basket[o][r]
                    /\ g = fate[o] => Total(r, g) = Total(r, g)' + basket[o][r]
                    /\ g # f /\ g # fate[o] => Total(r, g)' = Total(r, g)
  OBVIOUS
<1> DEFINE n == Units(r)
           S == Ended(g)
<1>1. n' = n /\ n[o] \in Nat /\ n[o] = basket[o][r] /\ basket[o][r] \in Nat
  BY BasketTyped DEF Units
<1>2. IsFiniteSet(UnitsOf(n, S)) /\ Total(r, g) = TotalOf(n, S) /\ TotalOf(n, S) \in Nat
  BY FS_CardinalityType DEF SumsAreFinite, Total, TotalOf
<1>3. Total(r, g)' = TotalOf(n, S')
  BY <1>1 DEF Total
<1>4. IsFiniteSet(UnitsOf(n, S))' = IsFiniteSet(UnitsOf(n, S'))
  BY <1>1
<1>5. CASE g = f
  <2>1. S' = S \cup {o} /\ o \notin S
    BY <1>5 DEF Ended, TypeOK
  <2>2. /\ IsFiniteSet(UnitsOf(n, S \cup {o}))
        /\ TotalOf(n, S \cup {o}) = TotalOf(n, S) + n[o]
    BY <2>1, <1>1, <1>2, TotalAdds
  <2> QED BY <2>1, <2>2, <1>1, <1>2, <1>3, <1>4, <1>5
<1>6. CASE g # f /\ g = fate[o]
  <2>1. S' = S \ {o} /\ o \in S
    BY <1>6 DEF Ended, TypeOK
  <2>2. /\ IsFiniteSet(UnitsOf(n, S \ {o})) /\ TotalOf(n, S \ {o}) \in Nat
        /\ TotalOf(n, S) = TotalOf(n, S \ {o}) + n[o]
    BY <2>1, <1>1, <1>2, TotalDrops
  <2> QED BY <2>1, <2>2, <1>1, <1>2, <1>3, <1>4, <1>6
<1>7. CASE g # f /\ g # fate[o]
  <2>1. S' = S
    BY <1>7 DEF Ended, TypeOK
  <2> QED BY <2>1, <1>1, <1>2, <1>3, <1>4, <1>7
<1> QED BY <1>5, <1>6, <1>7

\* A step that writes no counter and ends no order keeps the sums.
LEMMA SumsStay ==
  ASSUME SumsAreFinite, LedgerIsExact, UNCHANGED <<reserved, stock, sold, orders>>
  PROVE  SumsAreFinite' /\ LedgerIsExact'
<1>1. /\ \A r \in Rows : Units(r)' = Units(r)
      /\ \A f : Ended(f)' = Ended(f)
  BY DEF Units, Ended, orders
<1>2. SumsAreFinite'
  BY <1>1 DEF SumsAreFinite
<1>3. \A r \in Rows : \A f : Total(r, f)' = Total(r, f)
  BY <1>1 DEF Total
<1>4. LedgerIsExact'
  BY <1>3 DEF LedgerIsExact, Rows
<1> QED BY <1>2, <1>4

\* What an open order ordered of a product is among the units held of it.
LEMMA HeldUnitsCounted ==
  ASSUME TypeOK, SumsAreFinite, LedgerIsExact, NEW o \in Orders, fate[o] = "open",
         NEW p \in Products
  PROVE  basket[o][p] \in Nat /\ basket[o][p] <= reserved[p]
<1>1. Units(p)[o] = basket[o][p] /\ basket[o][p] \in Nat /\ p \in Rows /\ o \in Ended("open")
  BY BasketTyped DEF Units, Rows, Ended
<1>2. IsFiniteSet(UnitsOf(Units(p), Ended("open")))
  BY <1>1 DEF SumsAreFinite, Counted
<1>3. /\ TotalOf(Units(p), Ended("open"))
           = TotalOf(Units(p), Ended("open") \ {o}) + basket[o][p]
      /\ TotalOf(Units(p), Ended("open") \ {o}) \in Nat
  BY <1>1, <1>2, TotalDrops
<1>4. reserved[p] = TotalOf(Units(p), Ended("open"))
  BY DEF LedgerIsExact, Total
<1> QED BY <1>1, <1>3, <1>4

\* COMMIT of a checkout: its units move from the shelf to the held ones.
LEMMA PlaceOrderExact ==
  ASSUME IInv, Exact, NEW o \in Orders, PlaceOrder(o)
  PROVE  SumsAreFinite' /\ LedgerIsExact'
<1> USE DEF IInv, Exact
<1>1. /\ kind[o] = "reserve"
      /\ reserved' = [p \in Products |-> reserved[p] + basket[o][p]]
      /\ stock' = [v \in Variants |-> stock[v] - basket[o][v]]
      /\ fate' = [fate EXCEPT ![o] = "open"]
      /\ UNCHANGED <<quantity, sold, basket>>
  BY DEF PlaceOrder, Ready
<1>2. fate[o] = "new"
  BY <1>1 DEF FateFitsKind
<1>3. \A r \in Rows, g \in Counted :
        /\ IsFiniteSet(UnitsOf(Units(r), Ended(g)))'
        /\ Total(r, g) \in Nat /\ Total(r, g)' \in Nat /\ basket[o][r] \in Nat
        /\ g = "open" => Total(r, g)' = Total(r, g) + basket[o][r]
        /\ g = "sold" => Total(r, g)' = Total(r, g)
  <2>1. fate[o] # "open" /\ fate[o] # "sold" /\ fate'[o] # "sold"
    BY <1>1, <1>2 DEF TypeOK
  <2> QED BY <2>1, <1>1, <1>2, SumsMove
<1>4. SumsAreFinite'
  BY <1>3 DEF SumsAreFinite
<1>5. LedgerIsExact'
  BY <1>1, <1>3 DEF LedgerIsExact, Rows, Counted, TypeOK
<1> QED BY <1>4, <1>5

\* COMMIT of a settlement: they move from the held ones to the sold ones; the clamp
\* of GREATEST(0, ...) takes nothing away, since reserved counts them.
LEMMA SellExact ==
  ASSUME IInv, Exact, NEW o \in Orders, Sell(o)
  PROVE  SumsAreFinite' /\ LedgerIsExact'
<1> USE DEF IInv, Exact
<1>1. /\ kind[o] = "sell"
      /\ reserved' = [p \in Products |-> Drop(reserved[p], basket[o][p])]
      /\ sold' = [r \in Rows |-> sold[r] + basket[o][r]]
      /\ fate' = [fate EXCEPT ![o] = "sold"]
      /\ UNCHANGED <<stock, basket>>
  BY DEF Sell, Ready
<1>2. fate[o] = "open"
  BY <1>1 DEF FateFitsKind
<1>3. \A r \in Rows, g \in Counted :
        /\ IsFiniteSet(UnitsOf(Units(r), Ended(g)))'
        /\ Total(r, g) \in Nat /\ Total(r, g)' \in Nat /\ basket[o][r] \in Nat
        /\ g = "open" => Total(r, g) = Total(r, g)' + basket[o][r]
        /\ g = "sold" => Total(r, g)' = Total(r, g) + basket[o][r]
  BY <1>1, <1>2, SumsMove
<1>4. SumsAreFinite'
  BY <1>3 DEF SumsAreFinite
<1>5. \A p \in Products : reserved'[p] = reserved[p] - basket[o][p]
  BY <1>1, <1>2, HeldUnitsCounted DEF Drop, TypeOK
<1>6. LedgerIsExact'
  BY <1>1, <1>3, <1>5 DEF LedgerIsExact, Rows, Counted, TypeOK
<1> QED BY <1>4, <1>6

\* COMMIT of a release: they go back to the shelf.
LEMMA ReleaseExact ==
  ASSUME IInv, Exact, NEW o \in Orders, Release(o)
  PROVE  SumsAreFinite' /\ LedgerIsExact'
<1> USE DEF IInv, Exact
<1>1. /\ kind[o] = "release"
      /\ reserved' = [p \in Products |-> Drop(reserved[p], basket[o][p])]
      /\ stock' = [v \in Variants |-> stock[v] + basket[o][v]]
      /\ fate' = [fate EXCEPT ![o] = "released"]
      /\ UNCHANGED <<sold, basket>>
  BY DEF Release, Ready
<1>2. fate[o] = "open"
  BY <1>1 DEF FateFitsKind
<1>3. \A r \in Rows, g \in Counted :
        /\ IsFiniteSet(UnitsOf(Units(r), Ended(g)))'
        /\ Total(r, g) \in Nat /\ Total(r, g)' \in Nat /\ basket[o][r] \in Nat
        /\ g = "open" => Total(r, g) = Total(r, g)' + basket[o][r]
        /\ g = "sold" => Total(r, g)' = Total(r, g)
  <2>1. fate[o] # "released" /\ fate[o] # "sold" /\ fate'[o] # "sold"
    BY <1>1, <1>2 DEF TypeOK
  <2> QED BY <2>1, <1>1, <1>2, SumsMove
<1>4. SumsAreFinite'
  BY <1>3 DEF SumsAreFinite
<1>5. \A p \in Products : reserved'[p] = reserved[p] - basket[o][p]
  BY <1>1, <1>2, HeldUnitsCounted DEF Drop, TypeOK
<1>6. LedgerIsExact'
  BY <1>1, <1>3, <1>5 DEF LedgerIsExact, Rows, Counted, TypeOK
<1> QED BY <1>4, <1>6

\* A transaction begins and ends on an order whose fate it may decide.
LEMMA NextFits == IInv /\ FateFitsKind /\ [Next]_vars => FateFitsKind'
<1> SUFFICES ASSUME IInv, FateFitsKind, [Next]_vars PROVE FateFitsKind'
  OBVIOUS
<1> USE DEF IInv
<1>1. ASSUME NEW o \in Orders, Checkout(o) \/ BeginSale(o) \/ BeginRelease(o)
      PROVE  FateFitsKind'
  BY <1>1 DEF Checkout, BeginSale, BeginRelease, Begin, FateFitsKind, TypeOK, orders
<1>2. ASSUME NEW o \in Orders,
             Reserve(o) \/ SellLine(o) \/ CountSale(o) \/ ReleaseLine(o)
      PROVE  FateFitsKind'
  BY <1>2 DEF Reserve, SellLine, CountSale, ReleaseLine, Advance, FateFitsKind, orders
<1>3. ASSUME NEW o \in Orders, Refuse(o) \/ BreakDeadlock(o) \/ Fail(o)
      PROVE  FateFitsKind'
  BY <1>3 DEF Refuse, BreakDeadlock, Fail, Rollback, Close, FateFitsKind, TypeOK, orders
<1>4. ASSUME NEW o \in Orders, PlaceOrder(o) \/ Sell(o) \/ Release(o)
      PROVE  FateFitsKind'
  BY <1>4 DEF PlaceOrder, Sell, Release, Close, FateFitsKind, TypeOK
<1>5. ASSUME NEW p \in Products, SetStock(p)
      PROVE  FateFitsKind'
  BY <1>5 DEF SetStock, FateFitsKind, orders, txs
<1>6. CASE UNCHANGED vars
  BY <1>6 DEF vars, orders, txs, FateFitsKind
<1> QED BY <1>1, <1>2, <1>3, <1>4, <1>5, <1>6 DEF Next, Work

\* Every step keeps the sums exact.
LEMMA NextExact == IInv /\ Exact /\ [Next]_vars => Exact'
<1> SUFFICES ASSUME IInv, Exact, [Next]_vars PROVE Exact'
  OBVIOUS
<1>1. FateFitsKind'
  BY NextFits DEF Exact
<1>2. SumsAreFinite' /\ LedgerIsExact'
  <2>1. CASE UNCHANGED <<reserved, stock, sold, orders>>
    BY <2>1, SumsStay DEF Exact
  <2>2. ASSUME NEW o \in Orders, PlaceOrder(o) \/ Sell(o) \/ Release(o)
        PROVE  SumsAreFinite' /\ LedgerIsExact'
    BY <2>2, PlaceOrderExact, SellExact, ReleaseExact
  <2>3. \/ UNCHANGED <<reserved, stock, sold, orders>>
        \/ \E o \in Orders : PlaceOrder(o) \/ Sell(o) \/ Release(o)
    BY DEF Next, Work, Checkout, BeginSale, BeginRelease, Begin, Reserve, SellLine,
       CountSale, ReleaseLine, Advance, Refuse, BreakDeadlock, Fail, Rollback, SetStock, vars, counters
  <2> QED BY <2>1, <2>2, <2>3
<1> QED BY <1>1, <1>2 DEF Exact

\* No order has taken a unit yet.
LEMMA InitExact == Init => Exact
<1> SUFFICES ASSUME Init PROVE Exact
  OBVIOUS
<1>1. \A f \in Counted : Ended(f) = {}
  BY DEF Init, Ended, Counted
<1>2. SumsAreFinite /\ \A r \in Rows, f \in Counted : Total(r, f) = 0
  BY <1>1, TotalOfNone DEF SumsAreFinite, Total
<1>3. LedgerIsExact
  BY <1>2, StockAssumption DEF LedgerIsExact, Rows, Counted, Init
<1>4. FateFitsKind
  BY DEF Init, FateFitsKind
<1> QED BY <1>2, <1>3, <1>4 DEF Exact

\* The ledger's whole invariant.
THEOREM ExactInvariance == Spec => [](IInv /\ Exact)
BY InitInv, NextInv, InitExact, NextExact, PTL DEF Spec

\* The counters are at every moment the sums of what became of the orders: no unit
\* is lost, held twice or sold without having been held, whatever interleaves, is
\* refused or is rolled back (inventory.ts:103-106).
THEOREM LedgerStaysExact == Spec => []LedgerIsExact
BY ExactInvariance, PTL DEF Exact
-----------------------------------------------------------------------------
(* The rows and the transactions implement the shelf: every COMMIT is one  *)
(* step of it, every statement, lock, rollback and failure is none.        *)

avail == [r \in Rows |-> Available(r)]
took  == [o \in Orders |-> IF fate[o] = "new" THEN [fate |-> "new"]
                           ELSE [fate |-> fate[o], basket |-> basket[o]]]

\* What is available of every row is a number.
LEMMA AvailTyped == IInv => avail \in [Rows -> Nat]
BY StockAssumption DEF IInv, avail, Available, TypeOK, NeverOversold, Rows

\* The first rows are full shelves and no order has taken anything.
LEMMA InitMaps == Init => Promise!Init
<1> SUFFICES ASSUME Init PROVE Promise!Init
  OBVIOUS
<1>1. avail \in [Rows -> Nat]
  BY InitInv, AvailTyped
<1>2. took = [o \in Orders |-> [fate |-> "new"]]
  BY DEF Init, took
<1> QED BY <1>1, <1>2 DEF Promise!Init, avail, took

\* COMMIT of a checkout takes its basket whole.
LEMMA PlaceOrderTakes ==
  ASSUME IInv, Exact, NEW o \in Orders, PlaceOrder(o)
  PROVE  Promise!Take(o)
<1> USE DEF IInv, Exact
<1>1. /\ kind[o] = "reserve" /\ at[o] = Nowhere
      /\ reserved' = [p \in Products |-> reserved[p] + basket[o][p]]
      /\ stock' = [v \in Variants |-> stock[v] - basket[o][v]]
      /\ fate' = [fate EXCEPT ![o] = "open"]
      /\ UNCHANGED <<quantity, sold, basket>>
  BY DEF PlaceOrder, Ready
<1>2. fate[o] = "new"
  BY <1>1 DEF FateFitsKind
<1>3. basket[o] \in Baskets /\ basket[o] \in [Rows -> Nat]
  BY BasketTyped DEF TypeOK
<1>4. took[o].fate = "new"
  BY <1>2 DEF took
<1>5. \A r \in Rows : basket[o][r] <= avail[r]
  BY <1>1, BasketFits DEF avail
<1>6. avail' = [r \in Rows |-> avail[r] - basket[o][r]]
  <2>1. \A r \in Rows : Available(r)' = Available(r) - basket[o][r]
    BY <1>1, <1>3 DEF Available, Rows, TypeOK
  <2> QED BY <2>1 DEF avail
<1>7. took' = [took EXCEPT ![o] = [fate |-> "open", basket |-> basket[o]]]
  BY <1>1 DEF took, TypeOK
<1> QED BY <1>3, <1>4, <1>5, <1>6, <1>7 DEF Promise!Take, avail, took

\* COMMIT of a settlement leaves the shelf as it is: both counters of a product drop
\* by the units the order held.
LEMMA SellSells ==
  ASSUME IInv, Exact, NEW o \in Orders, Sell(o)
  PROVE  Promise!Sell(o)
<1> USE DEF IInv, Exact
<1>1. /\ kind[o] = "sell"
      /\ quantity' = [p \in Products |-> Drop(quantity[p], basket[o][p])]
      /\ reserved' = [p \in Products |-> Drop(reserved[p], basket[o][p])]
      /\ fate' = [fate EXCEPT ![o] = "sold"]
      /\ UNCHANGED <<stock, basket>>
  BY DEF Sell, Ready
<1>2. fate[o] = "open"
  BY <1>1 DEF FateFitsKind
<1>3. avail' = avail
  <2>1. \A p \in Products : /\ basket[o][p] \in Nat /\ basket[o][p] <= reserved[p]
                             /\ reserved[p] \in Nat /\ quantity[p] \in Nat
                             /\ reserved[p] <= quantity[p]
    BY <1>2, HeldUnitsCounted DEF TypeOK, NeverOversold
  <2>2. \A r \in Rows : Available(r)' = Available(r)
    BY <2>1, <1>1 DEF Available, Drop
  <2> QED BY <2>2 DEF avail
<1>4. took[o].fate = "open" /\ took[o].basket = basket[o]
  BY <1>2 DEF took
<1>5. took' = [took EXCEPT ![o] = [fate |-> "sold", basket |-> took[o].basket]]
  BY <1>1, <1>4 DEF took, TypeOK
<1> QED BY <1>3, <1>4, <1>5 DEF Promise!Sell, Promise!End, avail, took

\* COMMIT of a release gives the basket back.
LEMMA ReleaseGivesBack ==
  ASSUME IInv, Exact, NEW o \in Orders, Release(o)
  PROVE  Promise!GiveBack(o)
<1> USE DEF IInv, Exact
<1>1. /\ kind[o] = "release"
      /\ reserved' = [p \in Products |-> Drop(reserved[p], basket[o][p])]
      /\ stock' = [v \in Variants |-> stock[v] + basket[o][v]]
      /\ fate' = [fate EXCEPT ![o] = "released"]
      /\ UNCHANGED <<quantity, basket>>
  BY DEF Release, Ready
<1>2. fate[o] = "open"
  BY <1>1 DEF FateFitsKind
<1>3. took[o].fate = "open" /\ took[o].basket = basket[o]
  BY <1>2 DEF took
<1>4. avail' = [r \in Rows |-> avail[r] + took[o].basket[r]]
  <2>1. \A p \in Products : /\ basket[o][p] \in Nat /\ basket[o][p] <= reserved[p]
                             /\ reserved[p] \in Nat /\ quantity[p] \in Nat
    BY <1>2, HeldUnitsCounted DEF TypeOK
  <2>2. \A r \in Rows : Available(r)' = Available(r) + basket[o][r]
    BY <2>1, <1>1 DEF Available, Drop, Rows
  <2> QED BY <2>2, <1>3 DEF avail
<1>5. took' = [took EXCEPT ![o] = [fate |-> "released", basket |-> took[o].basket]]
  BY <1>1, <1>3 DEF took, TypeOK
<1> QED BY <1>3, <1>4, <1>5 DEF Promise!GiveBack, Promise!End, avail, took

\* The seller's number counts one row again.
LEMMA SetStockRecounts ==
  ASSUME IInv, IInv', NEW p \in Products, SetStock(p)
  PROVE  Promise!Recount
<1>1. /\ UNCHANGED <<reserved, stock, fate, basket>>
      /\ \E n \in 0..MaxStock : quantity' = [quantity EXCEPT ![p] = n]
  BY DEF SetStock, orders
<1>2. avail' \in [Rows -> Nat]
  BY AvailTyped DEF avail, IInv, Available, TypeOK, NeverOversold, Rows
<1>3. \A s \in Rows \ {p} : avail'[s] = avail[s]
  BY <1>1 DEF avail, Available, IInv, TypeOK
<1>4. took' = took
  BY <1>1 DEF took
<1> QED BY <1>2, <1>3, <1>4 DEF Promise!Recount, avail, took, Rows

\* Every step is a step of the shelf or none.
LEMMA NextMaps ==
  IInv /\ Exact /\ IInv' /\ [Next]_vars => [Promise!Next]_<<avail, took>>
<1> SUFFICES ASSUME IInv, Exact, IInv', [Next]_vars
             PROVE  [Promise!Next]_<<avail, took>>
  OBVIOUS
<1>1. ASSUME NEW o \in Orders, PlaceOrder(o) \/ Sell(o) \/ Release(o)
      PROVE  Promise!Next
  BY <1>1, PlaceOrderTakes, SellSells, ReleaseGivesBack DEF Promise!Next
<1>2. ASSUME NEW p \in Products, SetStock(p)
      PROVE  Promise!Next
  BY <1>2, SetStockRecounts DEF Promise!Next
<1>3. CASE UNCHANGED <<counters, orders>>
  BY <1>3 DEF avail, took, Available, counters, orders
<1>4. \/ UNCHANGED <<counters, orders>>
      \/ \E o \in Orders : PlaceOrder(o) \/ Sell(o) \/ Release(o)
      \/ \E p \in Products : SetStock(p)
  BY DEF Next, Work, Checkout, BeginSale, BeginRelease, Begin, Reserve, SellLine,
     CountSale, ReleaseLine, Advance, Refuse, BreakDeadlock, Fail, Rollback, vars
<1> QED BY <1>1, <1>2, <1>3, <1>4

\* However the statements of checkouts, settlements, releases and seller edits
\* interleave, shoppers see atomic orders: a basket is taken whole or not at all and
\* leaves the ledger once (inventory.ts:34-53).
THEOREM LedgerImplementsShelf == Spec => ImplementsShelf
<1>1. IInv /\ Exact /\ IInv' /\ [Next]_vars => [Promise!Next]_<<avail, took>>
  BY NextMaps
<1> QED BY <1>1, InitMaps, ExactInvariance, PTL DEF Spec, ImplementsShelf, Promise!Spec, avail, took
-----------------------------------------------------------------------------
(* Nobody waits for ever on others who wait: with finitely many orders, as *)
(* long as a transaction runs one of them can go on or be rolled back as   *)
(* the victim of a circle of waits.  (That it then does is fairness.)      *)

\* At its COMMIT, at a row nobody holds, or in a circle.
CanGoOn(o) == at[o] = Nowhere \/ Free(o) \/ Deadlocked(o)

NeverStuck == (\E o \in Orders : kind[o] # "idle")
                => \E o \in Orders : kind[o] # "idle" /\ CanGoOn(o)

\* A set of transactions each of which waits for another of them holds a circle: what
\* the smallest such set is.
LEMMA WaitersHoldACircle ==
  ASSUME NEW W \in SUBSET Orders, IsFiniteSet(W), W # {},
         \A o \in W : \E q \in W : WaitsFor(o, q)
  PROVE  \E o \in W : Deadlocked(o)
<1> DEFINE Closed(C) == C # {} /\ \A o \in C : \E q \in C : WaitsFor(o, q)
           T == {C \in SUBSET W : Closed(C)}
<1>1. W \in T
  OBVIOUS
<1>2. PICK C \in T : \A D \in T : <<D, C>> \notin StrictSubsetOrdering(W)
  <2>1. T \subseteq FiniteSubsetsOf(W)
    BY FS_FiniteSubsetsOfFinite
  <2>2. IsWellFoundedOn(StrictSubsetOrdering(W), FiniteSubsetsOf(W))
    BY FS_StrictSubsetOrderingWellFounded
  <2>3. T # {}
    BY <1>1
  <2> HIDE DEF T
  <2> QED BY <2>1, <2>2, <2>3, WFMin
<1>3. C \in SUBSET W /\ C # {} /\ \A o \in C : \E q \in C : WaitsFor(o, q)
  OBVIOUS
<1>4. \A w \in C : \E q \in C : WaitsFor(q, w)
  <2> SUFFICES ASSUME NEW w \in C, \A q \in C : ~WaitsFor(q, w)
               PROVE  FALSE
    OBVIOUS
  <2> DEFINE D == C \ {w}
  <2>1. PICK q \in C : WaitsFor(w, q)
    BY <1>3
  <2>2. q # w
    BY <2>1 DEF WaitsFor
  <2>3. D \in SUBSET W /\ D # {} /\ D \subseteq C /\ D # C
    BY <2>2, <1>3
  <2>4. \A o \in D : \E x \in D : WaitsFor(o, x)
    BY <1>3
  <2>5. D \in T
    BY <2>3, <2>4
  <2>6. <<D, C>> \in StrictSubsetOrdering(W)
    BY <2>3, <1>3 DEF StrictSubsetOrdering
  <2> QED BY <2>5, <2>6, <1>2
<1>5. PICK o \in C : TRUE
  BY <1>3
<1>6. Deadlocked(o)
  BY <1>3, <1>4 DEF Deadlocked
<1> QED BY <1>3, <1>6

\* Who cannot go on waits for a transaction that runs.
LEMMA WaitersWaitForRunners ==
  ASSUME IInv, NEW o \in Orders, kind[o] # "idle", ~CanGoOn(o)
  PROVE  \E q \in Orders : kind[q] # "idle" /\ WaitsFor(o, q)
<1>1. PICK q \in Orders : WaitsFor(o, q)
  BY DEF CanGoOn, Free
<1>2. kind[q] # "idle"
  BY <1>1 DEF WaitsFor, IInv, RowsHaveOneWriter
<1> QED BY <1>1, <1>2

\* In every state some running transaction can go on.
LEMMA SomeoneGoesOn ==
  ASSUME IInv, IsFiniteSet(Orders)
  PROVE  NeverStuck
<1> SUFFICES ASSUME NEW r \in Orders, kind[r] # "idle",
                    \A o \in Orders : kind[o] # "idle" => ~CanGoOn(o)
             PROVE  FALSE
  BY DEF NeverStuck
<1> DEFINE W == {o \in Orders : kind[o] # "idle"}
<1>1. W \in SUBSET Orders /\ IsFiniteSet(W) /\ r \in W
  BY FS_Subset
<1>2. \A o \in W : \E q \in W : WaitsFor(o, q)
  BY WaitersWaitForRunners
<1>3. \E o \in W : Deadlocked(o)
  BY <1>1, <1>2, WaitersHoldACircle
<1> QED BY <1>3 DEF CanGoOn

\* However checkouts and settlements lock their rows, in whatever order of their lines
\* (cart.ts:1229), they never all wait where no deadlock detector would see it.
THEOREM StockNeverStuck == ASSUME IsFiniteSet(Orders) PROVE Spec => []NeverStuck
<1>1. IInv => NeverStuck
  BY SomeoneGoesOn
<1> QED BY <1>1, LedgerInvariance, PTL
=============================================================================
