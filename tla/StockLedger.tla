---------------------------- MODULE StockLedger ----------------------------
(***************************************************************************)
(* The stock counters under concurrent transactions.                       *)
(*                                                                         *)
(* A line names either a product's inventory row (quantity on hand,        *)
(* reserved by open orders) or a variant's own row (stock left).  Checkout *)
(* reserves its lines one UPDATE at a time, settlement turns the hold into *)
(* a sale, and the end of an order gives it back; each is one database     *)
(* transaction that locks the rows it writes, in the order of its lines,   *)
(* until it commits.  A sale also writes the products row of every line    *)
(* (sold_count) and leaves a variant's own row alone.  A transaction's     *)
(* writes are invisible to the others until it commits, so they are        *)
(* applied by its COMMIT; no basket names a row twice (one cart row per    *)
(* product and variant).  One order's transactions never overlap: the      *)
(* settlement and the release take the order's row lock and then claim it. *)
(***************************************************************************)
EXTENDS Integers, Totals

CONSTANTS Products,   \* rows of inventory
          Variants,   \* rows of product_variants
          Catalogue,  \* rows of products
          Owner,      \* the products row a line's row belongs to
          Orders,
          Baskets,    \* what may be ordered: units per row
          MaxStock,   \* bound of the counters
          Nowhere     \* no statement under way

Rows == Products \cup Variants
Lines(b) == {r \in Rows : b[r] > 0}

ASSUME StockAssumption ==
  /\ Products \cap Variants = {}
  /\ MaxStock \in Nat
  /\ Baskets \subseteq [Rows -> Nat]
  /\ \A b \in Baskets : Lines(b) # {}
  /\ Owner \in [Rows -> Catalogue]
  /\ Catalogue \cap Rows = {}
  /\ Nowhere \notin Rows \cup Catalogue

VARIABLES
  quantity,  \* on-hand units of a product, held ones included
  reserved,  \* units of a product held by open orders
  stock,     \* units of a variant left to order
  sold,      \* units each row put into its product's sold_count
  fate,      \* the order: "new", "open", "sold" or "released"
  basket,    \* its lines
  kind,      \* its transaction: "idle", "reserve", "sell" or "release"
  held,      \* rows it wrote: their locks are its own until it ends
  done,      \* lines it is through with
  at         \* line its current statement is for

counters == <<quantity, reserved, stock, sold>>
orders   == <<fate, basket>>
txs      == <<kind, held, done, at>>
vars     == <<counters, orders, txs>>

Kinds == {"idle", "reserve", "sell", "release"}

TypeOK ==
  /\ quantity \in [Products -> Nat] /\ reserved \in [Products -> Nat]
  /\ stock \in [Variants -> Nat]    /\ sold \in [Rows -> Nat]
  /\ fate \in [Orders -> {"new", "open", "sold", "released"}]
  /\ basket \in [Orders -> Baskets]
  /\ kind \in [Orders -> Kinds] /\ held \in [Orders -> SUBSET (Rows \cup Catalogue)]
  /\ done \in [Orders -> SUBSET Rows] /\ at \in [Orders -> Rows \cup {Nowhere}]

Init ==
  /\ quantity = [p \in Products |-> MaxStock] /\ reserved = [p \in Products |-> 0]
  /\ stock = [v \in Variants |-> MaxStock]    /\ sold = [r \in Rows |-> 0]
  /\ fate = [o \in Orders |-> "new"] /\ basket \in [Orders -> Baskets]
  /\ kind = [o \in Orders |-> "idle"] /\ held = [o \in Orders |-> {}]
  /\ done = [o \in Orders |-> {}] /\ at = [o \in Orders |-> Nowhere]

-----------------------------------------------------------------------------
\* Units a new order may take of a row.
Available(r) == IF r \in Products THEN quantity[r] - reserved[r] ELSE stock[r]

\* GREATEST(0, n - k).
Drop(n, k) == IF n >= k THEN n - k ELSE 0

\* A line of a sale ends with its UPDATE of sold_count; a product's line writes its
\* inventory row first.
AtCount(o) == kind[o] = "sell" /\ (at[o] \in Variants \/ at[o] \in held[o])

\* The row the current statement writes; a row of its own transaction is no wait.
Target(o) == IF AtCount(o) THEN Owner[at[o]] ELSE at[o]
WaitsFor(o, q) == o # q /\ Target(o) \in held[q]
Free(o) == \A q \in Orders : ~WaitsFor(o, q)

\* o's wait closes a circle of waits.
Deadlocked(o) ==
  \E C \in SUBSET Orders :
    /\ o \in C
    /\ \A q \in C : \E w \in C : WaitsFor(q, w)
    /\ \A w \in C : \E q \in C : WaitsFor(q, w)

\* The transaction of o starts with the statement of one of its lines.
Begin(o, k) ==
  /\ kind[o] = "idle"
  /\ kind' = [kind EXCEPT ![o] = k]
  /\ \E r \in Lines(basket[o]) : at' = [at EXCEPT ![o] = r]
  /\ UNCHANGED <<counters, orders, held, done>>

\* Its statement has run.
Lock(o) == held' = [held EXCEPT ![o] = @ \cup {Target(o)}]

\* It was the line's last: on to the next line, or to COMMIT.
Advance(o) ==
  LET through == done[o] \cup {at[o]}
      left == Lines(basket[o]) \ through
  IN /\ Lock(o)
     /\ done' = [done EXCEPT ![o] = through]
     /\ \E r \in IF left = {} THEN {Nowhere} ELSE left : at' = [at EXCEPT ![o] = r]
     /\ UNCHANGED <<counters, orders, kind>>

\* Every lock goes with the transaction, committed or rolled back.
Close(o) ==
  /\ kind' = [kind EXCEPT ![o] = "idle"]
  /\ held' = [held EXCEPT ![o] = {}]
  /\ done' = [done EXCEPT ![o] = {}]
  /\ at' = [at EXCEPT ![o] = Nowhere]

Ready(o, k) == kind[o] = k /\ at[o] = Nowhere
Rollback(o) == Close(o) /\ UNCHANGED <<counters, orders>>

-----------------------------------------------------------------------------
\* POST /checkout.  The lines are checked against the counters before the
\* transaction, without a lock.
Checkout(o) ==
  /\ fate[o] = "new"
  /\ \A r \in Rows : basket[o][r] <= Available(r)
  /\ Begin(o, "reserve")

\* The guarded UPDATE of one line: it waits for the row's lock, then judges
\* the committed row.
\* Mutant of Reserve: the unlocked check is believed.
ReserveUnguarded(o) ==
  /\ kind[o] = "reserve" /\ at[o] # Nowhere /\ Free(o)
  /\ Advance(o)
Reserve(o) ==
  /\ kind[o] = "reserve" /\ at[o] # Nowhere /\ Free(o)
  /\ Available(at[o]) >= basket[o][at[o]]
  /\ Advance(o)

\* It matches no row: INSUFFICIENT_STOCK, and the whole checkout rolls back.
\* Mutant of Refuse: the request is answered and its transaction left open.
RefuseLeavesOpen(o) ==
  /\ kind[o] = "reserve" /\ at[o] # Nowhere /\ Free(o)
  /\ Available(at[o]) < basket[o][at[o]]
  /\ UNCHANGED vars
Refuse(o) ==
  /\ kind[o] = "reserve" /\ at[o] # Nowhere /\ Free(o)
  /\ Available(at[o]) < basket[o][at[o]]
  /\ Rollback(o)

PlaceOrder(o) ==
  /\ Ready(o, "reserve")
  /\ reserved' = [p \in Products |-> reserved[p] + basket[o][p]]
  /\ stock' = [v \in Variants |-> stock[v] - basket[o][v]]
  /\ fate' = [fate EXCEPT ![o] = "open"]
  /\ Close(o)
  /\ UNCHANGED <<quantity, sold, basket>>

-----------------------------------------------------------------------------
\* The claim that ends an order, under its row lock: a sale or a release.
BeginSale(o)    == fate[o] = "open" /\ Begin(o, "sell")
BeginRelease(o) == fate[o] = "open" /\ Begin(o, "release")

\* The unconditional UPDATEs: the inventory row of a product's line that is sold, the
\* sold_count of every line that is sold, the row of a line that is released.
SellLine(o) ==
  /\ kind[o] = "sell" /\ at[o] # Nowhere /\ ~AtCount(o) /\ Free(o)
  /\ Lock(o)
  /\ UNCHANGED <<counters, orders, kind, done, at>>
CountSale(o)   == AtCount(o) /\ Free(o) /\ Advance(o)
ReleaseLine(o) == kind[o] = "release" /\ at[o] # Nowhere /\ Free(o) /\ Advance(o)

\* Mutants of Sell: the sales counter is forgotten; the parent's inventory row pays
\* for a variant line (the slip inventory.ts:103-106 tells of).
SellSkipsCount(o) ==
  /\ Ready(o, "sell")
  /\ quantity' = [p \in Products |-> Drop(quantity[p], basket[o][p])]
  /\ reserved' = [p \in Products |-> Drop(reserved[p], basket[o][p])]
  /\ fate' = [fate EXCEPT ![o] = "sold"]
  /\ Close(o)
  /\ UNCHANGED <<sold, stock, basket>>
SellChargesParent(o) ==
  LET units(p) == basket[o][p] + (IF \E v \in Variants : basket[o][v] > 0 THEN 1 ELSE 0)
  IN /\ Ready(o, "sell")
     /\ quantity' = [p \in Products |-> Drop(quantity[p], units(p))]
     /\ reserved' = [p \in Products |-> Drop(reserved[p], units(p))]
     /\ sold' = [r \in Rows |-> sold[r] + basket[o][r]]
     /\ fate' = [fate EXCEPT ![o] = "sold"]
     /\ Close(o)
     /\ UNCHANGED <<stock, basket>>
\* commitOrderInventory: both counters of a product drop, a variant's stock was
\* taken when it was reserved and stays taken.
Sell(o) ==
  /\ Ready(o, "sell")
  /\ quantity' = [p \in Products |-> Drop(quantity[p], basket[o][p])]
  /\ reserved' = [p \in Products |-> Drop(reserved[p], basket[o][p])]
  /\ sold' = [r \in Rows |-> sold[r] + basket[o][r]]
  /\ fate' = [fate EXCEPT ![o] = "sold"]
  /\ Close(o)
  /\ UNCHANGED <<stock, basket>>

\* releaseOrderInventory.
Release(o) ==
  /\ Ready(o, "release")
  /\ reserved' = [p \in Products |-> Drop(reserved[p], basket[o][p])]
  /\ stock' = [v \in Variants |-> stock[v] + basket[o][v]]
  /\ fate' = [fate EXCEPT ![o] = "released"]
  /\ Close(o)
  /\ UNCHANGED <<quantity, sold, basket>>

\* PATCH .../stock: an absolute on-hand number in one statement, which waits for
\* the row's lock; the table's CHECK refuses a number below what is held.
\* Mutant of SetStock: no CHECK.
SetStockUnchecked(p) ==
  /\ \A o \in Orders : p \notin held[o]
  /\ \E n \in 0..MaxStock : quantity' = [quantity EXCEPT ![p] = n]
  /\ UNCHANGED <<reserved, stock, sold, orders, txs>>
SetStock(p) ==
  /\ \A o \in Orders : p \notin held[o]
  /\ \E n \in 0..MaxStock : /\ reserved[p] <= n
                            /\ quantity' = [quantity EXCEPT ![p] = n]
  /\ UNCHANGED <<reserved, stock, sold, orders, txs>>

-----------------------------------------------------------------------------
\* The database: its deadlock detector rolls one waiter back.
BreakDeadlock(o) == Deadlocked(o) /\ Rollback(o)

\* A lost connection or a failed statement: the transaction is rolled back.
Fail(o) == kind[o] # "idle" /\ Rollback(o)

Work(o) == \/ Reserve(o) \/ Refuse(o) \/ PlaceOrder(o)
           \/ SellLine(o) \/ CountSale(o) \/ ReleaseLine(o)
           \/ Sell(o) \/ Release(o) \/ BreakDeadlock(o)

Next == \/ \E o \in Orders : \/ Checkout(o) \/ BeginSale(o) \/ BeginRelease(o)
                             \/ Work(o) \/ Fail(o)
        \/ \E p \in Products : SetStock(p)

Spec == Init /\ [][Next]_vars
\* The database grants a row's lock to its waiters in turn and its detector runs,
\* so a statement that can run again and again runs.
FairSpec == Spec /\ \A o \in Orders : SF_vars(Work(o))

-----------------------------------------------------------------------------
\* No product has more units held by open orders than are on hand, however the
\* seller's absolute edits, the unlocked checkout checks and the settlements of
\* several orders meet (inventory.ts:44-48; the CHECK of schema.sql:1505).
NeverOversold == \A p \in Products : reserved[p] <= quantity[p]

\* The counters are the sum of what became of the orders, line by line: a unit is
\* held by exactly the open orders, sold by exactly the sold ones, and the clamp
\* of GREATEST(0, ...) never swallows one; a variant's units are never lost.
Units(r) == [o \in Orders |-> basket[o][r]]
Ended(f) == {o \in Orders : fate[o] = f}
Total(r, f) == TotalOf(Units(r), Ended(f))
LedgerIsExact ==
  /\ \A p \in Products : reserved[p] = Total(p, "open")
  /\ \A v \in Variants : stock[v] + Total(v, "open") + sold[v] = MaxStock
  /\ \A r \in Rows : sold[r] = Total(r, "sold")

\* Two transactions never write one row at a time, and only a running one holds
\* rows: what a rolled-back checkout or settlement locked is free again.
RowsHaveOneWriter ==
  \A o \in Orders : /\ kind[o] = "idle" => held[o] = {} /\ done[o] = {} /\ at[o] = Nowhere
                    /\ \A q \in Orders \ {o} : held[o] \cap held[q] = {}

\* What a running checkout has reserved so far is still there for it when it
\* commits: nothing the others do between its statements takes it away.
ReservedIsBacked ==
  \A o \in Orders : kind[o] = "reserve"
                       => \A r \in done[o] : basket[o][r] <= Available(r)

\* The lines a transaction is through with, the one it is at and those to come are
\* its own, and it keeps the rows they wrote locked.
OnItsLines ==
  \A o \in Orders : kind[o] # "idle" =>
    /\ done[o] \subseteq Lines(basket[o])
    /\ at[o] = Nowhere => done[o] = Lines(basket[o])
    /\ at[o] # Nowhere => at[o] \in Lines(basket[o]) \ done[o]
    /\ (IF kind[o] = "sell" THEN done[o] \cap Products ELSE done[o]) \subseteq held[o]

IInv == TypeOK /\ NeverOversold /\ RowsHaveOneWriter /\ ReservedIsBacked /\ OnItsLines

\* Whatever the locks and the rollbacks, shoppers see atomic orders: a basket is
\* taken whole or not at all and leaves once.
Promise == INSTANCE Shelf WITH
  avail <- [r \in Rows |-> Available(r)],
  took <- [o \in Orders |-> IF fate[o] = "new" THEN [fate |-> "new"]
                            ELSE [fate |-> fate[o], basket |-> basket[o]]]
ImplementsShelf == Promise!Spec

\* A checkout, a settlement or a release never waits for ever, although checkouts
\* lock their rows in the order of their lines (cart.ts:1229).
TransactionsEnd == \A o \in Orders : kind[o] # "idle" ~> kind[o] = "idle"
=============================================================================
