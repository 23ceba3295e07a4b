--------------------------- MODULE CheckoutRequest ---------------------------
(***************************************************************************)
(* One customer's checkouts: POST /api/customer/checkout from the reading  *)
(* of the lines to the transaction that places the orders, the shipping    *)
(* quotes that price them (POST /api/customer/shipping/quote), and the     *)
(* cart they take their lines from, edited meanwhile.  A press of the      *)
(* button may be repeated with the same request key, its answer lost.      *)
(* The transaction is one step: its claim of the key, the quote row and    *)
(* the stock rows are locked until it ends.  "Lines" stands for products,  *)
(* quantities and address.  What a total is made of (product prices, the   *)
(* buyer's business status, wholesale tiers, variant prices, shops' fees)  *)
(* are its parts: a part each await, without a lock, in this order.        *)
(* A definition marked "Mutant of X" is a slip X could have had.           *)
(***************************************************************************)
EXTENDS Naturals, FiniteSets

CONSTANTS Products,
          Quotes,      \* bound: the quotes the customer ever asks for
          Submissions, \* bound: the checkout requests ever sent
          Keys,        \* the request keys of the customer's pages
          Parts,       \* how many reads a total takes; the first comes with the lines
          Prices,      \* what a part may say
          BuyNow,      \* bound: TRUE for Buy Now checkouts, FALSE for the cart's
          MaxQty,      \* bound: units in a cart row
          NoKey, NoQuote, NoPrice, Nobody

ASSUME NoneAssumption ==
  /\ NoKey \notin Keys /\ NoPrice \notin Prices /\ Nobody \notin Submissions
  /\ Quotes \cap Submissions = {} /\ NoQuote \notin Quotes \cup Submissions
ASSUME BoundsAssumption ==
  MaxQty \in Nat \ {0} /\ Parts \in Nat \ {0} /\ BuyNow \subseteq BOOLEAN

VARIABLES
  cart,     \* cart_items: the units of each product, 0 without a row or in an emptied one
  price,    \* what each part says now
  asks,     \* the quote requests under way: their lines and what they read
  quotes,   \* shipping_quotes: those asked for and those requests mint for themselves
  requests, \* checkout_requests: whose response each key holds
  sub,      \* the requests: where they are, what they ask and what they read
  orders    \* the requests whose transaction committed
vars == <<cart, price, asks, quotes, requests, sub, orders>>

Lines == [Products -> 0..MaxQty]
NoLines == [p \in Products |-> 0]
Totals == [1..Parts -> Prices]
Reads == [1..Parts -> Prices \cup {NoPrice}]  \* NoPrice: not read yet
NoReads == [i \in 1..Parts |-> NoPrice]

QuoteIds == Quotes \cup Submissions
NoRow == [status |-> "none", lines |-> NoLines, price |-> NoReads]
Quote == [status : {"none", "open", "expired", "used"}, lines : Lines, price : Reads]
NoAsk == [lines |-> NoLines, price |-> NoReads]
Ask == [lines : Lines, price : Reads]

Running == {"reading", "commit"}
Ended == {"ordered", "replayed", "failed"}
Unsent == [pc |-> "unsent", key |-> NoKey, quote |-> NoQuote,
           rows |-> {}, lines |-> NoLines, price |-> NoReads, edited |-> FALSE]
Request == [pc : {"unsent"} \cup Running \cup Ended, key : Keys \cup {NoKey},
            quote : QuoteIds \cup {NoQuote},
            rows : SUBSET Products,  \* the cart rows it read and that are still there
            lines : Lines, price : Reads,
            edited : BOOLEAN]        \* history: a part changed while it ran

TypeOK ==
  /\ cart \in Lines
  /\ price \in Totals
  /\ asks \in [Quotes -> Ask]
  /\ quotes \in [QuoteIds -> Quote]
  /\ requests \in [Keys -> Submissions \cup {Nobody}]
  /\ sub \in [Submissions -> Request]
  /\ orders \subseteq Submissions

Init ==
  /\ cart = NoLines
  /\ price \in Totals
  /\ asks = [q \in Quotes |-> NoAsk]
  /\ quotes = [q \in QuoteIds |-> NoRow]
  /\ requests = [k \in Keys |-> Nobody]
  /\ sub = [s \in Submissions |-> Unsent]
  /\ orders = {}

At(s, pc) == sub[s].pc = pc

\* The request is over without orders; the model forgets its variables.
End(s, pc) == sub' = [sub EXCEPT ![s] = [Unsent EXCEPT !.pc = pc]]

-----------------------------------------------------------------------------
(* The customer, the sellers and time.                                     *)

\* POST cart/add: a row of its own, or more units in the product's row.
AddToCart(p) ==
  /\ \E n \in cart[p]..MaxQty : n > 0 /\ cart' = [cart EXCEPT ![p] = n]
  /\ UNCHANGED <<price, asks, quotes, requests, sub, orders>>

\* PUT cart/item/:id.  Capped at the units in stock it may leave a row of 0, which no
\* checkout takes.
SetQuantity(p, n) ==
  /\ cart[p] > 0
  /\ cart' = [cart EXCEPT ![p] = n]
  /\ UNCHANGED <<price, asks, quotes, requests, sub, orders>>

\* DELETE cart/item/:id, or a quantity of 0.  A row added later has another id.
RemoveRow(p) ==
  /\ cart' = [cart EXCEPT ![p] = 0]
  /\ sub' = [s \in Submissions |-> [sub[s] EXCEPT !.rows = @ \ {p}]]
  /\ UNCHANGED <<price, asks, quotes, requests, orders>>

\* A seller, a shop or an operator edits a price, a tier, a fee, a business status.
ChangePrice(i, new) ==
  /\ new # price[i]
  /\ price' = [price EXCEPT ![i] = new]
  /\ sub' = [s \in Submissions |->
       IF sub[s].pc \in Running THEN [sub[s] EXCEPT !.edited = TRUE] ELSE sub[s]]
  /\ UNCHANGED <<cart, asks, quotes, requests, orders>>

\* What an expired quote says is compared with nothing any more.
ExpireQuote(q) ==
  /\ quotes[q].status = "open"
  /\ quotes' = [quotes EXCEPT ![q] = [NoRow EXCEPT !.status = "expired"]]
  /\ UNCHANGED <<cart, price, asks, requests, sub, orders>>

-----------------------------------------------------------------------------
\* The SELECT of loadCheckoutLines: what is bought and, of the cart, in what quantity.
LinesOf(wanted, buyNow) ==
  [p \in Products |-> IF p \notin wanted THEN 0 ELSE IF buyNow THEN 1 ELSE cart[p]]

\* Buy Now names one product; a cart checkout some of the cart's rows.
Baskets == {b \in (SUBSET Products \ {{}}) \X BuyNow : b[2] => Cardinality(b[1]) = 1}

\* The reads so far, the next one, and whether the total can be computed.
FirstRead == [NoReads EXCEPT ![1] = price[1]]
Due(reads, i) == reads[i] = NoPrice /\ \A j \in 1..i - 1 : reads[j] # NoPrice
ReadOf(reads, i) == [reads EXCEPT ![i] = price[i]]
Complete(reads) == \A i \in 1..Parts : reads[i] # NoPrice

QuoteRow(lines, reads) == [status |-> "open", lines |-> lines, price |-> reads]

\* What a quote request has read; the row is inserted with the last read, for nobody has
\* its id before the answer.
Quoting(q, lines, reads) ==
  IF Complete(reads)
  THEN asks' = [asks EXCEPT ![q] = NoAsk] /\ quotes' = [quotes EXCEPT ![q] = QuoteRow(lines, reads)]
  ELSE asks' = [asks EXCEPT ![q] = [lines |-> lines, price |-> reads]] /\ UNCHANGED quotes

\* POST shipping/quote: the lines with their first price, then the other reads.
AskQuote(q) ==
  /\ quotes[q] = NoRow /\ asks[q] = NoAsk
  /\ \E b \in Baskets :
       LinesOf(b[1], b[2]) # NoLines /\ Quoting(q, LinesOf(b[1], b[2]), FirstRead)
  /\ UNCHANGED <<cart, price, requests, sub, orders>>

PriceQuote(q, i) ==
  /\ asks[q] # NoAsk /\ Due(asks[q].price, i)
  /\ Quoting(q, asks[q].lines, ReadOf(asks[q].price, i))
  /\ UNCHANGED <<cart, price, requests, sub, orders>>

\* POST checkout up to its lines; a request that has read nothing yet is as good as unsent.
Submit(s) ==
  /\ At(s, "unsent")
  /\ \E k \in Keys \cup {NoKey}, b \in Baskets,
        q \in {q \in Quotes : quotes[q].status # "none"} \cup {NoQuote} :
       LET lines == LinesOf(b[1], b[2])
       IN IF lines = NoLines THEN End(s, "failed")
          ELSE sub' = [sub EXCEPT ![s] =
                 [pc |-> "reading", key |-> k, quote |-> q,
                  rows |-> IF b[2] THEN {} ELSE {p \in Products : lines[p] > 0},
                  lines |-> lines, price |-> FirstRead, edited |-> FALSE]]
  /\ UNCHANGED <<cart, price, asks, quotes, requests, orders>>

ReadPrice(s, i) ==
  /\ At(s, "reading") /\ Due(sub[s].price, i)
  /\ sub' = [sub EXCEPT ![s].price = ReadOf(@, i)]
  /\ UNCHANGED <<cart, price, asks, quotes, requests, orders>>

\* The customer's quote must be unused, unexpired and what the server has computed
\* (from the reads above: not what it would compute now); that is what is charged.
Matches(q, s) == quotes[q].status = "open" /\ quotes[q].lines = sub[s].lines
\* Mutant of Accepted: the totals are not compared.
AcceptedByLines(q, s) == IF Matches(q, s) THEN {sub[s].price} ELSE {}
\* Mutant of Accepted: the quote's totals are charged.
AcceptedAsStored(q, s) == IF Matches(q, s) THEN {quotes[q].price} ELSE {}
Accepted(q, s) ==
  IF Matches(q, s) /\ quotes[q].price = sub[s].price THEN {sub[s].price} ELSE {}

\* Without a quote the server mints one from what it computed; no page knows its id.
CheckQuote(s) ==
  /\ At(s, "reading") /\ Complete(sub[s].price)
  /\ IF sub[s].quote = NoQuote
     THEN /\ quotes' = [quotes EXCEPT ![s] = QuoteRow(sub[s].lines, sub[s].price)]
          /\ sub' = [sub EXCEPT ![s].pc = "commit", ![s].quote = s]
     ELSE /\ \/ /\ Accepted(sub[s].quote, s) = {}
                /\ End(s, "failed")
             \/ \E charged \in Accepted(sub[s].quote, s) :
                  sub' = [sub EXCEPT ![s].pc = "commit", ![s].price = charged]
          /\ UNCHANGED quotes
  /\ UNCHANGED <<cart, price, asks, requests, orders>>

-----------------------------------------------------------------------------
(* The transaction.                                                        *)

\* INSERT INTO checkout_requests ... ON CONFLICT DO NOTHING inserted nothing.
\* Mutant of Claimed: nobody looks.
NeverClaimed(s) == FALSE
Claimed(s) == sub[s].key # NoKey /\ requests[sub[s].key] # Nobody

\* consumeShippingQuote's WHERE clause.
\* Mutant of Spendable: only the expiry is checked.
SpendableAgain(q) == quotes[q].status \in {"open", "used"}
Spendable(q) == quotes[q].status = "open"

\* DELETE FROM cart_items WHERE id = ANY(the ids that were read).
CartLeft(s) == [p \in Products |-> IF p \in sub[s].rows THEN 0 ELSE cart[p]]

Replay(s) ==
  /\ At(s, "commit") /\ Claimed(s)
  /\ End(s, "replayed")
  /\ UNCHANGED <<cart, price, asks, quotes, requests, orders>>

RefuseQuote(s) ==
  /\ At(s, "commit") /\ ~Claimed(s) /\ ~Spendable(sub[s].quote)
  /\ End(s, "failed")
  /\ UNCHANGED <<cart, price, asks, quotes, requests, orders>>

\* What the orders tell of the request that placed them.
Ordered(s) == [Unsent EXCEPT !.pc = "ordered", !.key = sub[s].key, !.quote = sub[s].quote,
                             !.lines = sub[s].lines, !.price = sub[s].price]

\* The orders are placed.  Whether the answer gets out makes no difference here: the
\* customer may send her request again in any case.
Commit(s) ==
  /\ At(s, "commit") /\ ~Claimed(s) /\ Spendable(sub[s].quote)
  /\ requests' = [k \in Keys |-> IF k = sub[s].key THEN s ELSE requests[k]]
  /\ quotes' = [quotes EXCEPT ![sub[s].quote].status = "used"]
  /\ cart' = CartLeft(s)
  /\ orders' = orders \cup {s}
  /\ sub' = [x \in Submissions |-> IF x = s THEN Ordered(s)
                                   ELSE [sub[x] EXCEPT !.rows = @ \ sub[s].rows]]
  /\ UNCHANGED <<price, asks>>

\* Not published, out of stock, an error or a crash: a rollback, if it had begun.
Fail(s) ==
  /\ sub[s].pc \in Running
  /\ End(s, "failed")
  /\ UNCHANGED <<cart, price, asks, quotes, requests, orders>>

Checkout(s) == \/ Submit(s) \/ (\E i \in 1..Parts : ReadPrice(s, i)) \/ CheckQuote(s)
               \/ Replay(s) \/ RefuseQuote(s) \/ Commit(s) \/ Fail(s)

Next ==
  \/ \E p \in Products : AddToCart(p) \/ RemoveRow(p) \/ \E n \in 0..MaxQty : SetQuantity(p, n)
  \/ \E i \in 1..Parts, new \in Prices : ChangePrice(i, new)
  \/ \E q \in Quotes : AskQuote(q) \/ \E i \in 1..Parts : PriceQuote(q, i)
  \/ \E q \in QuoteIds : ExpireQuote(q)
  \/ \E s \in Submissions : Checkout(s)

Spec == Init /\ [][Next]_vars

-----------------------------------------------------------------------------
\* However often a page sends its request, it buys once (cart.ts:1123-1126).
OneOrderPerKey ==
  \A s, x \in orders : s # x => sub[s].key = NoKey \/ sub[s].key # sub[x].key

\* A quote prices one purchase, whichever pages hold it (shipping-quote-store.ts:164-170).
OneOrderPerQuote == \A s, x \in orders : s # x => sub[s].quote # sub[x].quote

\* What is bought and charged is what the quote said, although cart and prices move
\* while the request runs (cart.ts:972-982).
PricedAsQuoted ==
  \A s \in orders : /\ quotes[sub[s].quote].lines = sub[s].lines
                    /\ quotes[sub[s].quote].price = sub[s].price

\* And it is the total in force, however old the quote ("un-replayable after a seller
\* changes their fee", cart.ts:1066-1067), unless a part of it was edited while the request
\* ran: then it may be a total that never was in force as a whole.
ChargedACurrentPrice ==
  [][\A s \in orders' \ orders : sub[s].edited \/ sub'[s].price = price]_vars

\* Whatever is pressed twice, retried, edited or late, a purchase is one step: it takes
\* an offer that stands, whole and as it stands, for a key nobody used.
Promise == INSTANCE Till WITH
  Quotes <- QuoteIds,
  Prices <- Totals,
  bought <- {[by |-> s, key |-> sub[s].key, quote |-> sub[s].quote,
              lines |-> sub[s].lines, price |-> sub[s].price] : s \in orders}
ImplementsTill == Promise!Spec
=============================================================================
