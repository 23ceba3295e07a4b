------------------------- MODULE CheckoutRequestProof -------------------------
(* For any number of requests, keys, quotes, products and reads a total    *)
(* takes: a key and a quote buy once, at the quoted lines and price, and   *)
(* the price is the one in force unless it was edited meanwhile.           *)
EXTENDS CheckoutRequest, TLAPS

\* A committed purchase: its quote is used up and says what was bought; its key is its own.
Placed ==
  \A s \in orders :
    /\ At(s, "ordered")
    /\ sub[s].quote \in QuoteIds
    /\ quotes[sub[s].quote].status = "used"
    /\ quotes[sub[s].quote].lines = sub[s].lines
    /\ quotes[sub[s].quote].price = sub[s].price
    /\ sub[s].key # NoKey => requests[sub[s].key] = s

\* A request about to commit holds a quote that was minted and, while it stands, says what
\* the request is going to buy.
Ready ==
  \A s \in Submissions : At(s, "commit") =>
    /\ sub[s].quote \in QuoteIds
    /\ quotes[sub[s].quote].status # "none"
    /\ quotes[sub[s].quote].status = "open" =>
         quotes[sub[s].quote].lines = sub[s].lines /\ quotes[sub[s].quote].price = sub[s].price

\* A quote has no row before it is asked for to the end, or minted by its own request.
Unminted ==
  /\ \A q \in Quotes : asks[q] # NoAsk => quotes[q] = NoRow
  /\ \A s \in Submissions :
       /\ sub[s].quote \in Quotes \cup {s, NoQuote}
       /\ sub[s].pc \in {"unsent", "reading"} => quotes[s] = NoRow /\ sub[s].quote # s

\* What a request has read is what is in force, unless something was edited since it began.
Current ==
  \A s \in Submissions :
    /\ sub[s].pc = "commit" => sub[s].price \in Totals
    /\ sub[s].pc \in Running /\ ~sub[s].edited =>
         \A i \in 1..Parts : sub[s].price[i] \in {NoPrice, price[i]}

IInv == TypeOK /\ Placed /\ Ready /\ Unminted /\ Current /\ OneOrderPerQuote

-----------------------------------------------------------------------------
(* The reads of a total.                                                   *)

\* A total that was read to the end is a total.
LEMMA CompleteReads == ASSUME NEW r \in Reads, Complete(r) PROVE r \in Totals
BY DEF Reads, Totals, Complete

\* Totals that agree in every part are the same.
LEMMA SameTotal ==
  ASSUME NEW f \in Totals, NEW g \in Totals, \A i \in 1..Parts : f[i] = g[i] PROVE f = g
<1>1. f = [i \in 1..Parts |-> f[i]] /\ g = [i \in 1..Parts |-> g[i]] BY DEF Totals
<1>2. [i \in 1..Parts |-> f[i]] = [i \in 1..Parts |-> g[i]] OBVIOUS
<1>3. QED BY <1>1, <1>2

\* One more read: what is in force now, beside what was read before.
LEMMA OneRead ==
  ASSUME price \in Totals, NEW r \in Reads, NEW i \in 1..Parts
  PROVE  /\ ReadOf(r, i) \in Reads /\ ReadOf(r, i)[i] = price[i]
         /\ \A j \in (1..Parts) \ {i} : ReadOf(r, i)[j] = r[j]
BY DEF Reads, Totals, ReadOf

\* The first read: part 1, and none of the others.
LEMMA ReadsBegin ==
  ASSUME price \in Totals
  PROVE  /\ NoReads \in Reads /\ FirstRead \in Reads
         /\ \A i \in 1..Parts : FirstRead[i] \in {NoPrice, price[i]}
BY BoundsAssumption DEF Reads, Totals, NoReads, FirstRead

\* The lines of any basket are lines.
LEMMA LinesTyped ==
  ASSUME cart \in Lines, NEW wanted, NEW buyNow PROVE LinesOf(wanted, buyNow) \in Lines
BY BoundsAssumption DEF LinesOf, Lines

\* The blanks a row, a quote request and a request start as.
LEMMA Blanks ==
  /\ NoLines \in Lines /\ NoReads \in Reads /\ NoRow \in Quote /\ NoAsk \in Ask
  /\ Unsent \in Request
  /\ NoRow.status = "none" /\ Unsent.pc = "unsent" /\ Unsent.quote = NoQuote
<1>1. NoLines \in Lines /\ NoReads \in Reads
  BY BoundsAssumption DEF NoLines, Lines, NoReads, Reads
<1>2. QED BY <1>1 DEF NoRow, Quote, NoAsk, Ask, Unsent, Request

\* A request that ends without orders keeps nothing but its outcome.
LEMMA EndTyped ==
  ASSUME NEW pc \in Ended
  PROVE  LET t == [Unsent EXCEPT !.pc = pc] IN t \in Request /\ t.pc = pc /\ t.quote = NoQuote
<1>1. [Unsent EXCEPT !.pc = pc].pc = pc /\ [Unsent EXCEPT !.pc = pc].quote = NoQuote
  BY DEF Unsent
<1>2. [Unsent EXCEPT !.pc = pc] \in Request BY Blanks DEF Request
<1>3. QED BY <1>1, <1>2

-----------------------------------------------------------------------------
(* The inductive invariant, one lemma per kind of step.                    *)

\* No request, no order and no quote to start with.
LEMMA InitInv == Init => IInv
<1> SUFFICES ASSUME Init PROVE IInv OBVIOUS
<1>1. TypeOK BY Blanks DEF Init, TypeOK
<1>2. \A s \in Submissions : s # NoQuote BY NoneAssumption
<1>3. \A s \in Submissions : sub[s].pc = "unsent" /\ sub[s].quote = NoQuote BY Blanks DEF Init
<1>4. QED BY <1>1, <1>2, <1>3 DEF Init, IInv, Placed, Ready, Unminted, Current, OneOrderPerQuote,
             At, Running, QuoteIds

\* Adding and changing units leave requests and quotes alone.
LEMMA CartStep ==
  ASSUME IInv, NEW p \in Products,
         AddToCart(p) \/ \E n \in 0..MaxQty : SetQuantity(p, n)
  PROVE IInv'
<1>1. PICK n \in 0..MaxQty : cart' = [cart EXCEPT ![p] = n]
  <2>1. CASE AddToCart(p)
    <3>1. PICK n \in cart[p]..MaxQty : cart' = [cart EXCEPT ![p] = n] BY <2>1 DEF AddToCart
    <3>2. cart[p] \in 0..MaxQty BY DEF IInv, TypeOK, Lines
    <3>3. n \in 0..MaxQty BY <3>1, <3>2, BoundsAssumption
    <3>4. QED BY <3>1, <3>3
  <2>2. CASE \E n \in 0..MaxQty : SetQuantity(p, n)
    <3>1. PICK n \in 0..MaxQty : SetQuantity(p, n) BY <2>2
    <3>2. n \in 0..MaxQty BY BoundsAssumption
    <3>3. QED BY <3>1, <3>2 DEF SetQuantity
  <2>3. QED BY <2>1, <2>2
<1>2. cart' \in Lines BY <1>1 DEF IInv, TypeOK, Lines
<1>3. UNCHANGED <<price, asks, quotes, requests, sub, orders>> BY DEF AddToCart, SetQuantity
<1>4. QED BY <1>2, <1>3 DEF IInv, TypeOK, Placed, Ready, Unminted, Current, OneOrderPerQuote, At

\* Two states of the requests that differ only in the rows they still find in the cart.
SameButRows(x) ==
  /\ sub'[x].pc = sub[x].pc /\ sub'[x].key = sub[x].key /\ sub'[x].quote = sub[x].quote
  /\ sub'[x].lines = sub[x].lines /\ sub'[x].price = sub[x].price /\ sub'[x].edited = sub[x].edited

\* Taking rows away from a request changes nothing else of it.
LEMMA RowsGone ==
  ASSUME TypeOK, NEW x \in Submissions, NEW gone,
         sub'[x] = [sub[x] EXCEPT !.rows = @ \ gone]
  PROVE  sub'[x] \in Request /\ SameButRows(x)
<1>1. sub[x] \in Request /\ sub[x].rows \ gone \in SUBSET Products BY DEF TypeOK, Request
<1>2. QED BY <1>1 DEF Request, SameButRows

\* A removed row goes out of the cart and of the requests that read it.
LEMMA RemoveStep == ASSUME IInv, NEW p \in Products, RemoveRow(p) PROVE IInv'
<1>1. \A x \in Submissions : sub'[x] \in Request /\ SameButRows(x)
  BY RowsGone DEF RemoveRow, IInv
<1>2. UNCHANGED <<price, asks, quotes, requests, orders>> BY DEF RemoveRow
<1>3. cart' \in Lines BY BoundsAssumption DEF RemoveRow, IInv, TypeOK, Lines
<1>4. sub' \in [Submissions -> Request] BY <1>1 DEF RemoveRow
<1>5. TypeOK' BY <1>2, <1>3, <1>4 DEF IInv, TypeOK
<1>6. Placed' /\ OneOrderPerQuote'
  BY <1>1, <1>2 DEF IInv, TypeOK, Placed, OneOrderPerQuote, SameButRows, At
<1>7. Ready' /\ Unminted' /\ Current'
  BY <1>1, <1>2 DEF IInv, Ready, Unminted, Current, SameButRows, At
<1>8. QED BY <1>5, <1>6, <1>7 DEF IInv

\* An edit is noted by every running request.
LEMMA PriceStep ==
  ASSUME IInv, NEW i \in 1..Parts, NEW new \in Prices, ChangePrice(i, new) PROVE IInv'
<1> USE DEF IInv, TypeOK
<1>1. \A x \in Submissions :
        /\ sub'[x] \in Request
        /\ sub'[x].pc = sub[x].pc /\ sub'[x].key = sub[x].key /\ sub'[x].quote = sub[x].quote
        /\ sub'[x].lines = sub[x].lines /\ sub'[x].price = sub[x].price
        /\ sub[x].pc \in Running => sub'[x].edited
  <2> TAKE x \in Submissions
  <2>1. sub[x] \in Request OBVIOUS
  <2>2. sub'[x] = IF sub[x].pc \in Running THEN [sub[x] EXCEPT !.edited = TRUE] ELSE sub[x]
    BY DEF ChangePrice
  <2>3. QED BY <2>1, <2>2 DEF Request
<1>2. price' \in Totals BY DEF ChangePrice, Totals
<1>3. UNCHANGED <<cart, asks, quotes, requests, orders>> BY DEF ChangePrice
<1>4. TypeOK'
  <2>1. sub' \in [Submissions -> Request] BY <1>1 DEF ChangePrice
  <2>2. QED BY <1>2, <1>3, <2>1
<1>5. Placed' BY <1>1, <1>3 DEF Placed, At
<1>6. Ready' BY <1>1, <1>3 DEF Ready, At
<1>7. Unminted' BY <1>1, <1>3 DEF Unminted
<1>8. Current' BY <1>1 DEF Current
<1>9. OneOrderPerQuote' BY <1>1, <1>3 DEF OneOrderPerQuote
<1>10. QED BY <1>4, <1>5, <1>6, <1>7, <1>8, <1>9

\* A row goes from none to open, or from open to expired, under nobody's purchase.
LEMMA RowStep ==
  ASSUME IInv, NEW q \in QuoteIds, NEW row \in Quote, row.status # "none",
         \/ quotes[q].status = "open" /\ row.status # "open" /\ asks' = asks
         \/ q \in Quotes /\ quotes[q] = NoRow /\ asks'[q] = NoAsk,
         quotes' = [quotes EXCEPT ![q] = row],
         asks' \in [Quotes -> Ask], \A o \in Quotes \ {q} : asks'[o] = asks[o],
         UNCHANGED <<cart, price, requests, sub, orders>>
  PROVE  IInv'
<1>1. /\ quotes' \in [QuoteIds -> Quote] /\ quotes'[q] = row
      /\ \A o \in QuoteIds \ {q} : quotes'[o] = quotes[o]
  BY DEF IInv, TypeOK
<1>2. TypeOK' BY <1>1 DEF IInv, TypeOK
<1>3. quotes[q].status \in {"none", "open"} BY Blanks
<1>4. Placed' /\ OneOrderPerQuote' BY <1>1, <1>3 DEF IInv, Placed, OneOrderPerQuote, At
<1>5. Ready'
  <2>1. quotes[q].status = "open" \/ \A s \in Submissions : At(s, "commit") => sub[s].quote # q
    BY Blanks DEF IInv, Ready
  <2>2. ASSUME NEW s \in Submissions, At(s, "commit"), sub[s].quote = q
        PROVE  row.status # "open"
    BY <2>1, <2>2, Blanks DEF IInv, Ready
  <2>3. QED BY <1>1, <2>2 DEF IInv, Ready, At
<1>6. Unminted'
  <2>1. \A s \in Submissions : sub[s].pc \in {"unsent", "reading"} => quotes'[s] = quotes[s]
    <3> SUFFICES ASSUME NEW s \in Submissions, sub[s].pc \in {"unsent", "reading"}, q = s
                 PROVE  FALSE
      BY <1>1 DEF QuoteIds
    <3>1. quotes[s] = NoRow BY DEF IInv, Unminted
    <3>2. quotes[s].status = "none" BY <3>1, Blanks
    <3>3. q \notin Quotes BY NoneAssumption
    <3>4. QED BY <3>2, <3>3
  <2>2. \A o \in Quotes : asks'[o] # NoAsk => quotes'[o] = NoRow
    <3> SUFFICES ASSUME NEW o \in Quotes, asks'[o] # NoAsk PROVE quotes'[o] = NoRow OBVIOUS
    <3>1. CASE o # q BY <1>1, <3>1 DEF IInv, Unminted, QuoteIds
    <3>2. CASE o = q
      <4>1. quotes[q].status = "open" BY <3>2
      <4>2. asks[q] = NoAsk BY <3>2, <4>1, Blanks DEF IInv, Unminted
      <4>3. QED BY <3>2, <4>1, <4>2
    <3>3. QED BY <3>1, <3>2
  <2>3. QED BY <2>1, <2>2 DEF IInv, Unminted
<1>7. Current' BY DEF IInv, Current
<1>8. QED BY <1>2, <1>4, <1>5, <1>6, <1>7 DEF IInv

\* A quote expires only while it is open.
LEMMA ExpireStep == ASSUME IInv, NEW q \in QuoteIds, ExpireQuote(q) PROVE IInv'
<1> DEFINE row == [NoRow EXCEPT !.status = "expired"]
<1>1. row \in Quote /\ row.status = "expired" BY Blanks DEF NoRow, Quote
<1>2. /\ quotes[q].status = "open" /\ quotes' = [quotes EXCEPT ![q] = row]
      /\ UNCHANGED <<cart, price, asks, requests, sub, orders>>
  BY DEF ExpireQuote
<1> HIDE DEF row
<1>3. asks' \in [Quotes -> Ask] /\ \A o \in Quotes \ {q} : asks'[o] = asks[o]
  BY <1>2 DEF IInv, TypeOK
<1>4. row.status # "none" /\ row.status # "open" /\ asks' = asks BY <1>1, <1>2
<1>5. UNCHANGED <<cart, price, requests, sub, orders>> BY <1>2
<1>6. QED BY <1>1, <1>2, <1>3, <1>4, <1>5, RowStep

\* A quote request that reads on has no row yet; the last read gives it one.
LEMMA QuotingStep ==
  ASSUME IInv, NEW q \in Quotes, quotes[q] = NoRow,
         NEW lines \in Lines, NEW reads \in Reads, Quoting(q, lines, reads),
         UNCHANGED <<cart, price, requests, sub, orders>>
  PROVE  IInv'
<1>1. asks \in [Quotes -> Ask] BY DEF IInv, TypeOK
<1>2. CASE Complete(reads)
  <2> DEFINE row == QuoteRow(lines, reads)
  <2>1. row \in Quote /\ row.status = "open" BY DEF QuoteRow, Quote
  <2>2. asks' = [asks EXCEPT ![q] = NoAsk] /\ quotes' = [quotes EXCEPT ![q] = row]
    BY <1>2 DEF Quoting
  <2> HIDE DEF row
  <2>3. /\ asks' \in [Quotes -> Ask] /\ asks'[q] = NoAsk
        /\ \A o \in Quotes \ {q} : asks'[o] = asks[o]
    BY <1>1, <2>2, Blanks
  <2>4. q \in QuoteIds BY DEF QuoteIds
  <2>5. row.status # "none" BY <2>1
  <2>6. QED BY <2>1, <2>2, <2>3, <2>4, <2>5, RowStep
<1>3. CASE ~Complete(reads)
  <2>1. /\ asks' = [asks EXCEPT ![q] = [lines |-> lines, price |-> reads]]
        /\ UNCHANGED <<cart, price, quotes, requests, sub, orders>>
    BY <1>3 DEF Quoting
  <2>2. asks' \in [Quotes -> Ask] /\ \A o \in Quotes \ {q} : asks'[o] = asks[o]
    BY <1>1, <2>1 DEF Ask
  <2>3. TypeOK' BY <2>1, <2>2 DEF IInv, TypeOK
  <2>4. Unminted' BY <2>1, <2>2 DEF IInv, Unminted
  <2>5. Placed' /\ Ready' /\ Current' /\ OneOrderPerQuote'
    BY <2>1 DEF IInv, Placed, Ready, Current, OneOrderPerQuote, At
  <2>6. QED BY <2>3, <2>4, <2>5 DEF IInv
<1>4. QED BY <1>2, <1>3

\* The quote request begins, and goes on.
LEMMA AskStep ==
  ASSUME IInv, NEW q \in Quotes, AskQuote(q) \/ \E i \in 1..Parts : PriceQuote(q, i)
  PROVE  /\ quotes[q] = NoRow
         /\ \E lines \in Lines, reads \in Reads : Quoting(q, lines, reads)
         /\ UNCHANGED <<cart, price, requests, sub, orders>>
<1>1. CASE AskQuote(q)
  <2>1. PICK b \in Baskets : Quoting(q, LinesOf(b[1], b[2]), FirstRead) BY <1>1 DEF AskQuote
  <2>2. LinesOf(b[1], b[2]) \in Lines BY LinesTyped DEF IInv, TypeOK
  <2>3. FirstRead \in Reads BY ReadsBegin DEF IInv, TypeOK
  <2>4. QED BY <1>1, <2>1, <2>2, <2>3 DEF AskQuote
<1>2. CASE \E i \in 1..Parts : PriceQuote(q, i)
  <2>1. PICK i \in 1..Parts : PriceQuote(q, i) BY <1>2
  <2>2. asks[q].lines \in Lines /\ asks[q].price \in Reads BY DEF IInv, TypeOK, Ask
  <2>3. ReadOf(asks[q].price, i) \in Reads BY <2>2, OneRead DEF IInv, TypeOK
  <2>4. quotes[q] = NoRow BY <2>1 DEF PriceQuote, IInv, Unminted
  <2>5. QED BY <2>1, <2>2, <2>3, <2>4 DEF PriceQuote
<1>3. QED BY <1>1, <1>2

\* A request moves on its own, to what it may be there.
LEMMA RequestStep ==
  ASSUME IInv, NEW s \in Submissions, s \notin orders,
         NEW t \in Request, sub' = [sub EXCEPT ![s] = t],
         UNCHANGED <<cart, price, asks, quotes, requests, orders>>,
         t.quote \in Quotes \cup {s, NoQuote},
         t.pc \in {"unsent", "reading"} => quotes[s] = NoRow /\ t.quote # s,
         t.pc = "commit" =>
           /\ t.quote \in QuoteIds /\ quotes[t.quote].status # "none" /\ t.price \in Totals
           /\ quotes[t.quote].lines = t.lines /\ quotes[t.quote].price = t.price,
         t.pc \in Running /\ ~t.edited => \A i \in 1..Parts : t.price[i] \in {NoPrice, price[i]}
  PROVE  IInv'
<1>1. /\ sub' \in [Submissions -> Request] /\ sub'[s] = t
      /\ \A x \in Submissions \ {s} : sub'[x] = sub[x]
  BY DEF IInv, TypeOK
<1>2. TypeOK' BY <1>1 DEF IInv, TypeOK
<1>3. Placed' /\ OneOrderPerQuote'
  BY <1>1 DEF IInv, TypeOK, Placed, OneOrderPerQuote, At
<1>4. Ready' BY <1>1 DEF IInv, Ready, At
<1>5. Unminted' BY <1>1 DEF IInv, Unminted
<1>6. Current' BY <1>1 DEF IInv, Current
<1>7. QED BY <1>2, <1>3, <1>4, <1>5, <1>6 DEF IInv

\* A request that gives up leaves everything but itself alone, and is no order.
LEMMA GiveUpStep ==
  ASSUME IInv, NEW s \in Submissions, s \notin orders, NEW pc \in {"replayed", "failed"},
         End(s, pc), UNCHANGED <<cart, price, asks, quotes, requests, orders>>
  PROVE  IInv'
<1> DEFINE t == [Unsent EXCEPT !.pc = pc]
<1>1. t \in Request /\ t.pc = pc /\ t.quote = NoQuote BY EndTyped DEF Ended
<1>2. sub' = [sub EXCEPT ![s] = t] BY DEF End
<1> HIDE DEF t
<1>3. t.pc \notin Running BY <1>1 DEF Running
<1>4. QED BY <1>1, <1>2, <1>3, RequestStep

\* Sending: the lines and the first part of the total are read.
LEMMA SubmitStep == ASSUME IInv, NEW s \in Submissions, Submit(s) PROVE IInv'
<1>1. s \notin orders /\ UNCHANGED <<cart, price, asks, quotes, requests, orders>>
  BY DEF Submit, At, IInv, Placed
<1>2. PICK k \in Keys \cup {NoKey}, b \in Baskets,
           q \in {q \in Quotes : quotes[q].status # "none"} \cup {NoQuote} :
        LET lines == LinesOf(b[1], b[2])
        IN IF lines = NoLines THEN End(s, "failed")
           ELSE sub' = [sub EXCEPT ![s] =
                  [pc |-> "reading", key |-> k, quote |-> q,
                   rows |-> IF b[2] THEN {} ELSE {p \in Products : lines[p] > 0},
                   lines |-> lines, price |-> FirstRead, edited |-> FALSE]]
  BY ZenonT(60) DEF Submit
<1> DEFINE lines == LinesOf(b[1], b[2])
           rows == IF b[2] THEN {} ELSE {p \in Products : lines[p] > 0}
           t == [pc |-> "reading", key |-> k, quote |-> q, rows |-> rows,
                 lines |-> lines, price |-> FirstRead, edited |-> FALSE]
<1>3. CASE lines = NoLines BY <1>1, <1>2, <1>3, GiveUpStep
<1>4. CASE lines # NoLines
  <2>1. lines \in Lines BY LinesTyped DEF IInv, TypeOK
  <2>2. rows \in SUBSET Products OBVIOUS
  <2>3. FirstRead \in Reads /\ \A i \in 1..Parts : FirstRead[i] \in {NoPrice, price[i]}
    BY ReadsBegin DEF IInv, TypeOK
  <2>4. sub' = [sub EXCEPT ![s] = t] BY <1>2, <1>4
  <2> HIDE DEF lines, rows
  <2>5. t \in Request BY <2>1, <2>2, <2>3 DEF Request, Running, QuoteIds
  <2>6. t.pc = "reading" /\ t.quote = q /\ t.price = FirstRead OBVIOUS
  <2>7. quotes[s] = NoRow BY DEF Submit, At, IInv, Unminted
  <2>8. q # s BY NoneAssumption
  <2> HIDE DEF t
  <2>9. QED BY <1>1, <2>3, <2>4, <2>5, <2>6, <2>7, <2>8, RequestStep
<1>5. QED BY <1>3, <1>4

\* Reading on.
LEMMA ReadStep ==
  ASSUME IInv, NEW s \in Submissions, NEW i \in 1..Parts, ReadPrice(s, i) PROVE IInv'
<1>1. /\ s \notin orders /\ sub[s].pc = "reading" /\ sub[s] \in Request /\ price \in Totals
      /\ UNCHANGED <<cart, price, asks, quotes, requests, orders>>
  BY DEF ReadPrice, At, IInv, TypeOK, Placed
<1> DEFINE t == [sub[s] EXCEPT !.price = ReadOf(sub[s].price, i)]
<1>2. sub' = [sub EXCEPT ![s] = t] BY DEF ReadPrice
<1>3. sub[s].price \in Reads BY <1>1 DEF Request
<1>4. /\ ReadOf(sub[s].price, i) \in Reads /\ ReadOf(sub[s].price, i)[i] = price[i]
      /\ \A j \in (1..Parts) \ {i} : ReadOf(sub[s].price, i)[j] = sub[s].price[j]
  BY <1>1, <1>3, OneRead
<1>5. /\ t \in Request /\ t.pc = "reading" /\ t.quote = sub[s].quote
      /\ t.price = ReadOf(sub[s].price, i) /\ t.edited = sub[s].edited
  BY <1>1, <1>4 DEF Request
<1> HIDE DEF t
<1>6. t.quote \in Quotes \cup {s, NoQuote} /\ quotes[s] = NoRow /\ t.quote # s
  BY <1>1, <1>5 DEF IInv, Unminted
<1>7. ~t.edited => \A j \in 1..Parts : t.price[j] \in {NoPrice, price[j]}
  BY <1>1, <1>4, <1>5 DEF IInv, Current, Running
<1>8. QED BY <1>1, <1>2, <1>5, <1>6, <1>7, RequestStep

\* With the customer's quote: the request goes on to the transaction if it still fits.
LEMMA AcceptStep ==
  ASSUME IInv, NEW s \in Submissions, CheckQuote(s), sub[s].quote # NoQuote PROVE IInv'
<1>1. /\ s \notin orders /\ sub[s].pc = "reading" /\ sub[s] \in Request
      /\ sub[s].price \in Totals
      /\ UNCHANGED <<cart, price, asks, quotes, requests, orders>>
  <2>1. sub[s] \in Request /\ Complete(sub[s].price) BY DEF CheckQuote, IInv, TypeOK
  <2>2. sub[s].price \in Totals BY <2>1, CompleteReads DEF Request
  <2>3. QED BY <2>1, <2>2 DEF CheckQuote, At, IInv, Placed
<1>2. CASE End(s, "failed") BY <1>1, <1>2, GiveUpStep
<1>3. CASE \E charged \in Accepted(sub[s].quote, s) :
             sub' = [sub EXCEPT ![s].pc = "commit", ![s].price = charged]
  <2>1. PICK charged \in Accepted(sub[s].quote, s) :
          sub' = [sub EXCEPT ![s].pc = "commit", ![s].price = charged]
    BY <1>3
  <2>2. /\ charged = sub[s].price /\ quotes[sub[s].quote].status = "open"
        /\ quotes[sub[s].quote].lines = sub[s].lines /\ quotes[sub[s].quote].price = sub[s].price
    BY DEF Accepted, Matches
  <2> DEFINE t == [sub[s] EXCEPT !.pc = "commit", !.price = charged]
  <2>3. /\ t \in Request /\ t.pc = "commit" /\ t.quote = sub[s].quote
        /\ t.lines = sub[s].lines /\ t.price = sub[s].price /\ t.edited = sub[s].edited
    BY <1>1, <2>2 DEF Request, Running
  <2>4. sub' = [sub EXCEPT ![s] = t] BY <2>1
  <2> HIDE DEF t
  <2>5. t.quote \in Quotes \cup {s, NoQuote} /\ t.quote \in QuoteIds
    BY <1>1, <2>3 DEF IInv, Unminted, Request
  <2>6. ~t.edited => \A j \in 1..Parts : t.price[j] \in {NoPrice, price[j]}
    BY <1>1, <2>3 DEF IInv, Current, Running
  <2>7. quotes[t.quote].status # "none" BY <2>2, <2>3
  <2>8. QED BY <1>1, <2>2, <2>3, <2>4, <2>5, <2>6, <2>7, RequestStep
<1>4. QED BY <1>2, <1>3 DEF CheckQuote

\* Without one: a row of the request's own, which says what it read.
LEMMA MintStep ==
  ASSUME IInv, NEW s \in Submissions, CheckQuote(s), sub[s].quote = NoQuote PROVE IInv'
<1>1. /\ s \notin orders /\ sub[s].pc = "reading" /\ sub[s] \in Request
      /\ sub[s].price \in Totals /\ sub[s].lines \in Lines /\ sub[s].price \in Reads
      /\ UNCHANGED <<cart, price, asks, requests, orders>>
  <2>1. sub[s] \in Request /\ Complete(sub[s].price) BY DEF CheckQuote, IInv, TypeOK
  <2>2. sub[s].price \in Totals BY <2>1, CompleteReads DEF Request
  <2>3. QED BY <2>1, <2>2 DEF CheckQuote, At, IInv, Placed, Request
<1> DEFINE row == QuoteRow(sub[s].lines, sub[s].price)
           t == [sub[s] EXCEPT !.pc = "commit", !.quote = s]
<1>2. row \in Quote /\ row.status = "open" /\ row.lines = sub[s].lines /\ row.price = sub[s].price
  BY <1>1 DEF QuoteRow, Quote
<1>3. /\ t \in Request /\ t.pc = "commit" /\ t.quote = s
      /\ t.lines = sub[s].lines /\ t.price = sub[s].price /\ t.edited = sub[s].edited
  BY <1>1 DEF Request, Running, QuoteIds
<1>4. quotes' = [quotes EXCEPT ![s] = row] /\ sub' = [sub EXCEPT ![s] = t] BY DEF CheckQuote
<1> HIDE DEF row, t
<1>5. /\ sub' \in [Submissions -> Request] /\ sub'[s] = t
      /\ \A x \in Submissions \ {s} : sub'[x] = sub[x]
  BY <1>3, <1>4 DEF IInv, TypeOK
<1>6. /\ quotes' \in [QuoteIds -> Quote] /\ quotes'[s] = row
      /\ \A q \in QuoteIds \ {s} : quotes'[q] = quotes[q]
  BY <1>2, <1>4 DEF IInv, TypeOK, QuoteIds
<1>7. s \notin Quotes BY NoneAssumption
<1>8. \A x \in Submissions \ {s} : sub[x].quote # s
  BY <1>7, NoneAssumption DEF IInv, Unminted
<1>9. TypeOK' BY <1>1, <1>5, <1>6 DEF IInv, TypeOK
<1>10. Placed' /\ OneOrderPerQuote'
  BY <1>1, <1>5, <1>6, <1>8 DEF IInv, TypeOK, Placed, OneOrderPerQuote, At
<1>11. Ready'
  <2>1. Ready!(s)' BY <1>2, <1>3, <1>5, <1>6 DEF QuoteIds, At
  <2>2. \A x \in Submissions \ {s} : Ready!(x)' BY <1>5, <1>6, <1>8 DEF IInv, Ready, At
  <2>3. QED BY <2>1, <2>2 DEF Ready
<1>12. Unminted'
  <2>1. \A q \in Quotes : quotes'[q] = quotes[q] BY <1>6, <1>7 DEF QuoteIds
  <2>2. \A x \in Submissions \ {s} : quotes'[x] = quotes[x] BY <1>6 DEF QuoteIds
  <2>3. QED BY <1>1, <1>3, <1>5, <2>1, <2>2 DEF IInv, Unminted
<1>13. Current' BY <1>1, <1>3, <1>5 DEF IInv, Current, Running
<1>14. QED BY <1>9, <1>10, <1>11, <1>12, <1>13 DEF IInv

\* The orders a transaction leaves, and what it leaves of the other requests.
LEMMA CommitFacts ==
  ASSUME IInv, NEW s \in Submissions, Commit(s)
  PROVE  /\ s \notin orders /\ sub[s].quote \in QuoteIds /\ quotes[sub[s].quote].status = "open"
         /\ quotes[sub[s].quote].lines = sub[s].lines
         /\ quotes[sub[s].quote].price = sub[s].price
         /\ sub' \in [Submissions -> Request]
         /\ sub'[s].pc = "ordered" /\ sub'[s].key = sub[s].key /\ sub'[s].quote = sub[s].quote
         /\ sub'[s].lines = sub[s].lines /\ sub'[s].price = sub[s].price
         /\ \A x \in Submissions \ {s} : SameButRows(x)
<1>1. /\ sub[s] \in Request /\ sub[s].pc = "commit"
      /\ sub' = [x \in Submissions |-> IF x = s THEN Ordered(s)
                                     ELSE [sub[x] EXCEPT !.rows = @ \ sub[s].rows]]
  BY DEF Commit, At, IInv, TypeOK
<1>2. /\ s \notin orders /\ sub[s].quote \in QuoteIds /\ quotes[sub[s].quote].status = "open"
      /\ quotes[sub[s].quote].lines = sub[s].lines /\ quotes[sub[s].quote].price = sub[s].price
  BY <1>1 DEF Commit, Spendable, IInv, Placed, Ready, At
<1> DEFINE r == [Unsent EXCEPT !.pc = "ordered", !.key = sub[s].key, !.quote = sub[s].quote]
<1>3. r \in Request /\ r.pc = "ordered" /\ r.key = sub[s].key /\ r.quote = sub[s].quote
  BY <1>1, Blanks DEF Request, Ended
<1>4. Ordered(s) = [r EXCEPT !.lines = sub[s].lines, !.price = sub[s].price]
  BY DEF Ordered
<1> HIDE DEF r
<1>5. /\ Ordered(s) \in Request /\ Ordered(s).pc = "ordered" /\ Ordered(s).key = sub[s].key
      /\ Ordered(s).quote = sub[s].quote
      /\ Ordered(s).lines = sub[s].lines /\ Ordered(s).price = sub[s].price
  BY <1>1, <1>3, <1>4 DEF Request
<1>6. sub'[s] = Ordered(s) BY <1>1
<1>7. \A x \in Submissions \ {s} : sub'[x] \in Request /\ SameButRows(x)
  <2> TAKE x \in Submissions \ {s}
  <2>1. sub'[x] = [sub[x] EXCEPT !.rows = @ \ sub[s].rows] BY <1>1
  <2>2. QED BY <2>1, RowsGone DEF IInv
<1>8. sub' \in [Submissions -> Request] BY <1>1, <1>5, <1>6, <1>7
<1>9. QED BY <1>2, <1>5, <1>6, <1>7, <1>8

\* The transaction: the key was free, the quote unused, and both are now taken.
LEMMA CommitStep == ASSUME IInv, NEW s \in Submissions, Commit(s) PROVE IInv'
<1>1. /\ s \notin orders /\ sub[s].quote \in QuoteIds /\ quotes[sub[s].quote].status = "open"
      /\ quotes[sub[s].quote].lines = sub[s].lines /\ quotes[sub[s].quote].price = sub[s].price
      /\ sub' \in [Submissions -> Request]
      /\ sub'[s].pc = "ordered" /\ sub'[s].key = sub[s].key /\ sub'[s].quote = sub[s].quote
      /\ sub'[s].lines = sub[s].lines /\ sub'[s].price = sub[s].price
  BY CommitFacts
<1>2. \A x \in Submissions \ {s} : SameButRows(x) BY CommitFacts
<1>3. /\ quotes' \in [QuoteIds -> Quote] /\ quotes'[sub[s].quote].status = "used"
      /\ \A q \in QuoteIds : /\ quotes'[q].lines = quotes[q].lines
                            /\ quotes'[q].price = quotes[q].price
      /\ \A q \in QuoteIds \ {sub[s].quote} : quotes'[q] = quotes[q]
  BY <1>1 DEF Commit, Quote, IInv, TypeOK
<1>4. /\ requests' \in [Keys -> Submissions \cup {Nobody}]
      /\ \A k \in Keys : requests'[k] = IF k = sub[s].key THEN s ELSE requests[k]
  BY DEF Commit, IInv, TypeOK
<1>5. UNCHANGED <<price, asks>> /\ orders' = orders \cup {s} BY DEF Commit
<1>6. \A x \in orders : /\ x \in Submissions \ {s} /\ sub[x].quote # sub[s].quote
                        /\ sub[x].key # NoKey => sub[x].key \in Keys /\ sub[x].key # sub[s].key
  <2>1. sub[s].key # NoKey => requests[sub[s].key] = Nobody BY DEF Commit, Claimed
  <2>2. \A x \in orders : sub[x].key \in Keys \cup {NoKey} BY DEF IInv, TypeOK, Request
  <2>3. QED BY <1>1, <2>1, <2>2, NoneAssumption DEF IInv, TypeOK, Placed
<1>7. TypeOK'
  <2>1. cart' \in Lines BY BoundsAssumption DEF Commit, CartLeft, Lines, IInv, TypeOK
  <2>2. QED BY <1>1, <1>3, <1>4, <1>5, <2>1 DEF IInv, TypeOK
<1>8. Placed'
  <2>1. ASSUME NEW x \in orders PROVE Placed!(x)'
    BY <1>2, <1>3, <1>4, <1>6 DEF IInv, Placed, SameButRows, At
  <2>2. Placed!(s)'
    <3>1. sub[s].key \in Keys \cup {NoKey} BY DEF IInv, TypeOK, Request
    <3>2. QED BY <1>1, <1>3, <1>4, <3>1 DEF At
  <2>3. QED BY <1>5, <2>1, <2>2 DEF Placed
<1>9. Ready' BY <1>1, <1>2, <1>3 DEF IInv, Ready, SameButRows, At
<1>10. Unminted'
  <2>1. ASSUME NEW q \in QuoteIds, quotes[q] = NoRow PROVE quotes'[q] = NoRow
    BY <1>1, <1>3, <2>1, Blanks
  <2>2. QED BY <1>1, <1>2, <1>5, <2>1 DEF IInv, Unminted, SameButRows, QuoteIds
<1>11. Current' BY <1>1, <1>2, <1>5 DEF IInv, Current, SameButRows, Running
<1>12. OneOrderPerQuote' BY <1>1, <1>2, <1>5, <1>6 DEF IInv, OneOrderPerQuote, SameButRows
<1>13. QED BY <1>7, <1>8, <1>9, <1>10, <1>11, <1>12 DEF IInv

\* IInv is an invariant: one step per action.
LEMMA InvHolds == Spec => []IInv
<1>1. IInv /\ [Next]_vars => IInv'
  <2> SUFFICES ASSUME IInv, [Next]_vars PROVE IInv' OBVIOUS
  <2>1. ASSUME NEW p \in Products, AddToCart(p) \/ \E n \in 0..MaxQty : SetQuantity(p, n)
        PROVE  IInv'
    BY <2>1, CartStep
  <2>2. ASSUME NEW p \in Products, RemoveRow(p) PROVE IInv' BY <2>2, RemoveStep
  <2>3. ASSUME NEW i \in 1..Parts, NEW new \in Prices, ChangePrice(i, new) PROVE IInv'
    BY <2>3, PriceStep
  <2>4. ASSUME NEW q \in Quotes, AskQuote(q) \/ \E i \in 1..Parts : PriceQuote(q, i)
        PROVE  IInv'
    BY <2>4, AskStep, QuotingStep
  <2>5. ASSUME NEW q \in QuoteIds, ExpireQuote(q) PROVE IInv' BY <2>5, ExpireStep
  <2>6. ASSUME NEW s \in Submissions, Checkout(s) PROVE IInv'
    <3>1. CASE Submit(s) BY <3>1, SubmitStep
    <3>2. CASE \E i \in 1..Parts : ReadPrice(s, i) BY <3>2, ReadStep
    <3>3. CASE CheckQuote(s) BY <3>3, MintStep, AcceptStep
    <3>4. CASE Commit(s) BY <3>4, CommitStep
    <3>5. CASE Replay(s) \/ RefuseQuote(s) \/ Fail(s)
      <4>1. s \notin orders BY <3>5 DEF Replay, RefuseQuote, Fail, At, Running, IInv, Placed
      <4>2. PICK pc \in {"replayed", "failed"} : End(s, pc) BY <3>5 DEF Replay, RefuseQuote, Fail
      <4>3. UNCHANGED <<cart, price, asks, quotes, requests, orders>>
        BY <3>5 DEF Replay, RefuseQuote, Fail
      <4>4. QED BY <4>1, <4>2, <4>3, GiveUpStep
    <3>6. QED BY <2>6, <3>1, <3>2, <3>3, <3>4, <3>5 DEF Checkout
  <2>7. CASE UNCHANGED vars
    BY <2>7 DEF vars, IInv, TypeOK, Placed, Ready, Unminted, Current, OneOrderPerQuote, At
  <2>8. QED BY <2>1, <2>2, <2>3, <2>4, <2>5, <2>6, <2>7 DEF Next
<1>2. QED BY <1>1, InitInv, PTL DEF Spec

\* A page's key buys once, however often its request is sent (cart.ts:1123-1144).
THEOREM KeyBuysOnce == Spec => []OneOrderPerKey
<1>1. IInv => OneOrderPerKey BY DEF IInv, Placed, OneOrderPerKey
<1>2. QED BY <1>1, InvHolds, PTL

\* A quote buys once, whichever requests carry it (shipping-quote-store.ts:163-184).
THEOREM QuoteBuysOnce == Spec => []OneOrderPerQuote
<1>1. IInv => OneOrderPerQuote BY DEF IInv
<1>2. QED BY <1>1, InvHolds, PTL

\* An order buys the lines at the price of the quote it used up (cart.ts:1019-1082).
THEOREM BoughtAsQuoted == Spec => []PricedAsQuoted
<1>1. IInv => PricedAsQuoted BY DEF IInv, Placed, PricedAsQuoted
<1>2. QED BY <1>1, InvHolds, PTL

\* Only the transaction places orders, and only its own request's.
LEMMA OnlyCommitOrders ==
  ASSUME [Next]_vars, NEW s \in orders' \ orders PROVE s \in Submissions /\ Commit(s)
<1>1. CASE \E x \in Submissions : Commit(x)
  <2>1. PICK x \in Submissions : Commit(x) BY <1>1
  <2>2. orders' = orders \cup {x} BY <2>1 DEF Commit
  <2>3. s = x BY <2>2
  <2>4. QED BY <2>1, <2>3
<1>2. CASE \E x \in Submissions : \/ Submit(x) \/ (\E i \in 1..Parts : ReadPrice(x, i))
                                  \/ CheckQuote(x) \/ Replay(x) \/ RefuseQuote(x) \/ Fail(x)
  BY <1>2 DEF Submit, ReadPrice, CheckQuote, Replay, RefuseQuote, Fail
<1>3. CASE \/ \E p \in Products : \/ AddToCart(p) \/ RemoveRow(p)
                                  \/ \E n \in 0..MaxQty : SetQuantity(p, n)
           \/ \E i \in 1..Parts, new \in Prices : ChangePrice(i, new)
           \/ \E q \in Quotes : AskQuote(q) \/ \E i \in 1..Parts : PriceQuote(q, i)
           \/ \E q \in QuoteIds : ExpireQuote(q)
  BY <1>3 DEF AddToCart, RemoveRow, SetQuantity, ChangePrice, AskQuote, PriceQuote, ExpireQuote
<1>4. CASE UNCHANGED vars BY <1>4 DEF vars
<1>5. QED BY <1>1, <1>2, <1>3, <1>4 DEF Next, Checkout

\* A request during which no price, fee, tier or business status was edited charges the
\* total in force when its orders are placed, whatever its quote once said and however many
\* reads the total takes (checkout-lines.ts:126-241, cart.ts:985-1082).
THEOREM ChargedAsInForce == Spec => ChargedACurrentPrice
<1>1. IInv /\ [Next]_vars =>
        \A s \in orders' \ orders : sub[s].edited \/ sub'[s].price = price
  <2> SUFFICES ASSUME IInv, [Next]_vars, NEW s \in orders' \ orders, ~sub[s].edited
               PROVE  sub'[s].price = price
    OBVIOUS
  <2>1. s \in Submissions /\ Commit(s) BY OnlyCommitOrders
  <2>2. sub'[s].price = sub[s].price BY <2>1, CommitFacts
  <2>3. /\ sub[s].price \in Totals /\ price \in Totals
        /\ \A i \in 1..Parts : sub[s].price[i] \in {NoPrice, price[i]}
    BY <2>1 DEF Commit, At, IInv, TypeOK, Current, Running
  <2>4. \A i \in 1..Parts : sub[s].price[i] = price[i] BY <2>3, NoneAssumption DEF Totals
  <2>5. sub[s].price = price BY <2>3, <2>4, SameTotal
  <2>6. QED BY <2>2, <2>5
<1>2. QED BY <1>1, InvHolds, PTL DEF Spec, ChargedACurrentPrice

-----------------------------------------------------------------------------
(* The requests, the quotes and the keys implement the till.               *)

Purchase(s) == [by |-> s, key |-> sub[s].key, quote |-> sub[s].quote,
                lines |-> sub[s].lines, price |-> sub[s].price]
bought == {Purchase(s) : s \in orders}

\* A step that commits nothing leaves every purchase as it was.
LEMMA BoughtStays ==
  ASSUME UNCHANGED orders, \A s \in orders : Purchase(s)' = Purchase(s)
  PROVE  bought' = bought
BY DEF bought

\* COMMIT buys what the quote offers, for a key that no purchase has.
LEMMA CommitBuys ==
  ASSUME IInv, NEW s \in Submissions, Commit(s)
  PROVE  \E q \in QuoteIds : Promise!Buy(q)
<1>1. PICK k \in Keys \cup {NoKey}, q \in QuoteIds : k = sub[s].key /\ q = sub[s].quote
  BY CommitFacts DEF IInv, TypeOK, Request
<1>2. /\ s \notin orders /\ quotes[q].status = "open"
      /\ quotes[q].lines = sub[s].lines /\ quotes[q].price = sub[s].price
      /\ sub'[s].key = k /\ sub'[s].quote = q
      /\ sub'[s].lines = sub[s].lines /\ sub'[s].price = sub[s].price
      /\ \A x \in Submissions \ {s} : SameButRows(x)
  BY <1>1, CommitFacts
<1>3. quotes' = [quotes EXCEPT ![q].status = "used"] /\ quotes'[q].status = "used"
      /\ orders' = orders \cup {s}
  BY <1>1 DEF Commit, IInv, TypeOK, Quote
<1>4. \A b \in bought : b.by # s /\ (k = NoKey \/ b.key # k)
  <2> SUFFICES ASSUME NEW x \in orders
               PROVE  x # s /\ (k = NoKey \/ sub[x].key # k)
    BY DEF bought, Purchase
  <2>1. k # NoKey => requests[k] = Nobody BY <1>1 DEF Commit, Claimed
  <2>2. x \in Submissions /\ (sub[x].key # NoKey => requests[sub[x].key] = x)
    BY DEF IInv, TypeOK, Placed
  <2> QED BY <1>2, <2>1, <2>2, NoneAssumption
<1>5. bought' = bought \cup {[by |-> s, key |-> k, quote |-> q,
                              lines |-> quotes[q].lines, price |-> quotes[q].price]}
  <2>1. \A x \in orders : Purchase(x)' = Purchase(x)
    BY <1>2 DEF Purchase, SameButRows, IInv, TypeOK
  <2>2. Purchase(s)' = [by |-> s, key |-> k, quote |-> q,
                        lines |-> quotes[q].lines, price |-> quotes[q].price]
    BY <1>2 DEF Purchase
  <2> QED BY <1>3, <2>1, <2>2 DEF bought
<1> QED BY <1>2, <1>3, <1>4, <1>5 DEF Promise!Buy, bought, Purchase

\* A request that does not commit buys nothing and rewrites no purchase.
LEMMA OthersStay ==
  ASSUME IInv, NEW s \in Submissions,
         \/ Submit(s) \/ (\E i \in 1..Parts : ReadPrice(s, i)) \/ CheckQuote(s)
         \/ Replay(s) \/ RefuseQuote(s) \/ Fail(s)
  PROVE  bought' = bought
<1>1. sub \in [Submissions -> Request] /\ orders \subseteq Submissions
  BY DEF IInv, TypeOK
<1>2. UNCHANGED orders /\ s \notin orders
  BY DEF Submit, ReadPrice, CheckQuote, Replay, RefuseQuote, Fail, At, Running, IInv, Placed
<1>3. \A x \in Submissions \ {s} : sub'[x] = sub[x]
  <2>1. CASE Submit(s)
    <3>1. PICK t : sub' = [sub EXCEPT ![s] = t] BY <2>1, ZenonT(60) DEF Submit, End
    <3> QED BY <1>1, <3>1
  <2>2. CASE \E i \in 1..Parts : ReadPrice(s, i) BY <1>1, <2>2 DEF ReadPrice
  <2>3. CASE CheckQuote(s) BY <1>1, <2>3 DEF CheckQuote, End
  <2>4. CASE Replay(s) \/ RefuseQuote(s) \/ Fail(s)
    BY <1>1, <2>4 DEF Replay, RefuseQuote, Fail, End
  <2> QED BY <2>1, <2>2, <2>3, <2>4
<1>4. \A x \in orders : Purchase(x)' = Purchase(x)
  BY <1>1, <1>2, <1>3 DEF Purchase
<1> QED BY <1>2, <1>4, BoughtStays

\* A row that is inserted is an offer.
LEMMA RowOffers ==
  ASSUME IInv, NEW q \in QuoteIds, quotes[q] = NoRow,
         NEW lines \in Lines, NEW reads \in Totals,
         quotes' = [quotes EXCEPT ![q] = QuoteRow(lines, reads)], bought' = bought
  PROVE  Promise!Offer(q)
<1>1. quotes[q].status = "none" BY Blanks
<1>2. QuoteRow(lines, reads) = [status |-> "open", lines |-> lines, price |-> reads]
  BY DEF QuoteRow
<1>3. quotes'[q].status = "open" BY <1>2 DEF IInv, TypeOK
<1>4. QED BY <1>1, <1>2, <1>3 DEF Promise!Offer, bought, Purchase

\* The last read of a quote request offers; the others do not show.
LEMMA AskOffers ==
  ASSUME IInv, NEW q \in Quotes, AskQuote(q) \/ \E i \in 1..Parts : PriceQuote(q, i)
  PROVE  UNCHANGED <<quotes, bought>> \/ Promise!Offer(q)
<1>1. PICK lines \in Lines, reads \in Reads : Quoting(q, lines, reads) BY AskStep
<1>2. quotes[q] = NoRow /\ UNCHANGED <<sub, orders>> BY AskStep
<1>3. bought' = bought BY <1>2 DEF bought, Purchase
<1>4. CASE Complete(reads)
  <2>1. reads \in Totals BY <1>4, CompleteReads
  <2>2. quotes' = [quotes EXCEPT ![q] = QuoteRow(lines, reads)] BY <1>1, <1>4 DEF Quoting
  <2>3. q \in QuoteIds BY DEF QuoteIds
  <2>4. QED BY <1>2, <1>3, <2>1, <2>2, <2>3, RowOffers
<1>5. CASE ~Complete(reads) BY <1>1, <1>3, <1>5 DEF Quoting
<1>6. QED BY <1>4, <1>5

\* The quote a checkout mints itself offers what the request read.
LEMMA CheckOffers ==
  ASSUME IInv, NEW s \in Submissions, CheckQuote(s)
  PROVE  UNCHANGED <<quotes, bought>> \/ Promise!Offer(s)
<1>1. bought' = bought BY OthersStay
<1>2. CASE sub[s].quote = NoQuote
  <2>1. sub[s] \in Request /\ Complete(sub[s].price) BY DEF CheckQuote, IInv, TypeOK
  <2>2. sub[s].price \in Totals /\ sub[s].lines \in Lines BY <2>1, CompleteReads DEF Request
  <2>3. quotes[s] = NoRow BY DEF CheckQuote, At, IInv, Unminted
  <2>4. quotes' = [quotes EXCEPT ![s] = QuoteRow(sub[s].lines, sub[s].price)]
    BY <1>2 DEF CheckQuote
  <2>5. s \in QuoteIds BY DEF QuoteIds
  <2>6. PICK lines \in Lines, reads \in Totals : lines = sub[s].lines /\ reads = sub[s].price
    BY <2>2
  <2>7. quotes' = [quotes EXCEPT ![s] = QuoteRow(lines, reads)] BY <2>4, <2>6
  <2>8. QED BY <1>1, <2>3, <2>5, <2>7, RowOffers
<1>3. CASE sub[s].quote # NoQuote BY <1>1, <1>3 DEF CheckQuote
<1>4. QED BY <1>2, <1>3

\* Every step is a step of the till or none.
LEMMA NextMaps == IInv /\ [Next]_vars => [Promise!Next]_<<quotes, bought>>
<1> SUFFICES ASSUME IInv, [Next]_vars PROVE Promise!Next \/ UNCHANGED <<quotes, bought>>
  BY DEF bought, Purchase
<1>1. ASSUME NEW p \in Products, AddToCart(p) \/ \E n \in 0..MaxQty : SetQuantity(p, n)
      PROVE  UNCHANGED <<quotes, bought>>
  BY <1>1 DEF AddToCart, SetQuantity, bought, Purchase
<1>2. ASSUME NEW p \in Products, RemoveRow(p)
      PROVE  UNCHANGED <<quotes, bought>>
  <2>1. \A x \in Submissions : SameButRows(x) BY <1>2, RowsGone DEF RemoveRow, IInv
  <2>2. \A x \in orders : Purchase(x)' = Purchase(x)
    BY <2>1 DEF Purchase, SameButRows, IInv, TypeOK
  <2> QED BY <1>2, <2>2, BoughtStays DEF RemoveRow
<1>3. ASSUME NEW i \in 1..Parts, NEW new \in Prices, ChangePrice(i, new)
      PROVE  UNCHANGED <<quotes, bought>>
  <2>1. orders \subseteq Submissions /\ sub \in [Submissions -> Request]
    BY DEF IInv, TypeOK
  <2>2. \A s \in orders : sub'[s] = sub[s]
    BY <1>3, <2>1 DEF ChangePrice, IInv, Placed, At, Running
  <2>3. \A s \in orders : Purchase(s)' = Purchase(s)
    BY <2>2 DEF Purchase
  <2> QED BY <1>3, <2>3, BoughtStays DEF ChangePrice
<1>4. ASSUME NEW q \in QuoteIds, ExpireQuote(q)
      PROVE  Promise!Next
  <2>1. UNCHANGED bought
    BY <1>4 DEF ExpireQuote, bought, Purchase
  <2>2. [NoRow EXCEPT !.status = "expired"].status = "expired"
    BY DEF NoRow
  <2>3. quotes'[q].status = "expired" /\ \A o \in QuoteIds \ {q} : quotes'[o] = quotes[o]
    BY <1>4, <2>2 DEF ExpireQuote, IInv, TypeOK
  <2>4. Promise!Lapse(q)
    BY <1>4, <2>1, <2>3 DEF ExpireQuote, Promise!Lapse, bought, Purchase
  <2> QED BY <2>4 DEF Promise!Next
<1>5. ASSUME NEW q \in Quotes, AskQuote(q) \/ \E i \in 1..Parts : PriceQuote(q, i)
      PROVE  UNCHANGED <<quotes, bought>> \/ Promise!Next
  BY <1>5, AskOffers DEF Promise!Next, QuoteIds
<1>6. ASSUME NEW s \in Submissions, CheckQuote(s)
      PROVE  UNCHANGED <<quotes, bought>> \/ Promise!Next
  BY <1>6, CheckOffers DEF Promise!Next, QuoteIds
<1>7. ASSUME NEW s \in Submissions, \/ Submit(s) \/ (\E i \in 1..Parts : ReadPrice(s, i))
                                    \/ Replay(s) \/ RefuseQuote(s) \/ Fail(s)
      PROVE  UNCHANGED <<quotes, bought>>
  <2>1. UNCHANGED quotes
    BY <1>7 DEF Submit, ReadPrice, Replay, RefuseQuote, Fail
  <2> QED BY <1>7, <2>1, OthersStay
<1>8. ASSUME NEW s \in Submissions, Commit(s)
      PROVE  Promise!Next
  BY <1>8, CommitBuys DEF Promise!Next
<1>9. CASE UNCHANGED vars
  BY <1>9 DEF vars, bought, Purchase
<1> QED BY <1>1, <1>2, <1>3, <1>4, <1>5, <1>6, <1>7, <1>8, <1>9 DEF Next, Checkout

\* However pages, retries, edits, price changes, reads and the transactions of several
\* requests meet, each purchase is one step that takes a standing offer whole and as it
\* stands, once per key and per quote (cart.ts:1123-1160, shipping-quote-store.ts:163-184).
THEOREM CheckoutImplementsTill == Spec => ImplementsTill
<1>1. Init => Promise!Init
  BY Blanks DEF Init, Promise!Init
<1>2. IInv /\ [Next]_vars => [Promise!Next]_<<quotes, bought>>
  BY NextMaps
<1> QED BY <1>1, <1>2, InvHolds, PTL DEF Spec, ImplementsTill, Promise!Spec, bought, Purchase
=============================================================================
