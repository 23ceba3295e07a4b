-------------------------------- MODULE Till --------------------------------
(***************************************************************************)
(* What a checkout promises a customer, with no pages, requests or reads   *)
(* in sight: a quote offers some lines at a price; buying takes an offer   *)
(* that stands, as it stands, in one step, and uses it up.  One request    *)
(* key buys once (src/backend/routes/cart.ts, "Redeem the quote exactly    *)
(* once", "return the response snapshot of the first successful request"). *)
(***************************************************************************)
CONSTANTS Submissions, Keys, Quotes, Lines, Prices, NoKey
VARIABLES quotes,  \* what each quote offers, and whether it still stands
          bought   \* the purchases

\* (The status a step leaves comes first, so that a check rules most steps out early.)
Offer(q) == /\ quotes[q].status = "none" /\ quotes'[q].status = "open"
            /\ \E lines \in Lines, price \in Prices :
                 quotes' = [quotes EXCEPT ![q] =
                              [status |-> "open", lines |-> lines, price |-> price]]
            /\ UNCHANGED bought

Lapse(q) == /\ quotes[q].status = "open" /\ quotes'[q].status = "expired"
            /\ \A other \in Quotes \ {q} : quotes'[other] = quotes[other]
            /\ UNCHANGED bought

Buy(q) ==
  /\ quotes[q].status = "open" /\ quotes'[q].status = "used"
  /\ quotes' = [quotes EXCEPT ![q].status = "used"]
  /\ \E s \in Submissions, k \in Keys \cup {NoKey} :
       /\ \A b \in bought : b.by # s /\ (k = NoKey \/ b.key # k)
       /\ bought' = bought \cup {[by |-> s, key |-> k, quote |-> q,
                                  lines |-> quotes[q].lines, price |-> quotes[q].price]}

Init == (\A q \in Quotes : quotes[q].status = "none") /\ bought = {}

Next == \E q \in Quotes : Offer(q) \/ Lapse(q) \/ Buy(q)
Spec == Init /\ [][Next]_<<quotes, bought>>
=============================================================================
