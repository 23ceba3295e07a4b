SPECIFICATION Spec
CONSTANTS
  Products = {a}
  Quotes = {q}
  Submissions = {s1, s2}
  Keys = {k}
  Parts = 2
  Prices = {x, y}
  BuyNow = {TRUE, FALSE}
  MaxQty = 2
  NoKey = NoKey
  NoQuote = NoQuote
  NoPrice = NoPrice
  Nobody = Nobody
SYMMETRY Symmetry
INVARIANTS
  OneOrderPerKey
  OneOrderPerQuote
  PricedAsQuoted
PROPERTIES
  ChargedACurrentPrice
  ImplementsTill
CHECK_DEADLOCK FALSE
