SPECIFICATION FairSpec
CONSTANTS
  Products = {p}
  Variants = {v}
  Plain = Plain
  Styled = Styled
  Catalogue <- MCCatalogue
  Owner <- MCOwner
  Orders = {o1, o2, o3}
  Baskets <- MCBaskets
  MaxUnits = 2
  MaxStock = 3
  Nowhere = Nowhere
INVARIANTS
  NeverOversold
  LedgerIsExact
PROPERTIES
  ImplementsShelf
  TransactionsEnd
