SPECIFICATION MCSpec
CONSTANTS
  Products = {p1, p2}
  Categories = {c1, c2}
  Uncategorized = uncategorized
  Requests = {r1, r2}
  None = None
  Options = {1, 2}
  Values = {"old", "new"}
  Seeded = 1
  MaxRows = 3
  IconCategories = {c1, c2}
  MaxCrashes = 1
  Banners = {p1, p2, p3}
  MaxOrder = 3
  Comments = {c1}
  Admins = {r1, r2, r3}
CONSTANT OptionPayloads <- SomePayloads
CONSTANT Forms <- SomeForms
CONSTANT Prices <- SomePrices
CONSTANT Discounts <- SomeDiscounts
CONSTANT Edits <- SomeEdits
SYMMETRY Symmetry
INVARIANTS
  TypeOK PriceMatches OrderedIsKept
  CopiesMatch ShownIconExists UnusedIsRemoved OrdersDiffer PublicHaveReplies
PROPERTIES ReplacesAll
CHECK_DEADLOCK FALSE
