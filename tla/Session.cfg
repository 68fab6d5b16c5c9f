\* Two tabs of one browser and two logins.
SPECIFICATION FairSpec
CONSTANTS
  b1 = b1
  b2 = b2
  t1 = t1
  t2 = t2
  None = None
  MaxCalls = 1
  MaxExpiries = 2
  Tab = {b1, b2}
  Token = {t1, t2}
INVARIANTS TokenlessPagesAreForeign
PROPERTIES RedirectsRunDown NavigationsSettle
