CONSTANTS
  Tabs = {t1, t2}
  Asks = {a1, a2}
  Domains = {d}
  None = None
SPECIFICATION Spec
INVARIANT TypeOK
INVARIANT NobodyIsForgotten
PROPERTY EveryQuestionEnds
