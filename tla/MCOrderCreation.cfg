SPECIFICATION FairSpec
CONSTANTS
  Quotations = {q1, q2}
  Terms = {t1, t2}
  Keys = {k1, k2}
  Attempts = {a1, a2, a3}
  None = None
INVARIANTS AnswersAgree ConstraintsNeverRefuse NumbersHaveNoGaps
PROPERTIES ImplementsOrderBook RequestsEnd
CHECK_DEADLOCK FALSE
