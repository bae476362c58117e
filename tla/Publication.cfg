\* Two requests and the worker, one revision of either kind, an approval against a rejection.
CONSTANTS
  Sessions = {s1, s2}
  Worker = w
  MaxRevisions = 1
  MaxReviews = 2
SPECIFICATION FairSpec
INVARIANTS ReadersSeeReviewed SearchHoldsReviewed
PROPERTIES SearchFollows
