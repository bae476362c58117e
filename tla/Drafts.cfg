\* An editor, at the form or through the API, and the model; one document that changes and one observation.
CONSTANTS
  Editors = {e1}
  Model = ai
  Documents = {d1}
  Observations = {o1}
  MaxRevisions = 1
  MaxTime = 2
SPECIFICATION Spec
INVARIANTS TypeOK MissingSinceWritten AsOfItsSources
