\* One trajectory of at most eight steps, with edits, runs and crashes around it.
SPECIFICATION Spec
CONSTANTS
  Artifacts = {a1}
  None = None
  Milestones = {m1}
  Critical = {m1}
  Asked = {"passed"}
  Ends = {"abandoned"}
  Initial = {"direct-analysis"}
  Budget <- MCBudget
  Usage = {1}
  Debts = {"contradiction"}
  MaxRevision = 1
  Hazards = {}
INVARIANTS TypeOK SequenceIntact RepeatedFailureAnswered ClosedOnReflection
PROPERTIES ClosedOnProof AdmittedWithinBudget
CHECK_DEADLOCK FALSE
