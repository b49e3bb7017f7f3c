SPECIFICATION Spec
INVARIANTS LaunchTruthful NothingLeft
