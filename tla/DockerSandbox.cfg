\* Two validations by one backend, every docker command failing in every way.
SPECIFICATION Spec
CONSTANT MaxRuns = 2
INVARIANTS TypeOK VerdictIsTheTools LeftoversAreManaged
PROPERTY ValidationsEnd
CHECK_DEADLOCK FALSE
