\* Three candidates on overlapping and adjacent spans, active pass and shadow
\* pass.  A request ends when its passes are done, hence no deadlock check.
CONSTANTS
    Candidate = {c1, c2, c3}
    Unset = Unset
    MaxGrade = 100
    MinConflictPositive = 20
    MinAdvantage = 15
    Active <- MCActive
    Feature <- MCFeature
    ShadowRequest <- MCShadowRequest
SYMMETRY Symmetry
SPECIFICATION Spec
INVARIANTS WinnersSound ActiveOrderFree SelectionIsKernel CompetitorsStaySuggestions
CHECK_DEADLOCK FALSE
