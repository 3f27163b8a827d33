\* Two processes seal and open the holdout in five commands.
SPECIFICATION GuardSpec
CHECK_DEADLOCK FALSE
CONSTANTS
    c1 = c1
    c2 = c2
    sealed1 = sealed1
    sealed2 = sealed2
    empty = empty
    tracked = tracked
    out1 = out1
    out2 = out2
    outside = outside
    Command = {c1, c2}
    Dataset = {sealed1, sealed2, empty, tracked}
    NoDataset = NoDataset
    Empty = {empty}
    Inside = {tracked}
    Output = {out1, out2, outside}
    NoOutput = NoOutput
    Elsewhere = {outside}
    MaxRuns = 5
    Row <- MCRows
    Corpus <- MCCorpus
    SafetyCorpus <- MCSafety
    Configurations <- MCConfigurations
    Baseline <- MCBaseline
    Minimum = 850
    Maximum = 950
    Increment = 5
    Usual = 930
    Curve <- MCCurve
    Rank <- MCRank
SYMMETRY Symmetry
INVARIANTS SealCitesItsReceipt OpenedOnceUnlessOverlapped
