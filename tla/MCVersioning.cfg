CONSTANTS
    Undef = Undef
    Procs = {p1, p2}
    Targets = 2
    Locks <- MCLocks
    Versions <- MCVersions
    Generators <- MCGenerators
    Stamps = {noon, night}
    Repository = "axtp"
    SpecVersion <- MCSpecVersion
    SpecTag <- MCSpecTag
    Revision <- MCRevision
    Within <- MCWithin
    Checkouts <- MCCheckouts
    MaxRuns = 2
    MaxChanges = 1
    MaxTags = 1
SPECIFICATION Spec
INVARIANTS VersioningTypeOK PassedCheckIsCurrent ReleasesAreStamped
CHECK_DEADLOCK FALSE
SYMMETRY Symmetry
