CONSTANTS
    Undef = Undef
    Word <- MCWord
    NamePrefix <- MCNamePrefix
    CppName <- MCCppName
    Procs = {p1, p2}
    Commands <- MCCommands
    Together <- MCTogether
    Later <- MCLater
    Trees <- MCTrees
    SavedTrees <- MCSavedTrees
    Definitions <- MCDefinitions
    MaxSaves = 1
SPECIFICATION Spec
INVARIANTS GeneratorTypeOK PublishedIsClosed RegistriesAreSound FailedAllOrNothing
PROPERTY GeneratedInStep
CHECK_DEADLOCK FALSE
SYMMETRY Symmetry
