CONSTANTS
    PathCount = 2
    Contents <- MCContents
    BuiltIn <- MCBuiltIn
    Personas <- MCPersonas
    ClientLists <- MCClientLists
    Modules <- MCModules
    HealthTools <- MCHealthTools
    AskingTools <- MCAskingTools
    SilentTools <- MCSilentTools
    Namespaces <- MCNamespaces
SPECIFICATION FairSpec
INVARIANTS
    OfferedByPolicy
    NamespacesOfOnePolicy
    ReadyIsComplete
PROPERTIES
    StartupEnds
