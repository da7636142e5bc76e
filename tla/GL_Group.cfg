\* Three repositories, of which two refer to each other and two share a directory's name.
SPECIFICATION GroupSpec
CONSTANTS
    Members <- ThreeRepos
    Basename <- Basenames
    Package <- Packages
    Estates <- SomeEstates
    Machines <- SomeMachines
    ExportCap = 1
    MaxBadWrites = 1
    MaxLoads = 2
INVARIANT DeferredAreNowhere
\* loads stop at their bound
CHECK_DEADLOCK FALSE
