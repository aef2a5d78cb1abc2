SPECIFICATION Spec
CONSTANTS
    None = None
    Absent = Absent
    Broken = Broken
    GitIgnore = GitIgnore
    a = a
    b = b
    c = c
    toA = toA
    toB = toB
    lib = lib
    package = package
    folder = folder
    layer = layer
    Sources <- MCSources
    Packages <- MCPackages
    Candidates <- MCCandidates
    Package <- MCPackage
    Directory <- MCDirectory
    LayerNames <- MCLayerNames
    Folder <- MCFolder
    Initially <- MCInitially
    Edits <- MCEdits
    MaxEdits = 2
    MaxReadFailures = 1
INVARIANTS
    FilesAreCurrent
    EdgesAreCurrent
PROPERTY
    DirtyClosureIsEnough
