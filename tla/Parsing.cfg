\* Small processes with every way of flow, a large one and faulty ones.
SPECIFICATION ConverterSpec
CONSTANTS
    NoProcess = NoProcess
    NoSpec = NoSpec
    Diagrams <- MCDiagrams
INVARIANTS
    SpecFollowsDiagram
    ServedComplete
