SPECIFICATION Spec
CONSTANTS
    NoObject = NoObject
    NoProgram = NoProgram
    Keys <- MCKeys
    Objects <- MCObjects
    Cases <- MCCases
    SpecOf <- MCSpecOf
INVARIANTS
    ErrorsNeverDecide
    DecidesWithoutErrors
    ProvenFailureWins
    SingleAgreesWithSet
