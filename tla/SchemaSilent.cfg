SPECIFICATION SchemaSpec
CONSTANTS
    Schemas <- MCSchemas
    Documents <- MCDocuments
    TargetLists <- MCTargets
    Emails = {"abc"}
    MAX_DEPTH = 6
    MaxRequired = 2
INVARIANT NoErrorsMeansValid
