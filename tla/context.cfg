SPECIFICATION Spec
CONSTANTS
    search_limit = 3
    Budgets <- SomeBudgets
    Lengths <- SomeLengths
INVARIANT PackageIsTruthful
PROPERTY RequestsEnd
