SPECIFICATION PlanSpec
CONSTANTS
    Precision = 5
    Policies <- SomePolicies
    Tasks <- SomeTasks
INVARIANT CriticalRiskIsHonoured
PROPERTIES
    HarderIsNeverCheaper
    ThriftNeverRaisesTier
