SPECIFICATION FairSpec
CONSTANTS
    Hardware = 3
    Policies = {"single", "quarter", "half", "threequarter", "all", "allexceptone"}
    Directions = {"ASC", "DESC"}
    Start = 4
    MaxGrow = 1
    Bad = {1, 3, 4}
    PageSize = 2
    BatchSize = 1
INVARIANTS ReturnedVerified ReturnedInvalid
PROPERTY Returns
