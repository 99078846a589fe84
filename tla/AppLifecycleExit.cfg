SPECIFICATION Spec
CONSTANTS
    r1 = r1
    r2 = r2
    c1 = c1
    c2 = c2
    q1 = q1
    q2 = q2
    Routines <- TwoRoutines
    Rpcs <- OneRpc
    Requests <- OneRequest
INVARIANTS FailureStatusMeansFailure
