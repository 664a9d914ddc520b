SPECIFICATION StaffSpec
CONSTANTS
    People = {ann, bea}
    Founders = {ann, bea}
    Users = {bea}
    Roles <- MCRoles
    Requests = {r1, r2}
    Approvals = {a1, a2}
    NoOne = NoOne
SYMMETRY Symmetry
CHECK_DEADLOCK FALSE
PROPERTIES
    LockIsLiftedByTwo
    DecidedOnce
