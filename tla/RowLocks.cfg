SPECIFICATION Spec
CONSTANTS
    c1 = c1  c2 = c2  c3 = c3
    j1 = j1  j2 = j2
    i1 = i1
    Connections = {c1, c2, c3}
    Jobs = {j1, j2}
    Invoices = {i1}
    User = User
    Account = Account
    NoRow = NoRow
    StarterGrant = 2
    Cost = 1
    Credits <- OneCredit
SYMMETRY Symmetry
INVARIANTS
    TypeOK
    NobodyWaitsInACircle
PROPERTIES
    ImplementsAccount
