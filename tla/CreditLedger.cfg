CONSTANTS
    u1 = u1  j1 = j1  j2 = j2  p1 = p1
    c1 = c1  c2 = c2
    Users = {u1}
    Jobs = {j1, j2}
    Invoices = {p1}
    Conns = {c1, c2}
    NoTx = NoTx
    JobOwner <- SoloJobOwner
    InvoiceOwner <- SoloInvoiceOwner
    CreditsGranted <- TwoCredits
    StarterGrantCredits = 2
    StarterGrantTTL = 1
    JobCreditCost = 1
    StarterRowMayFail = TRUE
    MaxTime = 1
SPECIFICATION Spec
SYMMETRY ConnSymmetry
INVARIANTS
    TypeOK
    AuditChain
    ChargeMatchesJob
    PurchaseMatchesPayment
    BalanceExplained
PROPERTIES ImplementsAccount

