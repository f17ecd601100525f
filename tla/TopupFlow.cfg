SPECIFICATION Spec
CONSTANTS
    MaxInvoice = 2
    Asked <- MCAsked
    Elsewhere <- MCElsewhere
    Configured <- MCModes
    ListLimit = 1
INVARIANTS
    TypeOK
    GrantIsWhatWasPaid
    LinksAreHonest
    NotificationsAreUnderstood
    PricesAreFair
PROPERTIES
    ModesAreSeparate
    PaidIsCredited
CHECK_DEADLOCK FALSE
