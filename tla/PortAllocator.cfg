SPECIFICATION Spec
CONSTANTS
    Limit = 2
    PreLimit = 1
    Modulus = 7
INVARIANTS ReservationsHold NumberAvailable NoEarlyReuse
