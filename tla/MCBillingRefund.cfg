SPECIFICATION Spec
CONSTANTS
    dress = dress
    clip = clip
    Variants = {dress, clip}
    Catalogue <- MCCatalogue
    Bags <- MCBags
    Rates <- MCRates
    Rules <- MCRules
    Offers <- MCOffers
    Coupons <- MCCoupons
    Slabs <- MCSlabs
    MaxEdits = 1
INVARIANT RefundsWithinPaid
CHECK_DEADLOCK FALSE
