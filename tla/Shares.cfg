SPECIFICATION ReferralSpec
CONSTANT None = None
INVARIANT CountsExistingShares
CHECK_DEADLOCK FALSE
