---------------------------- MODULE MCRunDelivery ----------------------------
EXTENDS RunDelivery
=============================================================================
