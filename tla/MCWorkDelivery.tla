------------------------------ MODULE MCWorkDelivery ------------------------
EXTENDS WorkDelivery
=============================================================================
