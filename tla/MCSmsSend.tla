----------------------------- MODULE MCSmsSend -----------------------------
EXTENDS SmsSend

CONSTANTS c1, c2, r1, r2, b1, b2, d1
=============================================================================
