------------------------------ MODULE MCArcaneLedger ------------------------------
\* Small ledgers: two linked files, a few transactions, clean failures.
EXTENDS ArcaneLedger
=============================================================================
