---------------------------- MODULE MCReceiptLog ----------------------------
EXTENDS ReceiptLog

\* A log found on the disk that another site wrote.
MCForeignLog == <<Receipt("elsewhere", 1, Genesis, 101), Receipt("elsewhere", 2, 101, 102)>>
=============================================================================
