--------------------------- MODULE MCInboxReader ---------------------------
EXTENDS InboxReader

\* Every kind of call may fail.
AnyCall == Calls

=============================================================================
