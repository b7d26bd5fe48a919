----------------------------- MODULE MCFilesPull -----------------------------
EXTENDS FilesPull

\* Every valid combination of offset, length and fromEnd, streamed or not.
MCRequests == ValidRequests
=============================================================================
