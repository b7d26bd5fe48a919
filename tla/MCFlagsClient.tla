---------------------------- MODULE MCFlagsClient ----------------------------
EXTENDS FlagsClient

\* A strict init with a timeout, the default, and one without polling.
MCInitOptions ==
    {[required |-> TRUE, timed |-> TRUE, refresh |-> TRUE],
     [required |-> FALSE, timed |-> FALSE, refresh |-> TRUE],
     [required |-> FALSE, timed |-> TRUE, refresh |-> FALSE]}
=============================================================================
