----------------------------- MODULE MCSyncFeed -----------------------------
(* Small instances of SyncFeed for TLC.                                    *)
EXTENDS SyncFeed

CONSTANTS t1

\* Every client asks for one triple.
WantsOneTriple == [c \in Clients |-> t1]

\* No client sends a filter.
WantsAll == [c \in Clients |-> None]
=============================================================================
