------------------------------- MODULE MC_SyncIO -------------------------------
(* Model-checking instance of SyncIO: stream and datagram sockets, one-    *)
(* and two-byte buffers and peer writes, one timeout value, a transport    *)
(* that holds one unread byte of a stream, so a two-byte send can block.   *)
EXTENDS SyncIO

MCKinds == {"stream", "dgram"}
MCLens == {1, 2}
MCSegLens == {1, 2}
MCTimeouts == {0, 500}
=============================================================================
