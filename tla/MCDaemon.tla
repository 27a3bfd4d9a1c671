------------------------------ MODULE MCDaemon ------------------------------
(* Small instances of Daemon for TLC.                                       *)
EXTENDS Daemon, TLC

\* Connections and requests are interchangeable; for safety runs only.
Symmetry == Permutations(Conn) \cup Permutations(Req)
=============================================================================
