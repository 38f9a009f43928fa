------------------------ MODULE MCBackgroundProcess ------------------------
(* Instances of BackgroundProcess for TLC.                                 *)
EXTENDS BackgroundProcess

\* Next to other nodes: the commands that pause the background thread or take
\* disk_mutex.
LockedCommands == PausingCommands \cup {"log_qso", "quit"}
=============================================================================
