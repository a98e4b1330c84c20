--------------------------- MODULE MCUserAppQueue ---------------------------
(* Model checking of UserAppQueue: any client, with a queue that is room    *)
(* enough for some bursts.                                                  *)
EXTENDS UserAppQueue

\* The others are served as a send_state is, which the firmware sends.
EachCommand == {"erase", "write", "commit", "run", "dmx_config"}
FewCommands == {"write", "commit", "run", "send_state"}
=============================================================================
