-------------------------------- MODULE MCRtc --------------------------------
(* Numbers at the edges of what rtcWrite takes, and between two powers.    *)
EXTENDS Rtc

MCRequests == {0, 1, 2, 3, 4, 1000, 1024, 2048}
=============================================================================
