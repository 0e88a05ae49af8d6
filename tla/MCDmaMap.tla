------------------------------ MODULE MCDmaMap ------------------------------
(* The kernel configurations of the channel allocation runs. *)
EXTENDS S3CDmaMap

(* What the board's configuration builds: SD host and I2S sound. *)
Board == {SDI, I2S_IN, I2S_OUT}

(* The board's drivers, and SD host, AC97 microphone and I2S playback,     *)
(* whose order lists overlap from the first choice on.                     *)
BoardAndCrowded == {Board, {SDI, MIC_IN, I2S_OUT}}

BoardOnly == {Board}

(* The SD host flushes its running channel on errors; AC97 playback would   *)
(* hit nobody if it did.                                                    *)
FlushSafe == {SDI, PCM_OUT}

FlushPlayback == {I2S_OUT}
=============================================================================
