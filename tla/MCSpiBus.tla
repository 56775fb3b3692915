------------------------------ MODULE MCSpiBus ------------------------------
(* An instance of SpiBus small enough for TLC.                             *)
EXTENDS SpiBus

CONSTANTS fpga, wifi, temp, sd, radio, io, flash

\* INT2 (1) reads the FPGA, INT4 (3) the WiFi chip, INT3 (4) the radio,
\* INT0 (5) the IO expander; the main loop uses them all.
RealUses ==
    ({0} \X Slaves) \cup
    ({<<1, fpga>>, <<3, wifi>>, <<4, radio>>, <<5, io>>} \cap (Levels \X Slaves))
=============================================================================
