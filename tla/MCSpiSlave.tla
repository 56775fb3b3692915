----------------------------- MODULE MCSpiSlave -----------------------------
(* An instance of SpiSlave small enough for TLC: three bits a byte.        *)
EXTENDS SpiSlave

Led70Address == <<0, 0, 1>>
BlueAddress == <<0, 1, 0>>
StatusAddress == <<0, 1, 1>>
BytesWritten == {<<1, 0, 1>>}
BytesOfStatus == {<<0, 1, 0>>, <<1, 0, 1>>}
=============================================================================
