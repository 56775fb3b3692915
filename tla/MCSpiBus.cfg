\* The handlers that use the bus, by their priorities, and the seven chips.
CONSTANTS
    Levels = {0, 1, 3, 4, 5}
    fpga = fpga
    wifi = wifi
    temp = temp
    sd = sd
    radio = radio
    io = io
    flash = flash
    Slaves = {fpga, wifi, temp, sd, radio, io, flash}
    Uses <- RealUses
    Early = {fpga, io, flash, temp}
    OwnConfig = {wifi, temp, sd}
    Sessions = {temp, sd}
    Cards = {sd}
    Radio = radio
    RadioLevel = 4
    Normal = Normal
SPECIFICATION FairSpec
INVARIANTS
    BytesReachOneChip
    AtRest
PROPERTIES
    GlobalsKept
    InterruptsComeBack
