------------------------------- MODULE Avalon --------------------------------
(***************************************************************************)
(* The registers of nios_mtl_controller through which the Nios II program  *)
(* commands the game logic: the Nios writes them one at a time over the    *)
(* Avalon bus (IOWR_32DIRECT), the game logic reads them at every clock.   *)
(* Registers that only place or time the drawing (enable, XY0, speed) are  *)
(* left out.                                                               *)
(***************************************************************************)
EXTENDS Pyramid

VARIABLE e      \* the registers e_start_qb, e_pause_qb, ... as one record

Flags == {"start", "pause", "resume", "menu"}

Bit == {0, 1}

\* The width of a register bounds what it can hold: e_next_qb, one bit per
\* cube, only ever holds one set bit or none, written as the cube's number.
Registers == [start: Bit, pause: Bit, resume: Bit, menu: Bit,
              jump: 0..4, next: {0} \cup Cubes, tilt: 0..3, color: SUBSET Cubes]

\* What Avalon_reset and power-up leave in the registers.
AvalonInit ==
  e = [start |-> 0, pause |-> 0, resume |-> 0, menu |-> 0,
       jump |-> 0, next |-> 0, tilt |-> 0, color |-> {}]

IOWR(w) == e' = [e EXCEPT ![w.reg] = w.val]
=============================================================================
