# Q*bert on its three boards: a verification project

The repository builds a Q*bert game out of three processors. A PIC32
(`src/pic32`) takes the player's commands on its console and, over a wireless
link, from a second board; it writes them over SPI into an FPGA
(`src/MTL_basic/elec2103_mtl_demo/de0_nano`). In the FPGA a Nios II program
(`software/License_not_Found/main.c`) polls the SPI registers, computes where a
jump ends and writes the game's registers; the game itself is hardware
(`19_4_IP/*.sv`), which moves Q*bert pixel by pixel and paints the cubes. A
second FPGA with an LT24 screen (`src/LT24_final`) produces the commands.
Below, `$D` is `src/MTL_basic/elec2103_mtl_demo/de0_nano`.

Nothing in this chain waits for anything else. Registers are levels, not
events; the console cannot know that its command was seen, the Nios cannot know
that Q*bert moved, and each hardware machine watches the registers for itself.
What can go wrong is therefore in the interleavings, which no test bench of the
repository reaches. That is what the project checks.

Around the game the PIC32 does what boards do: one SPI channel is shared by seven
chips and five interrupt levels, images go from an SD card to the FPGA over the
same channel, messages go by radio from one board to another, out of a linked list
that an interrupt handler also fills. On the LT24 board three uC/OS-II tasks share
a mutex and a mailbox. Each of these is a module of its own.

## Inventory

| part | source | state | operations | what makes it correct |
|---|---|---|---|---|
| console of the PIC32 | `src/pic32/02_MTL/MyConsole.c`, `MyCyclone.c` | `old_jump`, `old_acc`, `old_gs` (add the base next?) | SPI command; restart | a command sent is seen once, or lost, never invented |
| SPI slave | `$D/MySPI.sv` | synchronisers, `SPI_state`, `SPI_counter`, address, data, `Led70`, `Blue`, `Trigger`, `Data_*` | one clock; a transfer of the PIC32, cut short or not; reset | a whole byte reaches its register once, a byte cut short reaches none, a read is not torn |
| Nios program | `$D/software/License_not_Found/main.c` | toggle bits, `elems`, locals of the loop | boot writes; poll, decode, write; restart | at most one flag raised; the cube computed is the cube reached |
| game registers | `$D/19_4_IP/mtl_controller_avalon.sv` | `e_start_qb` ... `e_tilt_acc` | bus write, bus read, reset | widths |
| game logic | `$D/19_4_IP/qbert_layer.sv` | `game_state`, `qbert_state`, `LIFE_qb`, `jump_reg`, `done_move_reg`, pixel | one clock | four lives; no jump but the ones asked for |
| boxes and screens | `$D/19_4_IP/Qbert_Map_Color.sv` | `position_qb`, `RGB_state`, `pause_play` | one clock | one box at a time; colours follow the pause |
| painted cubes | `$D/19_4_IP/cube_generator.sv` | `color_bit`, `color_state_reg` | one clock | a cube is painted when, and only when, reached |
| saucer | `$D/19_4_IP/soucoupe_layer.sv` | its own machine and pixel | one clock | not instantiated here |
| image counter | `$D/DE0_NANO.sv` | `counter_pix`, `current_img`, `loading`, `wait_dly` | a pixel received; switches; reset | the images are taken for loaded when, and only when, they are in memory |
| image loading | `src/pic32/MyFiles/MyMDDFS.c` | the file, the buffers, the reserved channel, `r`, `i`, `j` | show at the start, show asked for, one row read, one pixel sent, every failure of the card | nothing is kept after a failure; card and FPGA never use the channel at once |
| wireless link | `src/pic32/MyFiles/MyMIWI.c`, `MyFifo.c`, the banks of `MRF24J40.c` | queue, `limit`, `OldID`, `done`, receive banks | insert, receive, acknowledge, send, wait, give up | a message is tried `lim_max` times and leaves; tries are its own; packets are not written over |
| list of messages | `src/pic32/MyFiles/MyFifo.c`, INT2 of `MyCyclone.c` | `f_head`, `f_tail`, `fSize`, nodes, malloc | each statement of `fifo_add` and `fifo_remove`; the interrupt | a queue; no pointer to freed memory |
| SPI bus | `MyCyclone.c`, `MyIO.c`, `MyTemperature.c`, `MyFlash.c`, `MyMDDFS.c`, `WF_Spi.c`, `MRF24J40.c` | interrupt enable, channel configuration, chip selects, saved globals, the card initialised | call, disable, configure, `FSInit`, select, bytes, deselect, restore; interrupts and returns | bytes reach one chip; nothing stays masked or reconfigured |
| LT24 program | `src/LT24_final/software/LT24_final_sw/main.c` | `S_Mutex`, mailbox, `send_data`, `MU_1`, `MU_2`, `Idle`, `Pause`, delays | each step of the three tasks; a tick | only the owner works; some task plays |
| LT24 touch driver | `terasic_lib/touch_spi.c` | ring of ten points | alarm; read; empty | not modelled: any point is taken for the one returned |

Interaction in the game: console -> SPI registers -> Nios (poll) -> game registers -> game
logic (every clock) -> `position_qb` -> Nios (poll). No part waits for another.
The PIC32 and the Nios can each be restarted alone; the hardware game cannot
(`qbert_layer` ignores its `reset` input). `PROJECT.json` lists the hazards of
this code line by line, with the properties that cover each. Around it: the
console adds messages to the list, `MyMIWI_Task` sends its first one and takes out
what was acknowledged; every driver brackets its bytes with the moves of the SPI
bus; `MyMDDFS.c` writes its pixels through the slave into the image counter.

## Modules

| module | models |
|---|---|
| `Pyramid` | the pyramid twice: `mvmt` and `rows` of `main.c` (numbers), and the geometry of the hardware (spots: row and column) |
| `Avalon` | the game registers as one record `e`, one write at a time |
| `NiosPlay` | the console, the three SPI registers and the Nios loop; `PlaySpec` is these parts alone, with any position on `position_qb` |
| `ToggleSlot` | abstract: what a register with a toggle bit promises its two ends |
| `QbertLayer` | one clock edge of `qbert_layer`, `cube_generator` and the two screen machines of `Qbert_Map_Color`, all four moving from the state before the edge |
| `MtlBoard` | `NiosPlay` and `QbertLayer` joined by the registers and by `position_qb` |
| `LivesGame` | abstract: four falls to a game |
| `PoliteBoard` | the board with a player who waits for the game before he types |
| `HopGame` | abstract: every jump asked for is made once, nothing else moves Q*bert |
| `JumpPath` | Q*bert's movements pixel by pixel, on the real coordinates |
| `SpiSlave` | a transfer bit by bit: the PIC32's lines, the synchronisers and the machine of `MySPI.sv`, one tick of the FPGA's clock at a time |
| `MsgQueue` | abstract: messages leave in order, each with the number after the one before |
| `MyFifo` | the list of `MyFifo.c`, one action per access to the list (a test and the assignments it guards are separate), with malloc, on either board; on the LT24 board with the INT2 handler |
| `MiwiLink` | `MyMIWI_Task` on every board, lossy air, the receive banks of the radio |
| `SpiBus` | the shared channel, its chips, the main loop and the nested handlers |
| `MCSpiBus`, `MCSpiSlave` | the instances of `SpiBus` and `SpiSlave` that TLC runs: who talks to which chip; which bytes are written and read |
| `ImageLoad` | a show read from the card in batches of rows, and the FPGA's count of it |
| `LT24Tasks` | the three tasks of the LT24 board, the scheduler as priorities and delays, the mailbox and its list of waiting tasks |
| `PyramidProofs`, `JumpPathProofs`, `BoardProofs` (of `NiosPlay`, `MtlBoard` and `PoliteBoard`), `MyFifoProofs`, `MiwiLinkProofs`, `SpiProofs` (of `SpiBus` and `SpiSlave`), `ImageLoadProofs`, `LT24TasksProofs` | theorems |

How state and actions correspond to the code:

- The Nios loop is cut at its bus accesses: `ReadPos`, `ReadGs`, `ReadJump`,
  `ReadAcc` (`main.c:104-107`, with the local computation that follows each),
  then `WriteMore`/`WriteLast`, one action per `IOWR_32DIRECT`. `todo` is the
  set of blocks of the loop that still have to write, `k` the next write of the
  block. `pos_qb`, `cmd` are the locals; dead locals are kept at 0.
- A register of one hot bit (`e_next_qb`, `position_qb`) is a cube number, 0 for
  none; `OneBox` justifies it for `position_qb`. `e_color_qb` is a set of cubes.
- Q*bert's pixel is a `spot` and a `leg`: 0 he leaves the spot, 1 he is in no
  box, 2 he is in the box of the spot (if there is a cube). A jump goes through
  legs 0, 1, 2 in this order; `JumpPath` checks that on every pixel.
- The counters that slow a movement down (`count`, `speed`) are abstracted:
  `LayerWait` lets the movement wait any number of clocks.
- Two clocks of latency of `monster_position` and the single clock between
  leaving `INIT` and the pixel being at its start are not modelled; a pixel
  lasts 2^17 clocks or more.
- In `NiosPlay` a transfer on the SPI bus is one step; `SpiSlave` is the reason
  why it may be. Bus clocks and the game's clock are
  interleaved one step at a time; registers crossing them change between steps.
- Constants of this snapshot are folded in: `qb_on_sc`, `e_win_qb`,
  `mode_arcade` and `gameover_qb` are 0 (`DE0_NANO.map.rpt:13217-13226`), so the
  ride on the saucer, the win, the coins and the game-over screen are
  unreachable.

- `SpiSlave`: an action is one clock of the FPGA (`Tick`: two flip-flops per line,
  the state machine, its counter, the shift registers, the update) together with at
  most one change of a line by the PIC32. Half a period of the PIC32's clock is five
  ticks (`SPI1ABRG` for 5 MHz at 50 MHz), one more or less since the clocks are
  independent; between two bytes and between two calls the software takes a few
  ticks more. A byte is a vector of `W` bits, and one register stands for those of each kind:
  one that both ends use, the one that pulls `Trigger`, and an input.
- `MyFifo`: malloc returns any address that is free, so a freed node comes back with
  what it held. The interrupt runs between two accesses to the list and to its end:
  also between the test of `f_tail` (`MyFifo.c:52`), the two assignments of
  `f_head = f_tail = fn` (`TestTail`, `LinkFirst`, `MoveHead`; unoptimised, the second
  may read `f_tail` again, so it takes either value) and those of the other branch. `Number`
  is `strtok`, whose static pointer the handler moves. `order` is a history variable:
  the nodes in the order they were linked. `board` says whose program this is: the
  handler of `src/pic32/02_MTL/MyCyclone.c` adds no message, the ones of `MyFiles`
  and `01_LT24` do.
- `MiwiLink`: `MyMIWI_Task` in two halves, receive and send, one action per path
  through each. A broadcast reaches any subset of the other boards (`Heard`). The
  queue keeps a pointer to a local array of a function that has returned, which
  `fifo_add` has cut; `Residue` is what may be there when the text is sent. A packet
  without the parts the receiver expects makes `strtok` return NULL, and the board
  traps (`Trap`). `acquis` is set and never read; packets with an empty payload are
  discarded by the stack (`P2P.c`); the radio is taken to be connected.
- `SpiBus`: a context is the main loop or an interrupt level, `at` is where it is in
  an access. A handler interrupts what has a lower priority while interrupts are on.
  `Uses` says who talks to which chip. The drivers of the WiFi chip and the temperature
  sensor configure the channel themselves when they reserve it. `MyMDDFS_SaveSPI` only
  saves: the channel is configured by `FSInit` (`Mount`), once for an image. Between two
  batches of rows the normal configuration is restored, and `MyMDDFS.c:320-324` opens the
  file again without `FSInit`, so from the second batch on the card is read in the normal
  configuration. `ConfigsOf` therefore gives a card two configurations.
- `ImageLoad`: an image is one pixel wide, so a row is a pixel; a cell of `memory` is
  the image and the row it came from. The FPGA settles between two writes (they are
  microseconds apart, its clock 20 ns). The card fails at any opening of the file.
- `LT24Tasks`: a task runs until it waits. Delays are counters, `Tick` lets time go
  on when task3 has nothing to do; drawing takes as long as it likes. `OSMboxPost` gives
  its message to the waiting task of the highest priority, past the mailbox
  (`os_mbox.c:475-481`); only if nobody waits it goes into the mailbox, or is refused by a
  full one. A task whose 10 ticks are over is still on the list until it runs
  (`os_mbox.c:330-332`), so a post just then is not lost; then it asks again (`TimedOut`).

In some modules a definition named "Bug: ..." in its comment stands before the
one it deforms. No action uses it; it is a plausible mistake, kept to show that a
property notices it (`PROJECT.json`, "mutants").

## Runs

All runs are exhaustive. Times are for two workers.

| cfg | module | shows | states |
|---|---|---|---|
| `MCStatus` | `MtlBoard` | types, `PausedTint`, `FourLives`: pause, restart, menu and tilt typed at any moment, one cube | 2.7M, 125 s |
| `MCHops` | `MtlBoard` | `PaintedWereAsked`, `SentIsSeen`: jumps typed at any moment, on and off the pyramid, two rows | 540k, 30 s |
| `MCLinkResets` | `NiosPlay` | `AtMostOneFlag`; each SPI register implements `ToggleSlot`, with restarts of either end, the command 0 included, one row | 116k, 25 s |
| `MCPolite` | `PoliteBoard` | the whole board implements `HopGame` for a player who waits; `JumpLands` and `CubePainted` under fairness; two rows, all directions | 92k, 40 s |
| `MCJumpPath` | `JumpPath` | pixels against spots, legs and numbers, seven rows | 23k |
| `MCSpiSlave` | `SpiSlave` | `WritesArrive`, `OnePixel`, `NothingHalf`, `WholeReads`: transfers cut anywhere, resets of the FPGA, an input that changes at every tick | 1.6M, 140 s |
| `MCFifo` | `MyFifo` | MTL board: `ListIsOrder`, the list implements `MsgQueue`; both boards: `NoDangling`, `HeadWaits` | 6.4M, 95 s |
| `MCMiwi` | `MiwiLink` | `LimitOfFirst`, `DroppedAfterAllTries`, `KeptUntilTaken`; under fairness `FirstLeaves` | 41k, 30 s |
| `MCSpiBus` | `MCSpiBus` | `BytesReachOneChip`, `AtRest`, `GlobalsKept`; under fairness `InterruptsComeBack` | 23k, 10 s |
| `MCImage` | `ImageLoad` | `LoadedIsInMemory`, `NothingKept`; under fairness `ShowEnds` | 585k, 40 s |
| `MCTasks` | `LT24Tasks` | `WorksAsOwner`, `FlagTellsOwner`; under fairness `SomeonePlays` | 35k, 10 s |
| `MCCareless` | `PoliteBoard` | a disagreement with the comments of `main.c`: see below | - |

Bounds of the game. There is no artificial bound: every counter of the code that is
modelled is bounded by its register. `Rows` is the height of the pyramid, 7 on the board.
`MCJumpPath` takes it as it is. One row is enough for the status machine, which
only tells a cube from no cube; two rows have jumps that stay, that leave at each
edge, all four directions, and a cube asked for and never reached. What more rows
add is cubes, and that the numbers of the Nios and the displacements of the hardware
agree on those is proved for every height (`HopAgrees`) and checked pixel by pixel
on seven rows.
The command sets leave out the commands that a run does not tell apart (for
example 2 and 3 both start a game from the menu); every command appears in a run.
`MCLinkResets` has one row, as the Nios there sees any position, and the tilts 0 and 1:
a 1 is taken with its base, a 0 never is, and restarts and the untaken 0 both set the
parities of the two ends apart. (With two rows it passes as well, in three minutes.)

What two of the abstract modules do not say. `LivesGame` bounds the falls of a game: its
start, its end and a fall are free, so it counts lives and does not say when one may be
lost. `ToggleSlot` lets either end restart at any step, which is what the boards do; of
what was typed before a restart it promises nothing, and without resets `SentIsSeen`
says more. The target of `ShowEnds` includes the board at its start, where a
restart leads.

Bounds of the rest. `MCSpiSlave`: bytes of three bits (the first bit, the last one
and one between them), one value whose bits are not all equal (the addresses `001`, `010` and `011`, shifted in the
same way, tell their order apart), two values of the input, so that a torn read is a third
one. `MCFifo`: four nodes, so that the list is empty, has
one node, two, or more, with one being freed or filled beside them; two numbers, so
that the counter wraps all the time. `MCMiwi`: one sender, two waiting messages
(`MaxQueue`), two tries, two numbers and the two banks of the radio: a late
acknowledgement meets the next message, a full bank the next packet, a number comes
back. `MCSpiBus` has the seven chips, and the handlers of the code with their
priorities; a card is initialised or not, and a file on it is read in any number of
reservations.
`MCImage`: images of three rows in batches of two, so that the last batch is a part of
one, files a row short, and one show after the first (`MaxShows`). `MCTasks`: the
delays keep their order, not their ratios.

Fairness of the game. `FairSpec` assumes weak fairness of the Nios, an endless loop with no
wait but `usleep`, and of `PoliteMove`, the clock edge on which a movement counter
elapses: the counters count up by one at every clock and nothing resets them.
`JumpSlow` states that a movement (28 ms a pixel and more) does not end between
the three writes of one jump, which follow each other within a microsecond.
Nothing is assumed of the player.

Fairness of the rest. `MiwiLink`: the main loop calls `MyMIWI_Task` for ever and the
core timer counts; nothing is assumed of the air. `SpiBus`: the context that runs goes
on, handlers are finite, main reaches the point where it lets interrupts in, and loops
over registers or sectors end (strong fairness, since interrupts come in between).
`LT24Tasks`: time goes on (`Tick`), delays of a task leave the processor to those below
it for long enough (strong fairness of `task1` and `task2`), and a finger leaves
`BTN_CMD`; `SomeonePlays` asks also that the game is not paused for good. `ImageLoad`:
the PIC32 goes on; nothing is assumed of the card, nor that restarts stop.

What the runs show beyond the properties. The board's promise to a player,
`HopGame`, needs a player who waits: with jumps typed at any moment the Nios
computes from the cube Q*bert is leaving. And it needs jumps that stay on the
pyramid:

**Finding (`MCCareless`, `LandsOnNext`).** After a jump off the pyramid `main.c`
writes `e_next_qb` = 1 and leaves `e_jump_qb` (`main.c:169-172`; the write that
would clear the direction is commented out at 170). The game then sees the old
direction and a target that is not under Q*bert's feet, and repeats the jump
before. So he lands on a cube that is not in `e_next_qb`, which `main.c:166` and
`171` call the "next position qbert", and he does not fall where the player asked.

Disagreements met while modelling. These are not runs; the models contain the
behaviour, and the properties above are what holds in spite of it.

- LT24 board: the INT2 handler calls `MyMIWI_InsertMsg` (`MyFiles/MyCyclone.c:62`) in
  the middle of `fifo_add` or `fifo_remove`, and a message is lost or the list cut,
  where `MyFifo.c:38` says "Add an item to the end of the fifo" and `MyMIWI.c:306-307`
  that the function is only called from the console. `ListIsOrder` and `IsQueue` are
  therefore stated of the MTL board only.
- `MyMIWI.c:311` adds "id, followed by the text", but `fifo_add` cuts the text and
  keeps a pointer to a local array: what is sent is "G5" or what the stack holds then.
- `MyMIWI.c:363-364` promises to apply the instruction of a message. It is applied only
  if the end pointer of `strtol` is NULL (`:376`), which never happens, so nothing
  reaches the FPGA; and `done`, which `:60-61` introduces against applying a message
  twice, is never set.
- `MyMIWI.c:353`: "If it is an ack, we remove the message from the FIFO" - whatever its
  number. A second acknowledgement removes the next message.
- LT24, `main.c:67` and `158`: a task releases the mutex "if we have pressed KEY[1]".
  The mailbox holds a pointer to `send_data`, not its value: one press can hand the
  mutex over twice. And the post goes to the task that waits: while task1 keeps a button
  lit, a task2 that has not yet asked for the mutex gets the request, and waits for the
  mutex in place of task1 letting it go.
- `MyMDDFS.c:316-317`: "There is no need to check again for an SD card and to initialize
  the library". The library is still initialised, but the channel is in the normal
  configuration again, which `MyMDDFS_RestoreSPI` gave it back.
- `MyMDDFS.c:122` asks the user to try again after an error, but the pixels of the
  failed show stay counted in the FPGA, so the next show is never taken for loaded.
  And a file whose header has no rows leaves the channel reserved and the interrupts
  off, because the loop that gives them back does not run (`:260`).
- `DE0_NANO.sv:226` calls `Trigger` a 1-cycle pulse; the reset of `MySPI.sv:127` leaves
  it up when it comes one clock after a byte of blue. `OnePixel` counts pulses.

## Proofs

Checked by TLAPS for every value of the constants.

- `PyramidProofs`, `HopAgrees`: for every height of the pyramid, every cube and
  direction, the number `mvmt` computes is the number of the cube the hardware's
  displacement ends on, and 0 exactly when that spot is off the pyramid. The
  argument: the first number of row r+1 is that of row r plus r (`AboveNext`), so
  row starts are monotone (`AboveMonotone`) and the loop of `mvmt` finds row r
  exactly for the r numbers that follow (`RowSearchIs`, `RowOf`); then each
  direction at each edge (`EndRow`, `MvmtIs`). Assumes only `Rows` positive.
- `JumpPathProofs`: every pixel of every movement, on a pyramid of any height, with the
  sizes of the code. The invariant `PathInv` says where the point is: on the slide to
  the top cube (`Sliding`), at the centre of a spot at rest (`Resting`), on the two
  sides of the way from the cube a jump left (`Jumping`, `OnWay`), or on the line off
  an edge cube (`Leaving`). A point is in the box of one spot at most (`OneSpot`), so
  what is shown depends only on the pixels made since the start: the cube left up to
  `LeavesAt`, the one reached from `ReachesAt`, none in between (`WayShows`). From it
  follow `RestsOnSpots` (`SpotsAgree`), `OneBoxAlways` (`OneBox`), `LegsAreInOrder`
  (`LegsInOrder`, the abstraction `QbertLayer` rests on) and, with `HopAgrees`,
  `JumpsLandAsComputed` (`LandsAsComputed`). `StaysOnScreen` proves `TypeOK`, the point
  on the screen, for up to eight rows; the game has seven, and with nine TLC finds a
  tilt that leaves the screen by its top.
- `BoardProofs`, part 1, `PlayTypeCorrect` and `OneFlag`: the types, and at most one
  game flag raised, for every pyramid, every set of commands, with and without
  restarts. `AtMostOneFlag` is not inductive: a write raising a flag is safe only
  because the writes before it in the same group cleared the three others. `IInv`
  adds that history (`PlayInv`): while a status command is being written, every
  flag among the writes already done is 0; while the Nios boots, `e_start_qb`,
  `e_pause_qb` and `e_resume_qb` are 0, since the reset does not clear
  `e_menu_qb`. `GsShape` says what the proof needs of the four groups: all
  writes but the last clear, and every other flag is among them. The type of the
  cube computed rests on `HopAgrees`.

- `BoardProofs`, part 1, `GsIsSlot`, `JumpIsSlot` and `AccIsSlot`: each SPI register
  implements `ToggleSlot` under every interleaving, with and without restarts.
  `NextSlot` shows one step for all three registers at once (`SlotStep`); it
  needs that a register holds only what was typed, with or without its base
  (`AllHeld`, from which `Decoding`: both ends read the same command), and that
  the Nios holds nothing of a register before it reads it (`InHand`).
  `SeenWhenSent`: without restarts and without the command 0, `SentIsSeen`. The
  invariant is `SameParity`: the base is in a register exactly when the console's
  parity says so. Both hypotheses are needed: a restart of one end, or the
  command 0 with its base (`main.c:108-110` tests `>`), makes the parities differ.
- `BoardProofs`, part 2. `BoardPlays`: a behaviour of the board is one of `PlaySpec`,
  so all of the above holds on the board; the position the game shows is that of
  some spot (`BoardInv`). `BoardTypeCorrect`: Q*bert never gets further than one
  hop off the pyramid, because he takes off only from a cube (`LayerInv`: on leg 0
  he is on the pyramid). `PauseShown`: `PausedTint`; the two machines disagree on
  which of two flags wins, so it rests on `AtMostOneFlag`.
  `FourLivesImplemented`: the board implements `LivesGame`; the wrap of `LIFE_qb`
  to 15 is harmless by `LivesNeverWrapInPlay`. `OnlyAskedPainted`:
  `PaintedWereAsked`, by the chain `color_state_reg`, `e_color_qb`, `elems`;
  it assumes no restarts, since a restart empties `elems` alone.

- `BoardProofs`, part 3, `PoliteIsHopGame`: for every pyramid and every set of commands
  the whole board implements `HopGame` for the polite player. The invariant `HopInv`
  follows one jump from end to end: sent and not yet read by the Nios (`JumpSent`),
  being written to the game's registers (`JumpWritten`), left in them until it is made
  (`JumpLeft`); a new game finds no jump on that way (`NewGameClean`), and Q*bert is on
  a cube or between two (`OnCubes`). That the cube the Nios counts is the one he lands
  on is `HopAgrees` once more (`TargetIs`, `HopMoves`). It needs that a jump takes
  longer than the three writes of one (`JumpSlow`), but not that the parities agree.

- `MyFifoProofs`, `ListIsOrderAlways` and `FifoIsQueue`: on the MTL board, for any
  set of addresses and any last number, the list implements `MsgQueue`. The invariant
  says at every statement what the pointers are (`Shape`: nodes distinct, allocated,
  linked from head to tail; where the tail lags, what the local pointer is) and that
  the numbers follow each other (`Numbered`); linking a node appends to the queue,
  unlinking the head removes from it, everything else stutters. `NoDanglingAlways`,
  `HeadWaitsAlways`: on both boards. The interrupt of the LT24 board spoils the shape,
  so this invariant (`Safe`) says less: there is a set of allocated nodes that holds the
  head, the tail and every successor of its own (`Held`: `Ends`, `Successors`), no two
  of its pointers lead to the same node, and the local pointers are what the next access
  needs (`AtHand`); a node is only freed once nothing leads to it. A message lost between
  a test and the assignment it guards drops out of the set and may point anywhere, also
  to freed memory; nothing reaches it. Each kind of step keeps the set or changes it by
  one node (`OthersKeepSafe`, `LinkKeepsSafe`, `UnlinkKeepsSafe`, `InterruptKeepsSafe`).
- `MiwiLinkProofs`, `LimitOfFirstAlways`, `DropsAfterAllTries` and `PacketsAreKept`: for any boards,
  tries, banks and texts. `Counted` ties the queue, the tries of each message and
  `limit` of one board together; every action either keeps the three or changes
  them by one of four lemmas (add, remove, try, nothing). A packet that arrives takes a
  free bank or none (`ArriveKeeps`), and only the first full one is emptied
  (`DiscardKeeps`).
- `SpiProofs`, part 1, `BusIsShared`, `BusAtRest` and `GlobalsAreKept`: for any chips, any
  levels and any uses. Five parts: only the context that runs is inside an access
  (`Contexts`), interrupts are off exactly then and the saved status is what main set
  (`Enabling`), the radio's own interrupt is off exactly while it is selected
  (`Masking`), the chips selected are those being talked to (`Selecting`), and the
  configuration is one of the chip's inside its reservation, the normal one before and
  after (`Configuring`); for a card whose file is opened again it is the normal one
  inside as well, and that is what `BytesReachOneChip` says of it.
- `SpiProofs`, part 2, `WritesOnceWhole`, `NothingIsHalf`, `OnePixelPerByte` and
  `ReadsAreWhole`: for bytes of any width of two bits or more, any values written and
  read, a restart of the PIC32 and a reset of the FPGA at any tick, and every drift of
  the two clocks that `Long` and `Hold` allow. Where the machine of the slave is follows
  from the ticks `n` since the PIC32 last changed a line (`Starting`, `High`, `Low`): a
  level of three ticks is enough for the slave to have left the states that wait for it,
  and before the second byte five are. After CS has gone up the slave is behind by what
  it has not seen (`Stopping`): with the clock low it may still reach the end of the
  machine, but only if the last bit was put (`EndIs`); with the clock high, which is a
  restart, it cannot (`HighSinceGoesOn`). `Holding` then counts the bits: the address and
  the data end with those taken so far, so at the end they are the bytes sent. `Storing`
  and `Pulsing` say when the byte is in the register and when `Trigger` has been pulled;
  `Reading` that what is still to be sent and what has been got are the two parts of one
  value. Each step is shown for one edge of the slave and one move of the PIC32 together
  (`ControlStep`, `HoldingStep`, `ReadingStep`, `StoringStep`, `PulsingStep`).
- `ImageLoadProofs`. `NothingIsKept`: for images and batches of any size, whatever fails
  and whenever the board is reset; `HeldInv` says at every place of
  `MyMDDFS_ReadImg` what is held. It assumes that every file has a row (`SomeRows`): with
  height 0 among `Heights`, TLC finds the channel kept, as `MyMDDFS.c:260` does not run.
  `LoadedIsComplete`: `LoadedIsInMemory`. `StoredInv` compares the pixels
  stored with those due at the place of the PIC32 had all images before been of full
  height (`Due`): there are never more, and when there are as many the memory holds
  them in order (`OnCourse`); the FPGA's registers follow the pixels stored (`Counted`).
  It assumes that no file is taller than the screen (`NoneTaller`), which the code
  does not check (`MyMDDFS.c:223-230`, "should be 480"): with `Heights` {2, 4} and
  `Height` 3, TLC finds a tall image and a low one taken for loaded.
- `LT24TasksProofs`, `MutexIsKept` and `FlagTells`: for any delays. `WorksAsOwner` is
  inductive together with `FlagTellsOwner` and the types: a task that trusts its flag
  is the owner because the flag is only trusted where it tells the truth. A post moves
  the waiting task on to reading, where nothing is asked of the owner (`PostStep`).

The assumptions on constants are the named ones of the modules: a pyramid has a row,
the commands are those the protocol knows, a byte has two bits or more, the numbers,
tries and banks are positive, NULL is no address, the main loop is level 0.

Only model-checked: liveness (`JumpLands`, `CubePainted`, `FirstLeaves`,
`InterruptsComeBack`, `ShowEnds`, `SomeonePlays`), which is out of the prover's reach.

## Not modelled, and the plan

1. The ring of touched points of the LT24 board (`touch_spi.c`): the alarm that pushes
   against the task that pops, access by access (`Makefile:175` builds with -O0: `:140`
   and `:141` each read `fifo_rear`, which the alarm moves when the ring is full).
   `LT24Tasks` takes any point.
2. An abstract `Transfer`, in which a write to the slave is one step, and the proof that
   `SpiSlave` implements it: `NothingHalf`, `OnePixel` and `WritesArrive` say together
   what `NiosPlay` needs of it, but not as a refinement.
3. `Saucer`: `soucoupe_layer.sv` and the ride. The layer is not instantiated in this
   snapshot (`Qbert_Map_Color.sv:493-523`), so what the game makes of it is not in the
   code. Nor are the enemies of `src/MTL`, which no project file builds.

INT2 on the MTL board follows `IO_Time`, which nothing drives (`DE0_NANO.sv:183`); its
handler stores three values that three callbacks of the web page show one by one, and
nothing says that they belong together. Metastability at the crossings of the 33 and
50 MHz clocks is below these models.

Left out for good: drawing, `printf`, the drivers and stacks handed out with the
boards (CAN, camera, HTTP, WiFi and TCP/IP beyond their use of the SPI bus, the radio
beyond its banks, the file system, uC/OS-II itself; together nearly all the lines of
the repository), generated files, and the earlier snapshots of the same program.
