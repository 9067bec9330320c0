# Verification of deep-space-detection

TLA+ models of the serial image transfer between the centre board (the
*master*, `master.c`) and the carried board (the *slave*, `main.c`), and of the
kernel driver by which the carried board talks to its FPGA. Each model is
checked by TLC on small instances; the safety of the serial link, of both
programs, of the driver's list of buffers and of its loading and unloading, of
the UART, and that the arithmetic coder decodes what it encoded, are also proved
with TLAPS for every instance. Paths below are relative to the
repository; `autostart` stands for
`project-spec/meta-user/recipes-apps/autostart/src`, `axi-tangxi` for
`project-spec/meta-user/recipes-modules/axi-tangxi`.

## The system

| component | code | state | operations |
| --- | --- | --- | --- |
| frame format | `autostart/transmission_protocol.c:7-103`, `.h`, `crc.c` | none | `frame2bit_stream`, `bit_stream2frame`, `crc16` |
| serial link | `autostart/transmission_protocol.c:105-169` | the bytes in tty and wire, the receiver's position in a frame | `send_frame`, `receive_frame`, `wait_frame` |
| centre board | `autostart/master.c` | images, output frame, loop over the image, `.bin` files | answer a request, store a data frame |
| carried board | `autostart/main.c` | output frame, `.yuv` files | request an image, store a data frame |
| driver, transfers | `axi-tangxi/axi_tangxi.c`, `axitangxi_dev.c:96-270` | completion, "last" flags, DMA registers, status register | ioctl, interrupt handler |
| driver, buffers | `axi-tangxi/axitangxi_dev.c:279-383` | list of allocations | mmap, munmap, address look-up |
| driver, life cycle | `axi-tangxi/axitangxi_dev.c:399-619` | registered interrupt, device, mapped registers | load, unload |
| user library, example | `axi-tangxi/include`, `axi-tangxi/examples` | the open device | init, malloc, free, loopback, destroy; constants for a picture's size |
| accelerator control | `axi-tangxi/axi_tangxi.c:358-577` | none reached | `acc_config`, `acc_start`, `acc_get` |
| arithmetic coder | `autostart/arithmetic_coding.cpp`, `scripts/arithmetic_coding.py` | interval, pending bits, partial byte | write, finish; decode (Python) |
| probability model | `autostart/coding.cpp` | none | frequencies of a mixture of normals |
| UART logic | `hw/project.srcs/sources_1/imports/new/*.v` | shift registers, counters, one byte of buffer | receive, transmit, echo |

The slave sends one request when it starts; the master answers a request with
the data frames of the image and a request for the compressed image
(`docs/resources/serial-transmission-protocol.md:12-19`). The two programs share
nothing but the line. Both wait in `wait_frame`, which polls a non-blocking
descriptor; `wait_frame` also writes into the caller's output frame. On the
carried board user threads enter the driver by ioctl, the driver writes the
DMA registers of the FPGA and sleeps on a completion, and the interrupt handler
completes it; all of this goes through one unlocked global,
`axitangxi_irq_data`.

What makes it hard: reads and writes may stop anywhere in a frame, and what a
failed read took is lost; the buffers a frame is assembled and parsed in are
never cleared; the wire garbles and drops bytes; sends and file writes fail in
the middle of a sequence; interrupts overtake each other, are lost in a
one-cause status register, and arrive after the call they belong to has timed
out; the list of buffers keeps entries that have been freed, and is read while
it changes; a load that fails half-way leaves behind what it has registered, and an
unload the mapping of its interrupt.

What makes it correct: a frame that is delivered is a frame that was sent, once,
in order; nothing undisturbed is lost; the poll loop makes progress; an answer
is the image from its start; a file holds the data received in order; a transfer
that reports success has moved its data; every call returns; a buffer is found
with its own memory; an unloaded driver, whenever interrupts come, does no harm.
The code keeps some of this only under conditions, which the properties name.

## Modules

### Serial link

`FrameCodec` is the frame format. A bit stream is a sequence of *cells* of two
bytes, since every field has an even size. `Content` is
`frame_without_check_sum2bit_stream` (whose result contains old heap words
behind the payload: the parameter `heap`), `Accepts` and `ParsedFrame` are
`bit_stream2frame`. The check sum of a content is a cell that stands for that
content and equals no number: CRC-16 is taken to be collision free, so the
results hold up to an undetected CRC error. An odd `data_len` and the byte
order of fields are not told apart. A `data_len` above 512 makes the code copy
past its array; it is counted as a failure.

`SerialLink` is one direction of the line. `Send` is `send_frame`: a `write`
takes what there is room for. `ReadHead`, `ReadBodyFails` and `ReadBody` are the
two reads of `receive_frame`, called by the loop of `wait_frame`; a read may
return less than the line holds, because a cell may not have arrived yet. The
second read always asks for a whole data frame (the `switch` at 134-141 has no
`break`), so that a short frame takes cells of the next one along, although the
protocol document gives each type a fixed length. Between reads cells are added, garbled (`Garble`) or lost
(`LoseCell`); tty and wire are external. A `NULL` from the parser is copied from
and the process dies (`crashed`; the service file restarts nothing). `sent`,
`last` and `disturbed` are history variables, used by properties only; every
cell carries the number of the frame it belongs to.

`OrderedChannel` is what the link promises: frames may be lost, those that are
delivered were sent, come in order and at most once. `SerialLink` implements it
with the obvious mapping (`ImplementsChannel`).

| run | instance | shows |
| --- | --- | --- |
| `link_faults` | two kinds of frames, 3 sent, a line of 14 cells (a frame is 8 or 11, so the last write is cut), 1 fault, a heap of one word | `TypeOK`, `ImplementsChannel`; `UndisturbedDelivery`: request and control frames nobody disturbed are returned; `LineDrains`: the poll loop empties the line or dies |
| `link_every_type` | all kinds of frames, 2 sent, a line of 20 cells, no faults | violated: a data frame that arrives whole is not accepted, the parser reads its fields in another order than they are written in |

A wrong check sum kills the receiver too (`ReadBody`), where the protocol
document asks for the frame again
(`docs/resources/serial-transmission-protocol.md`); `LineDrains` therefore ends
in an empty line or a crash.

Two frames suffice for a frame to be cut, to be read together with the next one
or to be misread from its middle, and the third for the stream to go on behind
that. One fault in any cell covers header, type, length, payload and check sum.
The noise words are zero and the two type codes 1 and 3, so that a type can turn
into another, and the word in memory that is not cleared is one of them. The
payload is two cells, enough for a payload that is full, not full, or empty.
That the words of the heap, the kinds of frames and the line may be any is what
the proofs show.

Fairness: only the receiver is weakly fair, because `wait_frame` is a busy loop
(`transmission_protocol.c:159-168`). Nobody need send.

### Centre board

`CentreBoard` is `main` of `master.c`, one action per `case` and one per
iteration of the send loop. The line is open: any frame of `Inputs` arrives, any
`send_frame` may return -1. The loop of `parse` that loads the images never runs
(the first loop has taken `getopt` to the end of the arguments), so `imgs` is
whatever `malloc` returned: `size` is any `off_t`, also a negative one, `name`
any name, also one that two images share, and `CopyFaults` and `NameFaults` may
kill the program where `file` or `name` is used. The number of a request is not
compared with `img_number` either: what is read behind `imgs` is any value, each
time another (`SizeRead`, `NameRead`), or faults (`ReadFaults`). `TotalFrames`
and `DataLen` compute as C does: signed, rounded towards zero, the first then
taken for a `size_t` (`Words`), the second for a `uint16_t` (`Lens`).
`code[n]` is the `.bin` file of the name `n`; a failing `fwrite` keeps a prefix
of the frame. `opened` and `covered` are history: what the files were opened
for, and the cells of the answer in progress.

Run `centre_board`: blocks of two cells, two images of 0, 3, 4, -1 or -2 cells
and one of two names, requests and data for them and for an image that is not
there, two frames in. It shows that every answer is what `file` points to from
its start, without gap or repetition, and passes the end of the image only if
its size is a block or more below zero (`AnswerIsPrefix`; the last block's length
is then a large number, and the copy of it kills the program); that an image
that ends with a part of a block is sent whole (`PartBlockIsSent`); that
requests do not multiply (`RequestsMatch`); that the files keep the order of the
received data (`CodeInOrder`); and that every answer ends (`AnswerEnds`), for
which the steps of the loop are weakly fair: they wait for nobody.

An image of whole blocks loses its last one: its length is `size % 512`, which
is 0 (`master.c:105`). The 3840x2160 YUV422 image that the protocol document
has transmitted (`docs/resources/serial-transmission-protocol.md:9`) is of that
kind. No property promises that such an image is sent, and none takes its loss
for a promise.

### Carried board

`CarriedBoard` is `main` of `main.c`. `PrintedLength` models the one formatting
the control depends on: a data frame is kept only if its number prints in four
characters, because the length of the file name is compared with a length
computed for four. `NameOverruns` is the write behind the end of that buffer.
Run `carried_board` has frames of every type and numbers on both sides of that
rule, four of them in any order: the files are what was received for them
(`FilesAreTheDataReceived`). It follows that the data of image 0, which
the slave asks for (`main.h:30`), is dropped, and of image 1 of the protocol
document too. A request for a
code stream is not answered yet (a TODO in the code).

### Driver

`Loopback` is the loopback ioctl (`axi_tangxi.c:96-241`) with the interrupt
handler (`axitangxi_dev.c:112-162`). The state of each caller is its position
in the ioctl, its arguments among it (`size`, `room`); `comp` are the completions in the callers' stack frames, `target`
the global that points to one of them, `last` the two flags the ioctl uses, by
pass. Register writes, waits and wake-ups of different callers and the steps of
the handler interleave: it reads the cause (`ReadIrq`), tests the flag and loads
`comp` (`TestLast`), signals (`Complete`) and clears the register (`ClearIrq`),
and on another core a waiter may give up and the next call begin between any two
of these. A call is *sound* if its buffers are covered (as in `Buffers`) while
it looks them up, the user's pointer it prints from is mapped and its
`burst_data` is that of `axitangxi_data_init`; one that is not loops for ever or
crashes the kernel in its look-ups, its print or its loop of empty bursts
(`Stray`). The FPGA is external: it queues a burst when
the last of its four registers is written, carries bursts out in turn, and
raises an interrupt after reading and after writing, with the cause in a
register that holds one. Using a completion whose frame is gone may crash the
kernel or go unnoticed. What transfers to a wrong address destroy, and the
register writes of a loop of empty bursts, are left out.

Run `loopback`: two callers, two calls, of one burst (rounded up) or, when they
do not overlap, also of two, each call sound or not. As long as all calls are
sound and of one burst, none overlap, and none is given up while the FPGA or the
handler is busy, a call has its data back
when it returns 0 (`AloneIsDone`) and touches no dead completion
(`AloneIsSafe`): the flags left over from earlier calls do no harm then, even
after lost interrupts. The last condition is needed: a signal the handler has
still to give when its caller gives up goes to a frame that is gone, or wakes
the next call too early. The bursts of a call that overlaps no other stay within
its own buffer, rounded up, and overrun the receive buffer exactly if that is
shorter, since its size is not looked at (`BurstsInBounds`).
Every sound call returns (`EveryCallEnds`), with fairness for the steps of the
callers only, the expiry of the 10 s limit among them: the FPGA may do nothing.
Of an unsound call only its start is modelled, and it takes no part in the
fairness; if it loops for ever it keeps a processor, so that the others need
another one or a preemptible kernel. The example program uses exactly
one burst (1 MB). Run `loopback_done` finds what happens with two: the
first burst's interrupt ends the wait.

`Buffers` is the driver's list of allocations (`axitangxi_dev.c:279-383`), one
process with several threads. `Mmap` allocates an entry and a page, and
`LinkEntry` and `Publish` are the two stores of `list_add` a reader sees;
`MmapFails` is an allocation or a mapping that fails and leaks its entry.
`Munmap` is `vma_close`: the entry is freed and stays where it is on the list.
A *cell* is the memory of one entry. A freed cell keeps its content, is handed
to the next `Mmap`, or is filled by another user of the slab (`Scribble`, which
writes free cells only; a page that `mmap` has freed is still mapped to the user
and may by then hold live entries of the list, or anything else of the kernel's:
what the user writes there is left out). A
look-up, which takes no lock, walks entry by entry (`NotFound`, `Found`,
`WalkOn`, and `Stray` when it follows overwritten memory). `mmap` frees the page
it has mapped (380), so any page may be given out again at any time.

An entry allocated a second time is put on the list a second time. This closes
the list to a loop, which may cut off live entries and hold a look-up for ever.
What is left to promise is `AddressMap`, a map from buffers to pages in which a
look-up is one step: a buffer is *covered* until it, or one that was allocated
after it, is freed. The refinement mapping is the sequence `covered` of entries,
the oldest first, with the address and page found in their memory, and the
address each thread looks for while its buffer is covered. `covered` and `sure`
are history.

`DriverLifecycle` is the load and the unload (`axitangxi_dev.c:399-619`), step
by step, with processes that use the library (`libaxitangxi.c`) and a PL that
interrupts. `held` says for each thing registered in the kernel whether this
load registered it (`own`) or an earlier one that left it (`stale`): a load that
fails undoes nothing, and no unload disposes of the mapping of the interrupt
(550). The kernel may refuse anything, also to map an interrupt whose mapping
was kept (`MapIrq`); a load without the number of its line, or whose line a stale
handler holds, gets no interrupt. A refusal of the mapping, the interrupt
(`ret` is unsigned, 555), the device number, the character device or of
registers (`ioremap`, 400-440, is not tested) goes unnoticed. `refused` and
`spoilt` are history: what this load was refused, and whether a load has failed
since the last unload that had the number of the line.

`flaws` is what makes a loaded driver dangerous: an entry freed and left on the
list (299-301), a call that has returned while the PL is at work, so that `comp`
points into a frame that is gone, or a pointer that was never mapped
(`axi_tangxi.c:212`). `LoopbackCall`, `Malloc` and `Interrupt` may crash the
kernel where they meet one of these, or a register that is not mapped (`regs`).
External are the kernel's reference counts (an open file and a mapping each hold
the module, so that a buffer kept beyond `close` keeps the driver loaded) and
the rule that a device may be opened as soon as it has been created. If the
device tree has no node the load does nothing, which is not a step. The four
calls behind `reg_unmap` are one step: nobody can be in the driver by then.
Calls are atomic and one after the other; their steps are those of `Loopback`
and `Buffers`. The freed pages that processes may write to are left out here.

| run | instance | shows |
| --- | --- | --- |
| `buffers` | two threads, two addresses, two pages, two cells | a look-up of a covered buffer returns its page (`ImplementsMap`), touches no freed entry (`NoUseAfterFree`) and ends (`CoveredLookUpEnds`) |
| `buffers_shared` | one thread | violated: two mapped buffers have the same memory (`BuffersDisjoint`), where the list is said to hold the "parameters of different blocks of memory" (`axitangxi_dev.c:88`) |
| `lifecycle` | two processes with two buffers each, any number of loads | the kernel goes down by a load under way, the handler of a failed one, one of the flaws or a missing register, never by an unloaded driver that had its interrupt (`SafeOnceLoaded`); an unload leaves the mapping, and of failed loads at most a device number (`NothingLeft`); a loaded driver has its class, device and list and lacks only what was refused, or its interrupt (`LoadedIsWhole`); when the code goes nobody is in it and no handler stays, unless a load has failed (`CodeGoesUnused`) |

Two cells are enough for a freed entry to be added again, to close the list to
a loop of one and of two, and to cut off a live one; a thread only reads the
list, so that a second one adds nothing to the first but look-ups that start at
different times. Fairness: a thread in the kernel goes on (`Walk`); nobody need
call. Memory is taken to be sequentially consistent. Left out are a second
process with the same list, `fork` and partial `munmap`, for which the driver
has no `open` operation, and the back pointers of the list, which nobody
follows.

`docs/resources/build.md:334` reports that after an unload the interrupt may not be registered
again. In the model there are two ways to that: the mapping that no unload
disposes of is in the way (`MapIrq` refused), or the line is kept by a handler of
a load that failed at `class_create` or `device_create`. Either goes unnoticed,
and the driver is loaded without a handler. `free_irq` of an unload removes the
handler whoever registered it, if this load has the number of the line
(`FreeIrq`); an interrupt that comes before that runs code that is gone. Which of
the two the document saw, the kernel decides: nothing is promised of a reload
but what `LoadedIsWhole` says of any load.

### UART

`UartRx` and `UartTx` are the two state machines in Verilog: a record of
registers, and an operator `Clock` that maps them and the inputs to the
registers after one rising edge. `UartEcho` is `uart.v` with both on one clock,
one step per edge; a step is named for what the sender at the other end does in
that clock (`Continue`, `Pause`, `Begin`). `ResetPulse` is `rst_n`. The other
end's receiver is a second `uart_rx`, so that the bits on the line and not the
byte in a register are what counts. `under_way`, `owed`, `silence` and `muddled`
are history. A receiver samples a bit two clocks after its middle, since its
state machine starts when the start bit has passed two registers and the
sample is the level of the pin itself; a start bit one clock short is therefore
assumed of bits of 6 clocks or more only (`EchoAssumption`).

Run `uart_echo`: 6 clocks a bit, so that the middle of a bit differs from its
ends, all bytes of 2 bits, pauses of any length, start bits of 5 to 7 clocks, a
reset before any edge. The sender may keep sending without a pause until the
transmitter is a frame behind, which takes 26 bytes here. It shows that bytes come back unchanged
and in order (`EchoesInOrder`), when the first one can be lost
(`OverrunsOnlyWhenBehind`; the bound is sharp), and that silence brings all
state machines to rest with nothing under way, whatever a reset or an overrun
did before (`SilenceSettles`).

### Arithmetic coder

`BitStreams` are the streams of bits over a file of bytes, `ArithmeticCoder` the
coder on top: a message is encoded, finished and closed, then decoded. One turn
of a loop of `update` is one action (`EncoderUnderflow`, and the same for the
decoder); where the encoder shifts, each bit `shift` writes is one
(`EncoderTopBit`, `EncoderPending`), and then the registers move
(`EncoderShift`). Narrowing the interval is the action of the symbol.
`StateSize` is the width of the registers. The C++ and the Python encoder differ
in one thing, the variable `closed`: the range counts both ends of the interval
(Python, 1) or one (C++, 0). The decoder exists in Python only. A table is its
cumulative frequencies, which the C++ program passes one by one and the Python
program keeps in its frequency tables; frequencies are positive, which
`CoderAssumption` says and the code no longer checks.

Run `coder`: registers of 5 bits, messages of up to 4 symbols, each with one of
three tables: with equal frequencies, with a total of `MAX_TOTAL` and a symbol
of frequency 1, and with an odd total; a fourth is above `MAX_TOTAL` and
refused. Intervals around the middle, which put bits off, several in a row,
occur, and so do files of one and of two bytes. The message comes back
(`DecodedIsMessage`), the invariants that the comments of the Python program
state hold (`IntervalsGood`, `CodeInInterval`), the bits counted are those in the
file (`BitsCounted`), and a finished message is decoded to its end
(`EndIsReached`), with fairness for the loops of the program and not for the
caller's next symbol. Either encoder is chosen at the start. That the message
comes back is promised of the Python encoder only (`closed = 1`): with the C++
range in the encoder some message of these decodes to another. At 32 bits this
takes more symbols, because the parts differ by one in 2^32 at first.

The C++ range also is too narrow for a table of total `MAX_TOTAL`, which the
program accepts: run `coder_empty` finds five symbols that leave an empty
interval, its low end above its high end. `IntervalsGood` is therefore stated
for the C++ encoder as long as every total is below `MAX_TOTAL` (`Promised`),
and an empty interval is not narrowed again in the model. The decoder's bound is
the file: it may hold anything the encoder wrote, also such a message.

## Proofs

`SerialLink_proofs` starts with the frame format. For every payload size, frame,
buffer and heap it proves `AcceptedIsSent` (what the parser accepts under the
check sum of a sent frame is that frame), `ShortFramesReadBack` (request and
control frames survive the round trip) and `DataFramesReadBackOnlyIf`
(a data frame is read back only if the low half of its file number is its length
and its data begin with the rest of the number, the frame number and the length,
as far as they go; of the frames the master sends for file 0, that can only be
the empty one at the end of an image of whole blocks).

It then proves `Spec => []TypeOK` (`TypeCorrect`) and
`Spec => ImplementsChannel` (`LinkImplementsChannel`) for all constants that
satisfy `DataMaxAssumption` and `LinkAssumption`. Neither is inductive. The
inductive invariant `IInv` (`Invariance`) adds two facts: *Tagged*, a check sum
on the line or in the head is the check sum of the frame its cell is numbered
with, whatever the cells around it went through (numbers are never check sums,
so noise and heap cannot make one); and *Ordered*, the numbers on the line do
not decrease and are above that of the last frame returned. When `ReadBody`
accepts, the accepted check sum lies in the buffer at `CheckSumAt`; by *Tagged*
it is that of a sent frame, by `AcceptedIsSent` the frame returned is that
frame, and by *Ordered* no frame behind it on the line has its number. That is
a `Deliver` step of the channel; every other step is a `Send` or a stutter. The
heart of the argument is that a check sum is one cell, which is garbled or
dropped as a whole: noise may not be a check sum.

Its last part proves `Spec => []UndisturbedDelivery`. The invariant, `Orderly`,
says that as long as nothing was disturbed and only short frames were sent,
either all of them have been returned, or one is under way, whole: on the line,
or behind its head in the receiver. So the second read, which asks for too much,
finds nothing but that frame's own cells, and `ShortFramesReadBack` applies.

`Buffers_proofs` proves `TypeOK`, `NoUseAfterFree` and `Spec => ImplementsMap`
(`ListImplementsMap`) from `BuffersAssumption`, for any number of threads,
addresses, pages and cells. The inductive invariant says that the covered
entries are the front of the list, the newest first: they are taken, have
different addresses and are each the entry behind their address, the head
points to the newest, each to the one before it. Where the oldest one points to
is not said, which is what makes the loop harmless. Of a thread that looks for a
covered buffer it says that the walk is still in front of that buffer's entry:
at the head, or at a covered entry that is newer.
Freeing an entry takes the older ones from the promise, so that what remains is
again a front.

`DriverLifecycle_proofs` proves the properties of run `lifecycle` from
`LifecycleAssumption`, for any number of processes and buffers. The inductive
invariant (`Invariance`) lists what a load holds at each of its steps
(*OwnComes*, *ReadyComes*), that *stale* handlers and classes exist only while
`spoilt`, that what a load lacks so far was refused to it (*WholeSoFar*), and
that processes have the device open only once it is created and buffers only in
a live driver (*UsersCome*).

`CentreBoard_proofs` proves `TypeOK`, `AnswerIsPrefix`,
`PartBlockIsSent`, `RequestsMatch` and `CodeInOrder` from `BoardAssumption`, for
every block size, any sizes, negative ones among them, any names and frames. The
invariant relates the loop counter, the cells `covered` and the frame: after `i`
turns whole blocks have been covered, but for the last turn, which covers the
rest (`BlocksOfImage` is the arithmetic of that). `CodeInOrder` is about the data of all frames received so
far, one behind the other, whatever their number. What one more frame adds to
that (`FlattenAppend`) is proved by induction on their number (`Induction`,
which is the well-foundedness of the naturals, stated for a set and not for a
predicate).

`CarriedBoard_proofs` proves `TypeOK` and `FilesAreTheDataReceived` from
`BoardAssumption`, for any frames, numbers and payloads. The second is inductive
together with the types of what it speaks of: each frame received adds its data
to what its file should hold, and to that of no other (`OneMoreFrame`, again by
`FlattenAppend`). Which numbers print in four characters is `FourCharacters`.

`UartEcho_proofs` proves `TypeOK`, `EchoesInOrder`, `OverrunsOnlyWhenBehind` and
`SilenceSettles` from `EchoAssumption`, for bits of any even length, bytes of any
size, a sender that pauses as it likes and a reset before any edge. The
inductive invariant counts clocks. `Elapsed` is how long a receiver has been
busy, `Sent` how long a transmitter has been, both read off the registers; each
grows by one in an edge (`RxBusy`, `TxBusy`). *Following* says that a receiver is
where the clock of the frame on its line puts it, three clocks late, and that
the bits sampled so far are the frame's; `Shows` is all it needs to know of the
line, and `PinShows` and `TxShows` say it of the sender (whose start bit may be
off by one) and of the transmitter. With a *Front* and a *Back* receiver that
follow, a byte is at one of five places, and what is under way is what is at
them, the oldest first (*Pipeline*): an edge moves bytes between neighbours, of
which the first is taken by the other end (`FrontMoves`, `BufferMoves`,
`BackStep`). *Owing* relates the clocks the transmitter is owed to those it still
needs: a receiver hands a byte over half a bit before the frame ends, which is
what an overrun is short of. *Fresh* says how far apart sender and transmitter
are, so that no five bytes are under way at once. All of this holds unless
`muddled`; *Quieting* holds always, and says what a silence of a given length
has ended: first the reception, then the two bytes the transmitter may hold,
then a reception at the other end. After `Settle` clocks of it the rest
follows anew (`RestIsSynced`).

`ArithmeticCoder_proofs` proves `TypeOK`, `IntervalsGood`, `CodeInInterval`,
`BitsCounted` and `DecodedIsMessage` for registers of any width above two bits, any tables and both
encoders, from `CoderAssumption` and `PowersOfTwo`. The second only states
what 2^n and 2^(n+1) have to do with each other, which the provers do not know;
TLC evaluates it. What makes it go: a settled interval that is not empty is at
least a quarter and two wide, hence not below the total, so that every symbol
gets a part that is not empty (`Parts`); the part of the symbol the decoder
finds holds the code (`CodeInPart`), and a shift or an underflow keeps a code
between the ends, whatever bit comes in (`ShiftEnds`, `SecondEnds`). Before it
is decoded, the code is less than a power of two for each bit read.

That the decoded message is the message encoded (`MessageIsDecoded`) needs what
the encoder did earlier, which its registers no longer show. The invariant
(`MessageInv`) says there is a *trail*: the intervals of the encoder from the
first on, each with the bits written and pending and the symbols encoded, and
each following from the one before by a shift, an underflow or a symbol. For any
stream of bits, a point of the trail determines the code a decoder would have
there (`Code`), and forward a shift or an underflow makes of it what the decoder
makes of it (`CodeAfterShift`, `CodeAfterUnderflow`). Backward, a stream that
begins with the bits written and lies in the interval after a step was in the
one before it (`BackFromShift`, which needs the pending bits inverted,
`BackFromUnderflow`, `BackFromSymbol`). So, while it encodes, any stream that
begins with the output and ends up in the current interval lies in all of them
(`Sound`). The 1 of `finish` and the zeros after it make the code half the range, which
is in a settled interval (`HalfIsInside`); `close` adds nothing but zeros
(`CloseAddsZeros`). From there the decoder is always at some point of the trail,
and as the parts of two symbols have no number in common (`OnePart`), it takes
the encoder's symbol. The trail is not a variable of the model: the invariant
says that one exists. The induction over a number of bits, which the library
offers for operators only, is done for sets of numbers from the well-foundedness
of < (`Induction`).

`Loopback_proofs` proves `TypeOK`, `BurstsInBounds`, `AloneIsSafe` and
`AloneIsDone` from `LoopbackAssumption` and `NoneAssumption`, for any number of
callers and calls, any sizes with a largest one, and any length of burst that is
a multiple of 16 bytes. None of them is inductive. There are three layers.
*Apart*, while no two calls have overlapped, sound or not: at most one caller is in the
driver, and the registers it has written so far hold what it wrote, so that the
burst started by the fourth is its own; that the bursts and the rest add up to
the buffer, and that each burst begins at a multiple of 16 bytes, bounds it
(`OneTurn`). *Alone*, while all calls are also sound and of one burst and none was given up
while the FPGA or the handler was at work: the queue holds at most the burst of
the caller that waits for it, and an interrupt is pending, or the handler between
reading the cause and its signal, only while the completion of that caller is
initialised and not signalled. An interrupt that signals means an
empty queue, hence the next burst is issued with nothing pending, and the flags
of earlier calls cannot signal too early. *Carried*: as soon as the queue is empty again, the
memory the pass writes to holds the words of the caller.

Only model-checked: liveness (`LineDrains`, `AnswerEnds`, `EveryCallEnds`,
`CoveredLookUpEnds`, `EndIsReached`), which is out of the prover's reach. Every
safety property of the passing runs is proved.

## Not modelled, and the plan

Left out for good: the value of the CRC and its table, floating-point
frequencies in `coding.cpp`, option parsing beyond its effect on the images,
accelerator control (its reachable functions change nothing), build and board
files.

Not modelled so far, with the reason:

- Both programs over two links. With the receiver as it is, the composition
  shows little: a data frame with an image in it is not accepted
  (`link_every_type`), so that the slave dies of the first answer; and a lost first request leaves both waiting
  for ever, since nobody asks again (`main.c:44`).
- The mutable frequency table of the Python coder, whose cache of cumulative
  frequencies is `None` to the first caller after a change
  (`scripts/arithmetic_coding.py:401-415`). The coder's tables are given with
  their cumulative frequencies, as the C++ program hands them over.
- What a burst is given: the pages of the buffers of two callers may be the same
  (`buffers_shared`), and the four registers of a burst may be those of two
  callers (`axi_tangxi.c:328`, in `Loopback`). Nothing is promised of calls that
  overlap.
- The transfers to the TangXi chip and the rest of the ioctl commands, which are
  not called or change nothing in the driver.
