# RoninOS: specifications

TLA+ models of the kernel of RoninOS, the TLC configurations that check them, and theorems about
them that TLAPS checks. RoninOS is a kernel for one i386 CPU without user mode: a shell runs
commands, the commands use a heap, a RAM file system, a FAT32 disk and kernel threads. Paths below
are relative to `src/kernel`, except `README.md` and `docs/`, the repository's own documents.

A fact that carries much of what follows is stated nowhere in the code. Interrupts are enabled once,
at `kernel.c:92`, and from then on they are open only while `main` sits in the `hlt` loop at the end
of `kmain`. A shell command runs inside the keyboard interrupt, a worker thread is entered from inside
an interrupt, and neither executes `sti`. So the unlocked scheduler, the VFS, the RAM file system and
FAT32 are all serialised by that. `Scheduler.tla` models where interrupts can come and the theorem
`Exclusion` proves it; the other models then take one command at a time.

## Inventory

| component (sources) | state | operations | interacts with | what is hard | what makes it correct |
|---|---|---|---|---|---|
| Threads (`sched/`, `apps/app_sched.c`, `pit.c`) | table of threads, current thread, preempt switch, saved `%esp` | create, yield, exit, `thread_switch`, timer tick | timer and keyboard interrupts, PIC | five-step hand-over without lock, entered from main, workers and both handlers; spawn that may be switched away from | one thread runs, saved contexts are right, hand-over is round robin, nobody starves, no panic |
| Interrupts (`isr*.`, `pic.c`, `idt.c`) | IF, requests, lines in service | accept, EOI, `iret` | scheduler, keyboard | a handler that leaves through a switch before its EOI | the line in service is the one whose handler is open; interrupts open again |
| Heap (`heap.c`) | list of block headers, end of the mapped range | init, `kmalloc`, `kfree`, `krealloc`, growth | frames, paging | split and merge by address arithmetic, growth that fails half way | list whole, no overlap, nothing leaks, failure harmless |
| Frames (`mem/pmm.c`) | bitmap, counters | init from the memory map, allocate, free | boot information, heap, paging | overlapping and unaligned regions, 32-bit cuts, order of freeing and reserving | nothing in use is given out, counters exact |
| Paging (`mem/paging.c`) | directory and tables | identity map, `map_page`, `unmap_page` | frames, heap, framebuffer | fixed virtual heap range against a machine-dependent identity range | what is read at its physical address is mapped there, outside the heap's range |
| FAT32 (`fs/fat32.c`, `apps/app_fat32.c`) | mounted volume; on disk: boot sector, FSInfo, two FATs, root directory, data | select, format, mount, ls, cat, write, rm | ATA driver | a command is several sector writes, each can fail or be the last before power-off | store of named texts; damage bounded by the number of faults; root directory never given away |
| RAM file system (`fs/ramfs.c`, `apps/app_fs.c`) | 96 nodes, linked lists of children | touch, write, append, rm, cp, mv, ls | VFS, fs command | table full, names too long, two-step copies and moves | table whole, a move loses no text, bounded map of texts |
| VFS (`fs/vfs.c`) | mounts, descriptors, working directory | mount, resolve, open, read, chdir | RAM file system, initrd, cat/ls/cd | relative paths, `..`, nested mount points, names cut at 23 characters | working directory stays one, files are reached |
| Initrd (`fs/initrd.c`) | table of 32 boot modules | fill from the boot loader's tags, find, read | VFS | more modules than entries, names cut at 31 characters, equal names | each module that was taken is shown whole under its name |
| Keyboard and shell editor (`input/keyboard.c`, `shell/shell.c`) | modifiers, prefix flag, line, cursor, history | one handler per scan code and key | terminal, framebuffer console, commands | prefix and code in two interrupts; keys between two assignments of `shell_init`; full history | screen shows the line, history whole |
| Terminal (`terminal/terminal.c`) | ring of 512 lines, window, input row | put, clear, scroll, render | shell, commands | ring wrap under a scrolled window | the last lines in order, a window on them |
| Console output (`console.c`, `fb_console.c`) | cells, pixels, cursor mark | put a character, scroll, choose a console | shell, commands | cells and pixels are kept up separately and never compared; `kmain` prints with interrupts open | the screen shows the cells, and they the line |
| Block devices, ATA (`block/`, `drivers/ata_pio.c`) | device table; two channels of registers, four drives | discover, read, write | disk command, FAT32 | drives that answer late, with an error or never; registers shared by two drives | a call reaches the sectors it addresses, fails for a reason, and returns |
| Commands, boot, exceptions, strings | none, or only output | | all | | not modelled (below) |

`PROJECT.json` lists under `hazards` each place where one of these things could go wrong.

## Plan

Most important behaviour first; each module is written so that it can be proved about (constants with
named assumptions, one action per operation, no recursive operators).

| step | modules | abstract specification | state |
|---|---|---|---|
| 1 | `Scheduler` | `RoundRobin` | checked, all safety properties and the refinement proved |
| 2 | `Heap` with the frames it takes | `Allocator` | checked, all invariants and the refinement proved |
| 3 | `Fat32` | `FileStore` | checked, all invariants and the refinement proved |
| 4 | `RamFs` and `Initrd`, composed in `Vfs` | `NamedTexts` | checked, all safety properties and the refinement proved |
| 5 | `PhysMem`: frames, identity map, heap pages | none | checked, all four invariants proved |
| 6 | `Terminal` and `FbConsole`, composed with `Input` | `Scrollback` | checked, all invariants and the refinement proved |
| 7 | `AtaDrives` (hardware) and `Ata` (driver) | `DiskService` | checked, `TypeOK` and the refinement proved |

Names: `X` is the model, `XProps` its properties, `MCX` the small instance for TLC, `X*.cfg` a run,
`XProofs` the proofs. An operator marked `broken:` is a plausible bug;
the project uses it to show that a property would notice it, and no specification refers to it.

## Scheduler

`Scheduler.tla` keeps the stacks as sequences of frames, each with the place its code has reached.
`sp` is the stack `%esp` is on; `thread_switch` saves and loads `esp`, which names a stack and a
depth. The five writes of a hand-over (`thread.c:125`..) are five actions, `SpawnFill` and
`SpawnPublish` are the two halves of `thread_create`, and `AcceptIrq` may come wherever IF is set.
Entry functions yield for ever or return. A third kind, which never yields, is used in one run. The workers of
the command `spawn` are of the first kind; `thread_exit` is reached through the second, which `thread_bootstrap` provides for
and no entry function of the repository is yet.

- `scheduler` (28 672 states; table of four threads, so two workers and a spawn that meets a full
  table; unbounded ticks and keys): six invariants, `ZombiesStayDead`, the refinement of `RoundRobin`,
  and two liveness properties.
- `scheduler_preempt`: `TimerPreempts`, what `docs/scheduler.md:26` says of `preempt on`, fails. A
  worker runs inside a handler with IF clear, so no timer interrupt comes until it yields.

Four threads are the least with a scan that passes over a zombie and a thread of its own and still has
a choice; threads are treated alike beyond tid 0.

*Fairness.* `WF(Execute)`: the CPU executes instructions. `WF(RaiseIrq(0))`: the PIT is programmed
to tick for ever. `WF(AcceptIrq(n))`: the CPU takes a pending, unblocked interrupt while IF is set
(`main` halts with IF set, so it stays enabled). No fairness is assumed of keys. `NobodyStarves`
needs preemption to be left on, since `main` itself never yields, and workers that yield.

*Also visible in the model:* zombies and their stacks are never reclaimed, so a boot sees at most
`THREAD_MAX - 1` creations; ticks while IF is clear are lost; the command `yield` leaves IRQ 1
without EOI while the workers run, so no key is taken then.

## Heap

`Heap.tla` has `kmalloc`, `kfree` and `krealloc` as steps: a scan, growth page by page, the end of
growth, the copy of a `krealloc`. Block headers are a function from addresses to records with `next`
and `prev`; frames and page tables are those that growth uses. The spinlock is not modelled: it
is never contended, see above.

- `heap_safety` (620 297 states; three owners, requests of 16, 40 and 150 bytes, pages of 128 bytes,
  four pages at most, five or three free frames): `WellLinked` (links both ways, no overlap, no two
  free neighbours), `Accounted` for the blocks and `FramesAccounted` for the frames, `FailsCleanly`, and the
  refinement of `Allocator`. The sizes make requests that fit a remainder
  exactly, leave too little for a header, need one page and need two. With five frames growth ends
  at the limit, with three it ends when the frames run out. Owners are interchangeable (symmetry).

`RetryFits` is the safety form of termination: `kmalloc` scans again after growth with interrupts off,
and every such scan finds its block. Growth that fails half way leaves mapped pages no block covers
(`heap.c:110` returns after `g_heap_end` has moved); `FramesAccounted` says that this happens
only when the heap could not grow by another page anyway. The smaller request that would have fitted into
those pages then fails.

## FAT32

`Fat32.tla` makes every sector write of a command an action: the FAT entry in the first copy, in the
second, the directory entry, the data. A write may be reported as failed, having reached the disk
or not; a read may fail; the power may go at any point (`PowerCut`), after which the volume has to be
selected and mounted again. Texts, names and clusters are model values; one cluster holds a file, as in the code.
`OldFat` is what an earlier file system left in the FAT, and `PER_SECTOR` is how many entries of it
one sector has. The disk below is one whose calls succeed or fail; what the ATA driver really does is
the subject of the next section.

- `fat32_faults` (3 086 630 states; four names, two texts, three slots, six clusters of which an earlier file
  system still has some, two faults): the root directory's cluster is never given away, no entry gets
  behind an end mark, damage is at most one lost cluster and one dangling or doubled file per fault, the FAT
  copies differ in at most one entry per fault, and until the first fault the sector writes of the commands
  implement `FileStore`, a store of named texts. Disk and directory both fill up: four names are one more than
  there are slots. Three faults give the same result, on fewer names.
  A format clears the first sector of each copy only; the clusters it leaves in use beyond that (`left`) are not
  counted as lost here, they are the subject of `fat32_format`.
- `fat32_dangling`: `WriteSucceeds` fails as soon as the stack frame is reused that `fs->dev` points into:
  `ensure_mounted` passes the address of a local `fat32_device_t` (`apps/app_fat32.c:82`). Reading
  such memory is undefined; the model lets the device be found or lost. README.md:337.
- `fat32_format`: `FormatFreesAll` fails, a format clears the first sector of each FAT copy only, while
  FSInfo says all clusters are free. README.md:435.

Not a finding but worth knowing: overwriting frees the old cluster before the directory has the new
one, and a read error in `find_root_entry` is taken for "not found" and so may create a name twice;
both are in `DamageBounded`.

## Block devices and ATA

`AtaDrives.tla` is the hardware: two channels, on each up to two drives that share its registers. A drive that is
busy ignores what is written to the registers; it shows that it is busy up to 400 ns late, and finishes
whenever it likes, with an error or not. `Ata.tla` is the driver on top, one action per access to the
registers or per block of data: detection of the four positions, the device table, and the calls that
read and write. The driver polls with interrupts off, so it never meets itself, but it does meet the drives.

- `ata` (293 916 states; three machines, among them two disks on one channel, a CD drive, a drive that reports no
  sectors, and no drive at all; addresses of 3 sector numbers, 2 cylinders and 2 heads; integers that wrap at
  24; calls of one and two sectors, although all callers pass one; one sector error): `ImplementsDiskService`, the
  refinement of `DiskService`, and `DriverReturns`. With two drives per channel, each way in which a call can hit
  the other drive's command or a late answer is there. Deadlock is not checked: with no drives everything stops
  after the boot.
- `ata_request`: `ReadsRequested` fails. `ata_pio_read` leaves bit 6 of the device/head register clear
  (`drivers/ata_pio.c:147`, and 182 for writes; `ata_identify` sets it), so the drive takes the address for cylinder,
  head and sector, where sectors count from 1. `disk read hd0 0 1` of README.md:317 fails on a working drive, and
  with it FAT32, whose boot sector is at address 0. The refinement therefore speaks of the sectors
  that an address names *to the drive*.

*Fairness.* Weak fairness of the driver's steps: the CPU executes it. Of `Notice`: a drive shows within 400 ns that
it is busy. While the boot looks for drives, those that are there finish; this is what `ata_identify` counts on,
since its two waits (`ata_pio.c:111`) have no bound. So `DriverReturns` says nothing about those waits beyond what is
assumed of the drives. Of later calls no such thing is assumed: `ata_poll_ready` counts its polls.

`DiskService` makes two exceptions, and both come from the code. After a poll has given up, the drive still has the
command, and its late answer meets the next call on that channel: from then on nothing is promised of the
channel. And an error in the last sector of a write may be lost, since FLUSH is issued without waiting for BSY to end
(`ata_pio.c:198`); a drive that is busy does not see that FLUSH either. `lba + count` wraps at 2^32
and passes the bound check; the refinement holds because the drive refuses the address it is then given. That is not
the driver's doing: the proof found that a disk with more sectors on a track than any has would answer such a call, so
`WrapAssumption` says that the sector numbers of the last addresses (255, for the one sector that callers pass) are
beyond the end of a track, which is at most 63 in ATA.

Left aside: an absent drive's status reads as 0 (a bus that floats at 0xFF would keep `ata_identify` waiting),
and the numbers that `disk read` parses wrap (`apps/app_disk.c`), which is only another address.

## VFS, RAM file system, initrd

`RamFs.tla` models the node table with its links and each `fs` command as one action, with its
partial effects (`fs mv` copies, then removes the source by name whatever the copy did). `Initrd.tla` fills its
table from the boot loader's tags, as `initrd_mount_from_multiboot` does. `Vfs.tla` composes them and adds path
normalization, mounts, lookup on each, the working directory, and `cat`, which reads in chunks.

- `vfs` (12 248 states; four nodes, texts of at most three characters, two interchangeable names, a table of two boot
  modules and two boot loaders, one that passes three modules, the first with a name too long and the second with none,
  and one that passes two of one name):
  the list of children and the table agree after every refused command; wherever the user has gone, each
  module that was taken, is the first of its name and has a name the VFS does not cut is shown whole
  (`ModulesServed`, which also says that the working directory stays one although `fs` removes nodes behind it);
  `MoveKeepsText`; and the refinement of `NamedTexts`, a map with a bounded number of names. Four nodes fill up in three
  commands, so creation is refused in all its ways; the files are longer than two chunks of `cat`.
- `vfs_root`: no file in the RAM file system is found through the VFS, although it is mounted at `/`
  (README.md:363). `starts_with` (`fs/vfs.c:109`) asks for a `/` behind the mount point, which is already
  part of this one.

The VFS keeps 23 characters of a name in a path (`fs/vfs.c:70`), the initrd 31 of a module's name. A module with a
name in between is listed by `ls /initrd`, but `cat` does not find it, or shows the file that is named by its first 23
characters. `ModulesServed` excepts these names. Of two modules with one name only the first can be reached; modules beyond
the 32nd are left out.

Behaviour the properties leave aside, since no document speaks of it: `fs mv a a` deletes `a`; writing
to the name `initrd` stores the text in the directory's node; `fs rm initrd` removes the node
but not the mount. Paths are taken to have at most 16 names and fewer than 128 characters.

## Physical memory

`PhysMem.tla` follows the boot: read the memory map, free what is available, reserve what is in use,
map identically, then let the heap take frames. Its `Init` ranges over machines: what the boot
loader reports. Addresses are small numbers, with 4 GiB at 24 and frames of two units, so that regions begin
inside frames, cross 4 GiB or lie above it.

- `physmem` (60 128 states): all maps of up to two regions out of 26, overlapping or not, with kernel, boot
  information and modules where memory is and the framebuffer anywhere. `StatsExact`; `FramesUsable`, that the heap
  gets no frame with a byte of something in use (`ReservedStayOut`) and none without memory (`FreeIsMemory`); and
  `IdentityKept`, that memory and the framebuffer in use stay mapped in place while the heap grows. Two regions are
  enough for any way they can meet in one frame, and ranges are treated one after the other. All of it is also proved.

`FreeIsMemory` holds for maps whose available regions end below 4 GiB: start and end are cut to
32 bits (`mem/pmm.c:206`), so a region that reaches 4 GiB frees other addresses. Which ones, no property judges; the model
has the cut, and the counters and the reserved ranges are right under it too. `FreeIsMemory` is about frames without any byte of
memory: both `free_range` and `reserve_range` round outward, so a frame that is partly memory and not reserved is given
out whole.

`IdentityKept` excepts the heap's own range of addresses, and has to: `docs/memory.md:36` says that memory is identity
mapped up to the allocator's limit, but the heap's range at 384 MiB lies inside that on machines with more memory, and
its pages replace identity mappings there. Whether that is right, no property says.

## Input, terminal, framebuffer console

`Terminal.tla` and `FbConsole.tla` give each function of the two consoles as an operator on its state; `Input.tla`
has one action per scan code, in which the handler runs through to the editor and the screen. Enter starts a
stretch (`executing`) in which only output comes, since the command runs inside the interrupt.
`FbConsole` keeps the array of cells and, apart from it, what has been drawn: moving the cursor mark redraws one cell
from the array, and scrolling moves pixels and cells each on its own.

`kmain` is the one thing that handlers interrupt. It enables interrupts at `kernel.c:92`, then prints up to two lines and calls
`shell_init`, and a key may come between any two steps of that, with all that follows from it: an edit, or a command and its
output. So `kmain` is modelled step by step:

- `main` is how far it is, with one action per assignment of `shell_init` (`EmptyLine`, `ZeroLen`, `ZeroCursor`, `ChooseMode`) and
  three for the redraw at its end (`ReadArgs`, `StoreInput`, `PlaceCursor`), which reads `g_len` and `g_cursor` before it
  stores the line;
- `todo` is the text it has yet to print and `putc` the character it is printing. `FbPiece` and `TermPiece` are the pieces of `fb_putc`
  and `put_output_char`: each draws one cell, stores one cell, or moves the cursor, the pixels or the cells. If a key has moved the
  cursor since the call began, a piece may use the old place or the new one, since the compiler may have kept it in a register.

What comes of keys there:

- between `g_len = 0` and `g_cursor = 0` the cursor is behind the line's end (`EditBehind`); a key then leaves a cursor that
  is not where the line ends, or a 0 in the line (`strayed`). A backspace after earlier typing makes `g_len - 1` wrap
  (`shell.c:142`), and the model ends there (`main = "lost"`): all memory behind the line is moved, and what follows is undefined;
- in simple mode such a cursor, or one set between `shell.c:68` and 69, leaves an editor that ignores every key but Enter, or a character
  that is in the line and not on the screen. `torn` says that a key came where `kmain` may spoil what it did; it
  ends with the next Enter (`Return`), and `InputShown` and the text of `ScreenShown` except it;
- inside one of `kmain`'s characters, the rest of that character is drawn and stored around a cursor that has moved: cells and pixels
  differ, and a mark may stay behind (`putc.hit`). `smeared` counts the rows from the top of which this may be so. It is set to all
  rows when such a character ends and goes down by one each time the screen scrolls. `ScreenShown` speaks of all other rows: nothing
  that happens in the rows below ever reaches further, and without such a key no two of cells and pixels ever differ.

- `input` (212 732 states; lines of two characters, history of two, ring of three lines of two columns,
  window of two, framebuffer of two rows of three columns, at most four line feeds): `HistoryDistinct`,
  `InputShown` (the terminal's input row is the line and cursor being edited), `ScreenShown` (on the framebuffer the
  screen shows the cells and one mark, the cursor is at the line's end, and the text up to it ends with prompt and line), and the
  refinement of `Scrollback`. To keep the product small a behaviour belongs to one of five users. Three of them come when the shell
  waits: they edit on the terminal, edit on the framebuffer console, or scroll through output. The other two, one
  on each console, are early: two or three keys and characters of output come at any of `kmain`'s steps (`early` is their bound). Four
  line feeds wrap a ring of three and scroll two rows; a third line wraps the history; prompt and line together wrap a row and
  fill the screen; the first lines of `kmain` wrap and scroll it too, so each piece of a character is there.

The release of an extended key leaves its prefix flag set, so the next plain key is lost (Enter after an
arrow, say); releasing one shift key releases both. `clear` on the framebuffer clears the scrollback of the
terminal nobody sees (README.md:268), and the error for unknown commands goes there as well. The model has all this,
and no property judges it. Screens of one row, and of more than 512 by 256 cells, which the console does not
track, are excluded (`GridAssumption`).

Coarser than the code: the plots of one glyph, and each of the two `memmove`s that scroll, are one piece. A key inside them leaves a
mixture of the two images or arrays. For the pixels, which the program never reads, that is within what `smeared` already leaves
open. A key inside the `memmove` of the cells can leave a row of cells made of parts of two; the piece has the cells move before it or
after it. The same holds of the loops of `clear_line` and of the copy in `terminal_set_input_line`. `terminal_render` writes
what `Shown` says at the end of every function; where a key comes inside one that `kmain` runs, the screen is made of two renderings
until the next one. And `Scrollback` leaves out the rest of a character of `kmain`'s into which a key has printed, and if that has left the
count of lines wrong, what follows up to the next line feed, which counts them anew. It says that no line in reach is
overwritten, and does not ask that the oldest one be reachable.

## What is proved

All proofs are for every value of the constants, under the assumptions named in the modules
(`ThreadMaxAssumption`, `EntriesAssumption` for the scheduler; `LayoutAssumption`, `FramesAssumption` and
`RequestsAssumption` in `Heap`; `LayoutAssumption`, `OldFatAssumption`, `TextsAssumption` and
`FaultsAssumption` in `Fat32`; `NamesAssumption`, `SizesAssumption`, `WordsAssumption`, `InitrdAssumption`,
`CutsAssumption`, `PathsAssumption` and `BootsAssumption` in `RamFs`, `Initrd` and `Vfs`; `TerminalAssumption`, `GridAssumption` and `InputAssumption` for the consoles;
`LayoutAssumption` and `MachinesAssumption` in `PhysMem`; `DrivesAssumption`, `DriverAssumption` and `WrapAssumption`
in `AtaDrives` and `Ata`).

*Scheduler* (`SchedulerProofs`). None of the invariants is inductive alone. The inductive one,
`IInv`, says of every stack which shapes it can have (main in its loop, in a handler, in a command, in a
yield inside those; a worker in its entry, in a yield, in an exit), that each parked context points
at the innermost frame of its own stack, how far a hand-over is and what it has changed by then, that IF is
set only with main in its loop, and what a half-created slot holds. `Invariance` proves it, one lemma per
action. From it follow `TypeCorrect`, `Exclusion` (`InterruptsOnlyInMain`), `Contexts` (`ContextIntegrity`),
`RunningThread` (`OneRunning`), `NoPanic`, `ServiceCorrect`, `DeadForGood` (`ZombiesStayDead`), and
`Refinement`: publishing a slot maps to a birth, marking a zombie to a death, the switch of stacks to the
hand-over, all other steps to stuttering. `FindsSuccessor` is the lemma that the modular scan of
`thread_yield` finds the next live thread in cyclic order.

*Heap* (`HeapProofs`). That the list is whole is not inductive: which block a `kfree` may merge depends on who
holds which, and how far the list reaches on how far a growth has come. `IInv` has `Chain` (the headers are a
doubly linked list that fills the addresses without gap or overlap), `FreeApart` (no two free neighbours),
`Listed` (the list ends where the mapped pages do, but for the pages of the growth in progress, or for good once the
heap cannot grow), `Backed` (each page has a frame of its own), `Owned` (blocks in use and pointers handed out are
one to one, counting the one a `krealloc` has got but not handed over) and `Fitting` (what the next scan will find).
`SplitIs`, `SwallowIs`, `ReleaseIs`, `TakeIs`, `WidenIs` and `LengthenIs` say what each change of the headers does
to a chain. From `Invariance` follow `TypeCorrect`,
`WellLinkedAlways`, `AccountedAlways`, `FramesAccountedAlways`, `RetryFitsAlways`, `FailsCleanlyAlways` and
`Refinement` (`ImplementsAllocator`).

*Fat32* (`Fat32Proofs`). `IInv` is the type invariant with the state of a format in progress and, once
formatted, the directory's shape and the aim of the command in progress: the slot it will write
lies before the end mark or is the first one there, and its cluster is not the root's. The scan
established this several writes earlier, which is why the proof needs it. `Invariance`, `TypeCorrect`,
`RootIsSafe`, `EveryFileIsFound`, for any number of faults.

*Fat32, damage* (`Fat32Proofs`, second half). `DamageBounded` speaks of the moments between commands, so the damage has to be
counted while a command is on its way as well. `DInv` adds to `IInv` where the copies may differ (`Copies`: but
for the entry the command has set in the first copy only, in at most one entry per fault) and the damage with the
command's own file set apart (`Accounts`): its slot, name and cluster are taken out of the counts, and what is left
is bounded as if the command had ended. `SetApart` and `PutBack` take the file out at the start and in again at the
end; `Gone`, `CutShort`, `NewCluster` and `NewName` are the ways in which a write changes the counts. From
`DamageInvariance` follow `DamageIsBounded` and `CopiesAlwaysAgree`, and `Refinement` (`ImplementsFileStore`): before the first fault
the counts are 0, so names and clusters are one to one, the write of the directory entry maps to `Put`, the mark of
removal to `Remove`, the end of a format to `EndFormat`, a fault to `Lose`, and all else to stuttering.

*File systems* (`VfsProofs`). `TableIntact` says what fs_readdir finds by following the links, and that is a function of the
whole table; it is not clear what a change to one node does to it. The invariant says instead that such a walk exists
(`Intact`): a list of distinct nodes, each linked to the next, the last to none, that has every used node, and no two used
nodes of one name. `Walked` and `Found` show that `Children` and `Find` compute just that list and the node of a
name in it; `Added` (a node at the head), `Removed` (a node taken off, from the head or from behind another),
`TextChanged` and `Abandoned` (a node taken for a name that is then found too long) are all that the commands do to it.
From these, `FsAllowed` says of every command, refused or not, that it keeps the table intact and does to the entries what
`NamedTexts` allows. `IInv` adds that the working directory is the root or the initrd (`ChdirIs`: no other
path leads to a directory that the VFS can reach) and that the initrd is as it was filled. For `ModulesServed` the boot's pass
through the tags is followed tag by tag (`TableAfter`), and a path from its text to the
node (`NormalizeIs`, `ResolveIs`, `ServedPath`, `InitrdIs`) and from the node to the text that the reads of `cat` put together
(`CatIs`). Both the pass and the path are folds of the community modules, and `Repeats` shows that the recursive function such a
fold uses exists. `TypeCorrect`, `TableStaysIntact`, `ModulesAreServed`, `MovesKeepTexts` (`MoveKeepsText`) and
`EntriesAreRefined` (`ImplementsNamedTexts`). They assume what the VFS and the initrd keep of a name of each length
(`CutsAssumption`), and that typed paths, words and boot tags are sequences.

*Physical memory* (`PhysMemProofs`). `IInv` says where the boot is (`Phases`), that each frame that is free or in the
heap is touched by an available region (`FreedFromMap`), and that no reserved range whose turn has come touches
one (`ReservedSoFar`): what `FramesUsable` says of the end has to be said of every range on the way. The
heap's pages have frames of their own among the used ones (`HeapPlaced`), which is why a new frame is never one the heap
has already. The lemma `InFrames` turns the shifts and roundings into inequalities between multiples of the frame size,
and `TouchedAddresses` says that a range touches just the frames its addresses are in. From `Invariance` follow
`TypeCorrect`, `CountersAgree` (`StatsExact`), `UsableFrames` and `StaysInPlace` (`IdentityKept`). Of the machine
they assume that a framebuffer starts below 4 GiB and is two frames or more smaller than 4 GiB
(`MachinesAssumption`); one that reaches over 4 GiB ends in `paging_init`'s panic, which `NoWrap` shows.

*Input, editor* (`InputProofs`). `EditorInv` is about the buffers of the editor alone: line and history entries leave room for
a 0, cursor and history index lie inside what they index, no repeated entry. The cursor is behind the line only while `main` is
between two assignments, and the line has a 0 in it, or the history an empty entry, only if a key strayed there. It is inductive
since storing a line in a full history moves all entries and the new last one is compared with the one that was last before
(`Stored`). `EditorInvariance`, `EditorWhole` (`EditorOK`, the first conjunct of `TypeOK`) and `NoDoubles` (`HistoryDistinct`).

*Input, kmain* (`InputProofs`). `Modes` says what `main`, `todo`, `putc` and `args` can be together with the mode, and `Marks` what
`torn` and `strayed` are for: without them, no key has come between what `shell_init` does and reads (`Intact`).

*Input, terminal* (`InputProofs`). `TermFits` says that the counters belong together (`TermOK`: the window's
offset never reaches behind the first line kept), or by how much they are off while a piece of a character is still to come
(`Caught`). `RowMatches` says that the input row is the editor's between commands, or what `args` will still make of it.
`PutCharEffect` reduces what a character does to two cases, `RowWritten` and `RowEnded`; `SlotsApart` says that no two lines kept
share a slot of the ring, so that writing one leaves the others (`WriteMaps`), and that ending a row drops just the oldest when
the ring is full (`NewLineMaps`). A character of `kmain`'s maps to the abstract one when it begins, since `Rest` computes the terminal at
its end: `PieceRests` says that a piece leaves that result alone. `TerminalInvariance`, `RowIsShown` (`InputShown`) and
`ScrollbackRefinement` (`ImplementsScrollback`).

*Input, framebuffer console* (`InputProofs`). `Complete(cells, x, y)` is the console with its screen drawn from the
cells and one mark. `FbPutCharIs` computes every character on such a console, through the erased cursor and back, which
gives `Complies`: the piecemeal drawing always ends on such a state again. Real consoles have smeared rows, so `Sound(f)` says that f
agrees with a complete console but for the pixels of the rows above `smeared` (`Agrees`), and the lemmas `...Agrees` that every operation
keeps this: what it does to the good rows does not depend on the smeared ones, which never grow downward.
A character of `kmain`'s is followed through its pieces by `RestFb`, the console when the rest of it will have been printed: `PieceRest` says that a
piece leaves it alone if no key came (`FbSound`), and `SmearedIsSound` that after a key all rows are given up
at the end, which makes any state sound. What the screen says is followed with
`EndAlike`: the text up to the cursor and the text meant agree from their ends, as far as both reach. Printing keeps it
also when the screen scrolls and loses the text's front (`PrintedText`), and a backspace undoes it also across the start of a
row (`ErasedText`). `LineShown` says it of the prompt, as far as it is printed, and the line, unless `torn`; that the cursor is at the line's end
is `Intact`'s part. `Return` brings both back whatever a key has spoilt (`ReturnShown`, `MarksKept`). `FbPrint` is a fold, and
`PrintIsSteps` unfolds it into a sequence of consoles. `ScreenInvariance`, `ScreenIsRight`
(`ScreenShown`) and `TypeCorrect`. They need that neither typed characters nor the prompt hold control characters, and the
grid to have two rows.

*ATA* (`AtaProofs`). What a call returns depends on what its drive was doing some steps earlier, so `IInv` follows the
two together. While the boot looks for drives (`Asking`), the drive being asked is at `IDENTIFY` (`Identifying`), the
earlier ones rest and the later ones have not been touched. In a call (`Alone`), outside the channels that were given up no
drive but the call's own is at work, and `Serving` says for each place of the call what that one is doing: it works on the
block the call waits for (`OnBlock`), writes the one given last (`Storing`), has refused (`Refused`), or has all of them
(`AllOut`); `Moved(k)` says that the first k blocks of the call are what the disk holds. That the delay of 400 ns comes
before each poll is what `SeenIs` needs to read from the status which of these it is. `CallGoesOn` and `DriveMoves`
reduce a step of either side to what it changes. From `Invariance` follow `TypeCorrect` and `CallsAreServed`
(`ImplementsDiskService`): the drive's writing of a block maps to `Store`, or to `Stray` on a channel given up, the returns
to `Answer`, `Fail`, `GiveUp` or `StrayReply`, an error to `Error`, and registers, blocks and polls to stuttering.

`Numbers` has the lemmas that several of these cite: least and greatest elements, and division.

*Only model-checked:* the liveness properties, which are out of the prover's reach: `NobodyStarves` and
`InterruptsReopen` of the scheduler, `DriverReturns` of the ATA driver. Every invariant, action property and refinement
that a passing run checks is also proved.

## Not modelled

- The command interpreter and apps without state; boot code, which runs once with interrupts off;
  exceptions and panic, which print and stop; strings.
- Of the consoles: fonts, colours, pixel formats, the search for a framebuffer, the status row, and the serial port, which only
  mirrors the output.
- The bytes of the boot loader's tags; `PhysMem` and `Initrd` start from what they say.
- File descriptors: `cat` opens, reads and closes in one command, and nothing else opens a file. `vfs_write`,
  `vfs_stat` and creating through `vfs_open` have no caller.
- Volumes not made by `fat32_format`, with clusters of several sectors.
- `unmap_page` and `translate`, called by the memory smoke test only; the pool of page tables, of which 256 are more
  than 512 MiB, a framebuffer and the heap can use.
- Remapping the PIC, the descriptor table, the timer's divisor and tick counter.
- Sources the Makefile does not build (`keyboard.c`, `shell.c` and three files in `shell/`).

Five hazards in `PROJECT.json` have no property, and their notes say why: the lost key after an extended one
(`keyboard.c:42`), a first format that stops after the boot sector (`fat32.c:254`), which no document speaks of, a backspace
between two assignments of `shell_init` (`shell.c:142`), regions beyond 4 GiB (`mem/pmm.c:206`), and the unbounded waits
of the boot for a drive (`ata_pio.c:111`). The notes of some others say which part of them is not covered.
