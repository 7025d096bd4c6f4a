# Native smart card OS: TLA+ models and proofs

This directory holds TLA+ specifications of the card operating system, of the
link to its reader, of the files that stand for its memory on a host and of the
SCV1 boot ROM, the TLC configurations that model-check them on small instances,
and theorems that TLAPS proves for every value of the constants.
`PROJECT.json` lists components, runs, the source lines behind every
definition, hazards, findings and theorems. File names below are relative to
the repository.

## 1. The system and its parts

A reader sends command APDUs to a passive, single-threaded card. From the wire
upwards:

| Part | Source | Model |
|---|---|---|
| transport: one line of hex per command | `simulator/transport.c`, `src/hal/arm-scv1/hal_arm_io.c` | `Wire` |
| APDU parser, class check, dispatcher, response buffer | `src/apdu/apdu_*.c` | `Apdu`, under `Wire` |
| kernel and loop: power-on, reset, one command at a time | `src/kernel/kernel.c`, `card_loop.c` | `CardOS`; the loop also in `Wire` |
| BER-TLV reader, control parameters (FCP) of CREATE FILE | `src/apdu/tlv.c`, `cmd_create.c` | `Tlv`, `Fcp` |
| SELECT, READ/UPDATE BINARY, CREATE/DELETE FILE | `src/filesystem/cmd_*.c` | `CardOS` |
| file tree, selection, personalisation | `src/filesystem/fs.c` | `FsTypes`, `Fs`, `CardOS`; abstractly `FileTree` |
| superblock, descriptor table, data allocation | `src/filesystem/fs_store.c` | `FsStore` |
| NVM HALs, backed by files at power-on and power-off | `hal_sim_nvm.c`, `virtual_card.c`, `hal_arm_nvm.c` | `CardHost` around `CardOS` |
| boot loader, slot header, code flash | `src/boot/*.c` | `BootLoader` |
| boot ROM main, semihosting mirror, BOOTSEL | `boot_main.c`, `semihost.c` | `BootLoader` |

Nothing in the card runs concurrently. What interleaves with a handler is the
loss of power, and that is where the difficulty lies: an operation that makes
several writes can stop between any two of them, or inside one. On a host
the memory is a pair of files, and there it is a process that may be killed and
stores that may fail. The second difficulty is long sequences of legal commands
that must not reach a bad tree, a stale selection or a slot that looks bootable
and is not. The third is bytes: lengths, lines and fields that a reader may get
wrong in any way.

Documents of the repository also name security, transactions, crypto, applets
and a card manager. They are milestones without code and are not modelled.

## 2. The filesystem model

### Modules

- `FsTypes` has the constants and types: descriptors, selections, statuses, the
  mapping from statuses to status words. Data is abstracted: a file identifier
  and a byte are members of small sets, and sizes are counted in bytes of a
  FLASH of a few bytes.
- `FsStore` is the physical layer. `sb`, `desc` and `flash` are the superblock,
  the descriptor table and FLASH; `ram` is the mirror `s_sb`. A checksum is
  a field that says whether it matches. Every write goes to one object, so a
  write is one step with an outcome: done, failed (nothing written), unsynced
  (written, and `hal_nvm_sync` reports an error) or torn (power lost in it).
  The constant `NvmFaults` says which of these the memory has.
- `Fs` has the rules of `fs.c` as operators: the searches, `commit`, the checks
  of create and delete with the order in which they answer, data access, FCP.
- `CardOS` has the kernel's variables and one action per handler. An operation
  with several writes has one action per write: `format_slot`, `format_done`,
  `personalise_mf`, `personalise_row`, `place_desc`. CREATE FILE of an EF is
  `scos_cmd_create_file` (checks and allocation) followed by `place_desc`.
  A path SELECT is one step per component, on a scratch selection as in the
  code. `PowerCut` may happen at any time; `Decay` damages the magic of the
  superblock while the card is off.
- `FileTree` is the abstract promise: files appear whole, erased and under
  a fresh name below an existing DF, disappear whole and only when they have no
  children, and an update changes one file's data and no attribute.
  `CardFiles` maps the card's state to it.
- `CardInv` is the inductive invariant, `CardProofs` and `FilesProofs` the
  proofs, `CardClaims` the statements of comments that the code does not keep,
  `MCCardOS` the instances.

### What is abstracted

- Reads of NVM succeed and EEPROM has room for the table (`fs_store.c` checks
  the latter at mount and format).
- A torn descriptor reads as damaged. The other things a cut can leave (the old
  descriptor or the whole new one) equal a cut just before or after the write.
- A write whose sync failed stays written.
- `ac_read`, `ac_update`, `flags` and `reset_count` are stored and never read,
  and are left out. `SCOS_LC_TERMINATED` is set by no code.
- Refusals made before a handler acts (parser, class, unknown instruction, P1-P2
  and Lc of CREATE and DELETE, every refusal of `parse_fcp`) are one action,
  `process_refused`. CREATE FILE starts from a decoded request; section 4 is
  about where it comes from.
- The end of the link is a loss of power in which NVM keeps its content.
- A card that comes up in FS_ERROR has the zeroed selection of `scos_init`.
- Initially the chip is blank or carries an image of another layout version.

### Runs

Sizes: a table of four slots, FLASH of two or three bytes (six slots and six
bytes for the factory table in `ClaimPath`), two levels of directories, files of
one to three bytes. Four slots hold the MF, a DF, an EF in it and one more file,
which is enough for two files to compete for space, for a name or for a slot, for
the table to be full, and for a slot to be reused for a file of another type.
FLASH of two or three bytes fills up after two allocations, so its limit is met
in every run. There is no bound on the number of commands: the state space is
finite by itself.

| Run | What it asks | States |
|---|---|---|
| `CardFaults` | With all faults on, does the store stay consistent? `NoSharedData`, `MirrorAhead`, `TreeWellFormed`, `SiblingsUnique`, `TopNeverFalls`, the type invariant, and the inductive invariant `CardInvariant` that the proofs use | 118 thousand |
| `CardTree` | Does the card implement `FileTree`, and is a new file erased, with failed, unsynced and torn writes and updates of data? | 102 thousand |
| `CardSelect` | Every form and refusal of SELECT, READ and UPDATE BINARY: is the selection always valid, does a refused command leave no trace, does whatever the card starts come to an end (`EventuallyReady`), with fewer steps to go after each (`CardAdvances`)? | 85 thousand |

`CardTree` leaves `Decay` out: a format after the loss of the magic starts
allocating at the beginning of FLASH again without erasing it, so neither
property holds then (see section 7). `CardSelect` leaves "unsynced" out: when
the sync after freeing a descriptor fails, `fs_delete_file` returns before it
lets go of the slot (`fs.c:775-778`), and the selection stays on a freed slot,
against its comment at `fs.c:780`. The contract in `hal.h:77-84` allows that;
no HAL of the repository produces it while powered.

Fairness is weak fairness of the card's own steps (`Internal`): the processor
runs while it has power. Nothing makes the reader send a command, restores
power, or prevents its loss.

## 3. The card on its host

Neither HAL of the repository drives a real memory. Both keep EEPROM and FLASH
in RAM, load them from `card_eeprom.bin` and `card_flash.bin` at power-on and
store them there at power-off, and each reads the files of the other. `CardHost`
extends `CardOS` with the two files and a session around the card:

- `vcard_power_on` and `scv1_nvm_power_on` load; any power-on may be made by
  either HAL, with or without files (`backed`: a state directory, a semihosting
  host). They differ in what they do about a file that is missing or empty.
  `programmed` puts an image into the memory of the SCV1 first, as a programmer
  would; without it that memory is uninitialised (`Sram`). It is assumed to show
  no magic and no descriptor with a matching checksum.
- `Processor` and `Reader` are the steps of `CardOS`, with a memory that neither
  tears nor fails, because `hal_nvm_write` is a memcpy. `PowerCut` is not among
  them: the process that emulates the card can only be `killed`, and the session
  is lost with it.
- `link_down`, `save_eeprom`, `save_flash` are the end of `main`: two stores, in
  this order, whose results nobody looks at. A store succeeds, fails and leaves
  the old file, or leaves a prefix.

A file is modelled by what a load makes of it, so a short file has an erased
tail. `spoilt` is a history variable with the three events after which files
differ from the memory of any card: `eeprom_cut` (a truncated table),
`flash_ahead` (the EEPROM store failed and the FLASH store did not) and
`flash_uninitialised` (see `ClaimUninitialised`).

`HostFiles` (142 thousand states) asks whether, over any number of sessions, the
tree stays sound (`HostTree`), a new file is erased (`FreshOnHost`) and a blank
image comes up (`BlankImageComesUp`). That the EEPROM is stored first is what
`FreshOnHost` rests on: in the other order a kill between the stores leaves data
above the top of the table. Three slots
and two bytes of FLASH hold the MF, a DF and one file, and fill up; the memory
of the SCV1 starts erased or full of junk. `NvmFaults` is empty. Fairness is
that of the process, in a session and in the stores at its end.

## 4. The data field of CREATE FILE

`Tlv` is the reader of `tlv.c` as operators on a byte string and a window of it.
`Fcp` is `parse_fcp` on top of it, one action per turn of a loop of the code:
`skip_padding`, `outer_object`, `outer_done`, `inner_object`. Bytes are numbers
here, because lengths are what could go wrong. `reads` is a history variable:
the bytes the last step looked at.

`FcpMeaning` says what a text means without parsing it. A text is a list of
fields (padding, or an object with its tag, its value and one of the forms of
its length) and a tail, which is empty or broken: it does not start with padding
and no object can be read from its front. It is bare, or wrapped in the template
62 with padding before and anything behind it; or it is what `fs_build_fcp` says
of a file. Its meaning is which field is the first at fault, what the last field
of a name says, whether the combination is complete. `Body` gives its bytes to
the parser. Every body is the body of such a text (`EveryBodyIsAText`), so the
grammar leaves nothing out. `FcpParse` (57 thousand states, from every list of
up to two fields out of 30, triples that start well, longer lists of good fields,
ten broken tails, the template in all its forms, and descriptions of files)
checks that

- the parser accepts and refuses exactly as meant, with the status word of the
  first fault (`DecodesAsMeant`);
- it looks at no byte outside the window of its reader (`ReadsInside`), has fewer
  steps to go after each (`ParserAdvances`) and always ends (`ParsingEnds`);
- what it accepts is valid for `fs_create_file` (`AcceptedIsValid`), which is the
  link to `CardOS`: there CREATE FILE may be sent any request of the type
  `CreateReq`;
- what `fs_build_fcp` emits for a file creates the same file again
  (`RoundTrip`). Files in the state TERMINATED are left out: `parse_fcp` refuses
  to create one, as its comment says.

The parser stops when it has answered, so deadlock is not checked. Sizes of data
fields are the real ones; a four-byte size stays small enough for TLC's integers.

## 5. The link

`Wire` is `hal_card_receive` of both ports under `scos_card_loop`. The simulator
takes a line from `fgets`, trims it, looks for a control word and decodes digit
by digit; the UART driver decodes each character as it comes and decides at the
end of the line. `Apdu` is what `scos_process` does with the bytes: structure,
class, instruction, and the response buffer. The handler is represented by what
it puts into that buffer and the status word it returns (`Answers`).

`WireMeaning` states the protocol, once for both ports, from what `transport.c`
and `hal_arm_io.c` say of it: one command or control to a line, comments ignored,
white space and `:` ignored, separators alone no command, a malformed line no
business of the OS. The drivers keep to it on *plain* streams (`Plain`): every
line has its line feed, fits the buffer of the simulator and has neither
a carriage return nor a NUL in it, a line that is not blank has more than
separators, and a control line is a word of the protocol or one that neither
driver takes for a word.

On other streams they do not, and `ClaimProtocol` (section 7) shows it.
`WirePorts` is an account of what each driver takes a stream for, plain or not.
It is a description of the code, and has the seven ways in which the ports differ:

1. a carriage return ends a line for the UART driver, and is white space to the
   simulator;
2. the simulator cuts a line that does not fit its buffer (`LINE_MAX`) and takes
   the rest for a line of its own, also behind a `#`;
3. a last line without a line end is a line on the simulator only;
4. to the simulator a line ends before its first NUL, because `fgets` reads on and
   `trim` takes its `strlen`;
5. the simulator compares whole control words, the UART driver the second letter
   (`.r` resets the card, `.exit` is unknown);
6. a line of separators only is an empty command on the simulator, answered with
   6700, and ignored by the UART driver;
7. the UART carries the complaints of the transport between the replies, where
   the simulator uses stderr.

The last is no difference in what a line means, and `WireMeaning` has it too, in
what the reader is sent.

`LinkInv` is the inductive invariant `TakenInv`, over the account: how far the
stream has been served at every `pc`, and what the driver holds of the line under
way.

`WireLines` (215 thousand states) takes every ordered pair of 30 lines (every
APDU case, each kind of refusal, control lines, comments, malformed and overlong
lines, lines with a NUL) with both line ends, on both ports, with three handlers,
one of which overflows the response. Buffers are scaled down (20 characters, 7 and
6 bytes) so that all limits are met; two lines are enough for something of the
first to be left behind for the second. `WireTypeOK` says that the buffers are
kept, `OutputAsMeant` that after a plain stream the OS and the reader have what
its lines mean by the protocol, `TakenInv` that after every step and on every
stream they have what the driver takes it for and that no line leaves anything
behind, `LinkAdvances` that every step brings the end of the stream nearer,
`StreamIsServed` that the stream is used up. Fairness is that of the card: only
the reader makes it wait. A UART card waits for ever once its reader is silent,
so deadlock is not checked.

## 6. The boot model

`BootLoader` is the ROM: `osflash` and `oshdr` are the OS slot and its header,
`file` the two host files that mirror them, `ctx` is `boot_ctx`. A word is the
set of its bits that are 1, so erasing sets them all and programming only
clears. A CRC stands for the content it covers; collisions are outside the
model. Programming a header over a different one succeeds or not depending on
its bits, which is a free choice (`clears`).

`persistent`, chosen at the start, says what the slot is. TRUE is code flash, as
`cflash.h` describes it: it keeps its content, and power may be lost within an
erase or a program. A torn program leaves a part of the words written; a torn
erase leaves each word of the page anywhere between its old content and erased;
a torn ACTIVATE leaves the state word in between. FALSE is the emulator: the slot
is RAM, loaded at power-on from two host files that `slot_flush` stores one after
the other, at a reset, at RESTART and when the link goes down. A store may fail
unnoticed, as its result is discarded, or be cut short, with or without the ROM
going on; a short file leaves zeros behind its end. For the header (`CutHdr`) the
case that matters is a file cut behind the CRC: it parses, and its state word, or
the second byte of it, reads as zeros. Without a host there are no files and no
BOOTSEL. Link errors that make the loop `continue` change nothing. The field
`asked` of a header is a history variable: an ACTIVATE of it was carried out.

| Run | What it asks | States |
|---|---|---|
| `BootSlot` | On flash and on the emulator: do only sound images run (`OnlySoundImageRuns`), does a refused command change nothing (`RefusedLeavesSlot`), is nothing written above the high-water mark (`HighWaterCovers`), does a busy ROM near its end (`LoaderAdvances`) and get there (`LoaderFinishes`)? On flash: do only images run that were activated (`OnlyActivatedRuns`), does only LOAD damage a slot (`OnlyLoadDamages`), is an active OS lost only by erasing it (`ActiveUntilErased`)? | 1.3 million |

The slot has three words, each a page, and a block two words, so that an image is
shorter than the slot or fills it, the second block ends exactly at the end of the
slot or reaches over it, and the erase loop can stop in and between pages.
Words of two bits suffice for a stack pointer, a vector with and without the
Thumb bit, one that points beyond a short image, and a block that cannot be
programmed over another. The last three properties are about flash: on the
emulator a mirror file that is cut short does damage a slot, and a header cut
behind its CRC reads as ACTIVE (section 7).
Fairness is again that of the processor.

## 7. Where the code differs from what is said of it

Each run below checks one statement of the repository and finds a counterexample.

- `ClaimDeadCard`: "comes up in FS_ERROR and answers 6581 to everything"
  (`kernel.c:24-25`). `scos_reset` makes every card OPERATIONAL (`kernel.c:61`),
  so after a warm reset the dead card answers a SELECT with 6A82.
- `ClaimPath`: "selecting a DF makes it the current DF and CLEARS the current
  EF" (`fs.h:22`). A relative path whose only component names the current DF
  leaves the loop through `continue` (`fs.c:308-314`) with the EF still current.
- `ClaimUninitialised`: a region that was neither loaded nor programmed "is
  uninitialised SRAM, so erase it to 0xFF to look like a blank chip"
  (`hal_arm_nvm.c:153-156`). With `card_eeprom.bin` and no `card_flash.bin` the
  FLASH is left as it is (`hal_arm_nvm.c:182-193`).
- `ClaimRepeatedTag`: "Every tag we accept appears at most once"
  (`cmd_create.c:166-168`). Tags 8A and 88 may be repeated, and the last one wins
  (`cmd_create.c:204-233`).

- `ClaimProtocol`: "comment, ignored" (`transport.c:29`); "the same line-oriented
  hex protocol the native simulator uses" (`hal_arm_io.c:10-11`); a line of
  separators "is not an APDU, and handing the OS a zero-length command would make
  it answer 6700" (`hal_arm_io.c:205-207`). The simulator answers the rest of
  a comment that its buffer does not hold as a command of its own
  (`transport.c:170`), and hands separators up as an empty command, answered with
  6700.

Other differences can be read off the models and have no run:

- An image that is LOADED "will NOT be booted", and "reaching ACTIVE by accident
  needs all sixteen bits to drop" (`boot_hdr.h:30`, `boot_hdr.h:33-36`). On the
  emulator they drop when `card_oshdr.bin` is cut at 14 bytes: `slot_power_on`
  takes any file that is not empty (`boot_main.c:100`), and the RAM behind it is
  zero. In flash it cannot happen (`OnlyActivatedRuns`).
- "This selects the EF *implicitly*" (`cmd_binary.c:21-22`): `resolve_target` uses
  the slot it found and selects nothing.
- "if power is lost part way through, the card still reads as unformatted and
  a retry starts cleanly" (`fs_store.c:194-196`): a superblock torn after its
  magic is corrupt, and a corrupt image is not formatted again. This needs
  a memory that can tear a write, which the HALs here do not.
- A corrupt image is "Reported, NOT repaired" (`fs.c:599`): damage to the magic
  reads as a blank chip (`fs_store.c:139-141`), which is formatted.
- "Held, the boot ROM stays in the loader no matter what is in flash"
  (`docs/chip-scv1.md:157-158`): RESTART does not look at BOOTSEL
  (`boot_main.c:267-270`).

## 8. What is proved

The theorems hold for every table size, FLASH size, factory table, set of
commands and set of faults that the named assumptions of `FsTypes`, `FsStore`
and `CardOS` allow, and likewise for the constants of the other modules. TLC
evaluates the assumptions in the runs. A lemma that serves a single theorem is
a named step of its proof, so that the rest of the module does not carry it.

**`CardProofs`.** `Invariance` proves `Spec => []CardInvariant`. The safety
properties are not inductive: that no two files share data after `place_desc`
depends on what CREATE FILE checked and allocated one step, and possibly one
failure, earlier. `CardInvariant` therefore adds
- `DataApart` and `SuperblockInv`: files lie apart and below the durable top,
  and the mirror's top is never below the durable one;
- `JobInv`: the descriptor about to be stored has a free slot, a parent that is
  a DF, a name that is free, and data above every file and below the durable
  top. It is what survives between the two writes of CREATE FILE;
- `FactoryInv`: during personalisation the rows stored so far, and nothing else,
  are in the table;
- `StageInv`: for every `pc`, what the steps before it have achieved, for example
  that the table is free when the superblock is written.

From it follow `TypeCorrect`, `DataNeverShared`, `MirrorNeverBehind`,
`TreeAlwaysWellFormed`, `SiblingsAlwaysUnique` and the action property
`TopIsMonotone`. No ancestor cycle can arise because every new file is a leaf in
a free slot and only leaves go. `CardNearsReady` proves `CardAdvances`: how many
steps are left is read off `pc` and the loop index that `StageInv` bounds, and
every step, done, failed or torn, lowers it. A blank card makes at most
`FS_MAX_FILES + 2 * Len(Layout) + 3` steps before it answers.

**`FilesProofs`.** Three results about the files, each with an invariant of its
own on top of `CardInvariant`.

- `SelectionAlwaysValid`: if "unsynced" is not among the faults, the selection,
  and the scratch selection of a path walk, are always valid. The invariant adds
  that slot 0 holds the MF and nothing else. `RefusalsLeaveNoTrace` has no such
  restriction; it needs that no answer is pending while a command is under way.
- `NewFilesAreErased`, where the magic does not decay. `fs.c` never erases the
  data of a new file, so the invariant follows the erased part of FLASH:
  everything above the durable top of a card that mounts, all of it on a card
  that will be formatted, and the allocation that waits for its descriptor.
- `CardImplementsFileTree`: the full refinement, under the same assumption.
  Every step of the card, a failed or torn write and a loss of power included, is
  one of four things: nothing, a file more, a file less, or new data in one file.
  That it is nothing else is where `CardInvariant` (no shared data, names free,
  no children) and the erased cells are used.

**`HostProofs`.** `HostInvariance` carries `CardInvariant` through sessions. The
files have to satisfy the same invariant as the memory (`Saved`, an instance of
`CardInv` over the files), because the next session starts from them. From it
follow `HostTreeAlways` and `NewFilesAreErasedOnHost`. Both are void once
a `card_eeprom.bin` was cut short. `HostTypeCorrect` is not, so it cannot rest on
`CardInvariant`: its own invariant, `HostTypes`, keeps just what the types need
on a table with files missing: the parent of every EF is a slot, in the memory
and in the file, so that selecting the EF makes a slot the current DF, and the
loop indices are in range.

**`SeqLemmas`.** What the next two modules share: a least element, induction on
the natural numbers, definition by recursion, and what `FlattenSeq` does, part by
part. That operator has its own module, `Concat`: it is the one of the community
module `SequencesExt`, which would bring some hundred definitions into every
proof. Induction is stated about the *set* of
numbers for which a claim holds, because the library's theorems take the claim
as an operator, which the provers cannot instantiate.

**`FcpProofs`.** `ParserReadsInside` and `AcceptedRequestsAreValid`, for every
body of up to 255 bytes, the most that Lc can say. `TlvNextInWindow` says that
an object lies in its window; the invariant relates the window to the body and
`have` to the fields of `req`. `ParserNearsItsEnd` proves `ParserAdvances`: the
position moves on in its window, and the body is read at most twice.

The second half is about the grammar. `EveryBodyIsAText` shows that it leaves no
body out: the longest part of one that is made of fields leaves a broken tail,
and if it starts with the template, its value is taken apart again. The
description of a file is a text too (`FileIsText`). `tlv_next` returns an object
exactly if the bytes at its position are one, with that tag and value, and
nothing on a broken tail.

**`FcpTextProofs`.** `ParserDecodesAsMeant`: `DecodesAsMeant` for every text, of
any number of fields and any lengths. The invariant (`TextInv`) says that after
`k` fields the parser stands right behind them, none of them is at fault, `have`
is the set of their tags that count and `req` is what they mean; or that it is
still outside and has passed padding only, before the template or behind it; or
that it has answered, and as meant. By `EveryBodyIsAText` this is about every
body there is. `DescriptionsRoundTrip`: the template that SELECT returns of
a file is the text of a request for the same file, so `RoundTrip` is a special
case of the same invariant.

**`WireProofs`.** `DriversStayInBuffers`, for every stream and all sizes: both
decoders, the line cut by `fgets` and the control word keep to their buffers.
`LinkNearsItsEnd` proves `LinkAdvances`: `n` characters take at most `4 * n + 1`
steps, on either port.
`TakenInvariance` proves `TakenInv` (`LinesHeldAsTaken`) for every stream, answer
of the handler and size of the buffers: the account of `WirePorts` is what the
drivers do. `LinesServedAsMeant` proves `OutputAsMeant`: on plain streams the
account and the protocol agree, character by character (`PlainAsMeant`), so that
both ports serve them as `WireMeaning` says. That speaks of the end of a stream
only. What carries it through a line is that the decoder, after any number of
characters, holds the bytes of the digits among them, with one waiting for its pair, or has
given up (`Decoded`); and that the drivers find the line ends where the account
does, which for the simulator is arithmetic on the cuts that `fgets` makes. The
reply is decoded again with the digits of a command (`HexLineDecodes`), and the
response buffer is shown to hold all of what was put, or nothing (`RspAfter`).

**`BootProofs`.** `OnlySoundImagesRun`, for flash and for the emulator: what runs
is whole, plausible and under a header that reads ACTIVE. A state in which the OS runs says nothing about how VERIFY was passed, so the invariant
follows headers: every header that parses, in the slot or in the host file,
carries the CRC of an image with sane vectors. LOAD can change flash under
a header, but then the CRC no longer matches. `OnlyActivatedRun` adds, for flash,
that the ACTIVE header was activated: a state word of zeros comes from ACTIVATE
only, also when writes and erases are torn. `RefusalsLeaveSlot`,
`OnlyLoadsDamage` and `ActiveStaysUntilErased` (the last two for flash) follow
from a second invariant, `StageOK`: refusals come from the loader only, and pages
are erased only under a header that is gone.

`MarkCovers` proves `HighWaterCovers` for every order of blocks. VERIFY refuses
a length above the mark as "more bytes than were ever written"
(`boot_loader.c:218`), and this is why it refuses no image for bytes that were.
The mark is right after an ERASE only if the loop has erased every page, so the
invariant `MarkOK` (`MarkInvariance`) follows the loop. From it
`LoaderNearsItsEnd` proves `LoaderAdvances`.

**Only model-checked:** liveness (`EventuallyReady`, `LoaderFinishes`,
`BlankImageComesUp`, `ParsingEnds`, `StreamIsServed`), because the provers handle neither fairness nor ENABLED. What is proved of four of them is
the half that does not depend on fairness: in `CardAdvances`, `LoaderAdvances`,
`ParserAdvances` and `LinkAdvances` a number goes down with every step, so that
no run of steps can be endless; that an enabled step is taken is fairness, and that
one is enabled until the end is what TLC checks. Every invariant and every action
property of the passing runs has a theorem; those of `CardTree` and `CardSelect`
have the same restriction on the constants as their runs.

## 9. Not modelled

- `tlv_find` and `tlv_put`: only tests call them.
- Start-up code, UART and SysTick registers, the breakpoint protocol of
  semihosting and the fault handler behind its probe, banners, the options and
  sizes of the simulator: no state that a property speaks of.
- The random generators and the timer: the OS calls neither.
- The Samsung stub, which has no behaviour; the host tools, which prepare images
  and send commands (the models let a host send any command in any order).
- CRC-16 stands for what it covers; collisions are outside the models.
- Security, transactions, crypto, applets and the card manager: no code.
- The OS that the boot ROM starts is a single state of `BootLoader`. ROM and OS
  share no memory but the OS slot, which the OS never writes, and the EEPROM and
  FLASH, which the ROM never touches, so composing the two models would add no
  behaviour to either.
- Handlers under `Wire`, and bytes under `CardOS`: the two meet in the decoded
  command and in the response, and each model leaves the other's side free.
