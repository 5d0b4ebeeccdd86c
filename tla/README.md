# A TLA+ verification of zloader

zloader is a UEFI boot stub. The kernel, its command line, an initrd and a
device tree are added to the stub as PE sections; the firmware starts the
stub, the stub unpacks the kernel, lays it out in memory, hands it its inputs
and calls it. Two smaller programs come with it: `lockdown`, which enrols
secure boot keys, and `fit`, a boot manager for U-Boot FIT images. The
repository carries its own EFI library, a copy of the LZ4 and Zstandard
libraries, and the host tools that build the images.

The stub runs on one processor without threads. What makes the code hard is
the environment: the firmware may refuse any call, drivers change handles and
variables between two calls, the kernel calls back into the stub while it runs
and may return, the power may fail, handles, pool blocks and variables outlive
the program that made them; and, in the libraries, input that comes in pieces,
buffers that are used again and copies that write more than was asked for.

## 1. Inventory

| component | source | state it keeps | operations |
|---|---|---|---|
| boot stub | `src/main.c`, `src/pe.c` | command line buffer, `secure_boot`, `err` | `efi_main`, `PE_locate_sections`, `execute_image_from_memory` |
| decompression | `src/decompress.c` | input and output buffer, library context | `decompress`, `decompress_lz4`, `decompress_zstd` |
| PE loader | `src/pe_loader.c`, `src/util.c` | pages, device path, LoadedImage, image handle | `PE_handle_image`, `relocate_sections`, `relocation_fixup`, `__unload_pe_file` |
| initrd | `src/initrd.c` | static buffer and handle, the firmware's handle database | `initrd_register`, `fl2_load_file`, `initrd_deregister` |
| device tree | `src/main.c` | tree buffer, configuration table | `do_devicetree_fixup` |
| buffers, pool | `src/util.h`, `efirtlib.c` | `simple_buffer`, `aligned_buffer`, pool blocks | allocate, free, cleanup handlers, `assert` |
| lockdown | `src/lockdown.c` | three file buffers, the variables KEK, db, PK | `efi_main`, `read_file_to_buffer`, `get_dirname` |
| FIT boot manager | `src/fit_stub.c` | BootCurrent, the image being run | `efi_main`, `boot_entry`, `boot_file`, `run_image_from_file` |
| EFI library | `lib/efilib/efilib.c`, `efivar.c` | table pointers, tick frequency, EFI variables | start-up, look-ups with retries, variables, loader variables |
| formatted output | `lib/efilib/efiprint.c` | output buffer, attribute, field | `_iprint`, `vswprintf`, `_print` |
| text | `string.c`, `string.h`, `efiprint.c` | | `mbstowcs`, number and date conversion, comparison |
| image tools | `tools/` | the file being built | `build_image`, `pe_fixup`, `bundle_image.sh` |
| stream decoders | `lz4frame.c`, `zstd_decompress.c` | stage, buffers, history | `LZ4F_decompress`, `ZSTD_decompressStream` |
| LZ4 blocks | `lz4.c`, `lz4hc.c` | hash and chain tables, history, dictionary | decoding; fast and high compression, streams of blocks |
| Zstandard | `lib/zstd` | window, tables, entropy of the last block, workspace | frames, blocks, FSE and Huffman coding, dictionaries, in both directions |
| checksums | `xxhash.c` | lanes, buffered rest, total length | one call, and in pieces |

How they interact: `efi_main` calls the parts one after the other and passes
`simple_buffer`s between them by pointer; ownership of a block is the `free`
pointer and the `allocated` field of its buffer. The kernel reads what the
parts left in the pool and in the firmware's tables, and calls
`fl2_load_file`. Leaving a scope runs `_cleanup` handlers, leaving the program
through `exit()` does not. `decompress.c` calls a stream decoder piece by
piece; the stream decoders call the block decoders and the checksums. The
block compressors are in the repository and, in the case of LZ4, in the
library the stub links, but only other programs call them: they are modelled
together with the decoders that read what they write.

What makes each part correct:

- decompression: an error leaves nothing allocated; a whole frame comes out
  whole; damage is seen as far as the frame's checksums reach; it ends;
- PE loader: an error gives back what was acquired so far; protocols on a
  handle never dangle; every section is where it belongs; the pages cover it;
- initrd: delivered whole or not at all; asking for the size and then for the
  data works; registration and the static handle agree;
- device tree: only a completed tree in memory that stays is published;
- boot stub: the firmware's command line is never used under secure boot; the
  kernel's inputs are there while it runs; the exit status is the right one;
- lockdown: wherever it is interrupted, the platform is not locked with keys
  that do not belong together;
- FIT boot manager: entries are tried in order and once each, BootCurrent
  tells the truth as far as the firmware took the writes to it, every entry's
  memory is returned;
- EFI library: an answer was true at some moment of the call, although things
  change between the question for the size and the one for the data; retry
  loops end; what an image early in the chain has published is not overwritten
  by a later one that could see it;
- formatted output: every character once, in its order and colour, whatever
  the size of the buffer; a string is overrun only by a text that does not fit;
- image tools: what `build_image` puts in, `PE_locate_sections` finds;
- stream decoders: the output does not depend on how the caller cuts input
  and output; no buffer overflows; a caller who goes on comes to the end;
- compression: what is compressed is decoded to the same bytes, with whatever
  history, dictionary and tables the calls before left, and no access leaves
  a buffer.

`PROJECT.json` lists the hazards behind these statements at their lines.

## 2. Modules

The boot path:

| module | models | notes |
|---|---|---|
| `EfiBase` | `util.h`, `efirtlib.c`, `assert.h` | the pool is a function from block names to `none`/`live`/`freed`/`corrupt`; a double free makes a block `corrupt` |
| `Decompress` | `decompress.c`, and what one call of a library does with blocks, checksums, sizes and further frames | one action per step between library calls |
| `PeImage` | the pure part of `pe_loader.c` | operators with the C names on image records, arithmetic modulo the C widths |
| `PeLoader` | the rest of `pe_loader.c`, `execute_image_from_memory` | extends `EfiBase` and `PeImage` |
| `Initrd` | `initrd.c` | `epoch` numbers stubs started one after the other; the statics are new in each, the handle database is not |
| `DeviceTree` | `do_devicetree_fixup` | |
| `BootContract` | abstract specification of a boot stub | a kernel is entered at most once, which command line it may get, which status the stub exits with |
| `BootStub` | `efi_main` of `main.c` | instantiates the four parts above over shared variables; the buffer `Decompress` fills is the one `PeLoader` reads |
| `Lockdown` | `lockdown.c` | with power failures and repeated runs |
| `FitStub` | `fit_stub.c` | `written` is a history variable: whether the firmware took the last write to BootCurrent |
| `*Proofs` | | theorems about the module they are named after; `EfiLibProofs` has those about `Console`, too (section 5) |

The EFI library and the tools:

| module | models | notes |
|---|---|---|
| `EfiLib` | `efilib.c`, `efivar.c`, `set_systemd_variables`, the variables of `fit_stub.c` | a chain of images; `pub` is the place in `set_systemd_variables`, which asks for a variable (`TestVariable`) and writes it (`WriteVariable`) in two calls; `Change` is a driver that changes handles, files and variables between two firmware calls |
| `Console` | `efiprint.c` | `ps` and `item` are the structures of the code, `meant` is a history variable with what the format asked for; `Overrun` is a write behind the array of a string, after which the model ends |
| `Text` | conversions of `efiprint.c`, `string.c`, `string.h` | operators against reference definitions |
| `ImageTools` | `build_image.c`, `pe_fixup.c` | operators on files as lists of extents, with failing system calls |

The libraries:

| module | models | notes |
|---|---|---|
| `StreamContract` | abstract specification of a stream decoder | output grows by the next bytes of the content, a checked frame ends with all of it, damage that is checked is refused |
| `CodecStream` | the caller, frames and memory | a byte of input is a token of its field, the content is 1, 2, ..., N, and a wrong byte is 0 |
| `LZ4Frame` | `LZ4F_decompress` | one action per stage |
| `ZstdStream` | `ZSTD_decompressStream`, `ZSTD_decompressContinue` | one action per stage |
| `Codec` | both with their callers | |
| `Memory` | `memcpy`, wild copies, overlapping copies | an access outside a buffer sets `wild` |
| `LZ4Block` | `LZ4_decompress_generic` | fast loop, shortcut and safe loop with the extents their copies really have; at its end the block format as a reference |
| `LZ4Compress` | `LZ4_compress_generic` and the stream functions | streams, dictionaries loaded and attached, saved histories, destinations of any size, `LZ4_decompress_safe_continue` |
| `LZ4HC` | `lz4hc.c` | both parsers, chain swaps, pattern analysis, dictionaries, `fillOutput` |
| `Fse`, `Huf` | `bitstream.h`, `entropy_common.c`, `fse_*.c`, `huf_*.c`, `hist.c` | tables, their descriptions, normalisation, code construction, coding and decoding |
| `ZstdTables`, `ZstdBlock` | `zstd_internal.h`, `zstd_decompress_block.c`, `zstd_decompress.c`, `zstd_ddict.c` | decoding of whole frames |
| `ZstdEncode` | `zstd_compress_literals.c`, `zstd_compress_sequences.c`, parts of `zstd_compress.c` | choice of tables, block splitting, which entropy state the next block gets |
| `ZstdMatch` | `zstd_fast.c`, `zstd_double_fast.c`, the window of `zstd_compress_internal.h` | with external and attached dictionaries |
| `ZstdCompress` | `zstd_compress.c`, `zstd_cwksp.h` | contexts that are used again, dictionaries, frames in chunks |
| `XXHash` | `xxhash.c` | symbolic hashes |
| `Algorithms` | | one action per kind of job; holds the properties of the pure algorithms |

`MC*` are inputs and constants of the runs; `MCAlgorithms` also says how a
program uses Zstandard. `Initrd`, `Lockdown`, `EfiLib` and `Console` are checked
as they are.

Conventions. A program counter variable (`dpc`, `lpc`, `tpc`, `mpc`, `fpc`,
`ppc`, `pc`) says where the C function is; an action goes from one call of the
firmware or of a library to the next, since nothing else can be observed or
can fail in between. Every call that may fail does so by nondeterministic
choice. `stub` says what became of the program: `running`, `exited` (through
`exit()`), `crashed` (a call or a write through a pointer the code never set)
or `replaced` (the kernel called ExitBootServices). Operators whose names end
in a participle or adverb and that nothing uses (`UnpackedFreed`,
`LZ4ResultStuck`, `CutDictKept`, ...) stand in front of the definition they
are a faulty variant of; `PROJECT.json` pairs each with the property it
breaks. Its map lists a definition with the code it stands for; named
constants, and helpers that only cover lines of an operator that is listed, have
no entry of their own. `Console` calls its specification `PrintSpec` (with
`PrintInit` and `PrintNext`), so that one module can extend it together with
`EfiLib`. `Compressed`, `Decompressed` and `Streamed` of `Algorithms` are
CONSTANT operators which `MCAlgorithms_release.cfg` gives the definitions of
`MCAlgorithms`, `LZ4Compress` and `LZ4HC`.

What is abstracted.

- Boot path. Compressed data is counted in units: a header, blocks that
  decode to one unit each, an end mark, a content checksum if there is one; a
  section is described by how many of these it holds, what the header
  declares, which checksums the frame has, which block is damaged and whether
  it decodes all the same, and what follows the frame (junk, frames without
  content, one more frame). A damaged block is refused by `BlockRefused`
  (LZ4F's checksum of the block, or a block that does not decode), a wrong
  content by `ContentRefused`; neither can happen before the library has seen
  the unit that tells. `LZ4Frame` and `ZstdStream` have the same calls stage
  by stage. Images
  are records of the header fields the code reads; memory contents are
  recorded as "byte n of the file", "zero" or "junk". Messages are not
  modelled (the default build has `LOADER_PRINT_MESSAGES` off); `_ERROR`
  output is left out except that `result` keeps what decides the "EOF before
  end of stream" message. `NDEBUG` is a constant: TRUE is a Release build.
  Platforms are 64 bit and little endian, and the build is the default one
  without `USE_EFI_LOAD_IMAGE`, `EFILIB_DEBUG` and `EFILIB_SHUTDOWN`.
- Streams. Sizes of fields are scaled (magic number 2, block header 2, 64 KB
  and the block maximum 2, largest window 4, `WILDCOPY_OVERLENGTH` 2,
  `ZSTD_NO_FORWARD_PROGRESS_MAX` 3, the oversized-buffer factor 2 and its
  duration 1). Dictionaries and the stable output mode, which `decompress.c`
  does not use, are left out of `ZstdStream`.
- Algorithms. The constants of the block decoders are the real ones. In the
  compressors the sizes that only matter as limits are scaled: 64 KB is 64,
  4 KB is 30, the indices of lz4 end at 300, `LZ4_OPT_NUM` is 40, hash tables
  have 32 cells, a zstd window has 2^5 bytes or more, Huffman codes 9 bits, zstd
  indices are renormalised at 300. A hash is the sum of the bytes modulo the
  size of the table: like the real ones it only has to be a function of the
  bytes. Destinations of the zstd compressor are large enough, lengths above
  65535 do not occur, and frames of `ZstdBlock` have no checksum. A checksum is
  the record of what was mixed in, in which order.

Where the C code has undefined behaviour the model has the outcomes a build
can show: `decompress_lz4` calling a NULL `free` crashes; writing the headers
to address 0 after a failed page allocation faults or passes unnoticed
(`CopyHeaders`); closing the uninitialised file handle in
`read_file_to_buffer` is harmless or ends the program (`ReadFile`); reading
through the NULL handle in `lib_get_protocol_interface` faults or does not
(`GetDevicePathUtilities`, `EfiLib`); a string that is written behind its
array ends the model (`Overrun`; `OutputAsMeant` says which texts do it);
`set_systemd_variables` after a refused `open_protocol` uses an uninitialised
device path; the overrun of `get_dirname` is harmless or ends the program; a
division by a tick frequency of 0 stops an x86 and gives 0 on AArch64. In the
libraries an access outside a buffer sets `wild`, and `BlocksDecoded` and
`EntropyDecoded` say it never happens.

## 3. Runs

Passing runs. The comment in front of each property states it in full.

| run | shows | bounds, and why they are enough |
|---|---|---|
| `decompress_release` | `ErrorReleases`, `WholeKernel`, `DamageSeen`, `Terminates` | every frame with 0..3 blocks, any cut, any declared size up to 4 or none, every set of checksums, any one damaged block that decodes or does not, junk, empty frames or a frame behind: a first, a middle and a last block, and an output that is too small by one, right, or too large |
| `pe_release` | `FailureReleases`, `ProtocolsLive`, `KernelPagesHeld`, `SectionsInPlace`, `AlignedImageFits`, `LoaderAnswers` | images with every header check failing once, up to 3 sections with raw data shorter and longer than the virtual size, aligned and unaligned page addresses; `PAGE_SIZE` 4 and 8/12 bit integers keep the wrap-around |
| `initrd_release` | `HandleIffRegistered`, `DeliveredWhole`, `RetrySucceeds` | two stubs (what one leaves to the next), lengths 0, 1, 3, every request |
| `boot_release` | `ImplementsContract`, `KernelInputsLive`, `KernelUndamaged`, `PublishedTreeIsWhole`, `StubDecides` | good and bad bootable images and machines, contents of `.linux`, kernels, trees that grow by 0, 1 or 3; the parts' own corner cases are left to their own runs |
| `lockdown_release` | `NeverLockedOut`, `ReturnReleases`, `SuccessMeansSecure`, `AllReadBeforeFirstWrite`, `KeysAreFinal` | two runs of the tool: what a second run does to what the first left; the theorems cover any number |
| `fit_boot` | `BootCurrentIsTrue`, `StartedInOrder`, `PoolReleased`, `StubComesThrough` | two entries of every kind, BootNext, BootOrder up to three with a repetition; any BootCurrent left by the firmware, every write and deletion of it refused or not |
| `library_release` | `PoolBalance`, `AnswersTrue`, `EarlierImageWins`, `CallsEnd` | the chain fit, zloader; one library call of each image, during which the world changes up to twice: before and after the retry. 3 handles listed in any order, 3 sizes, tick frequencies 0 and 2; every question for a loader variable and every write of one may be refused |
| `console_release` | `OutputAsMeant` | up to 5 elements of a format in up to two calls, buffers of 1 and 3 characters in place of 200 (`print.h:198`, the console) and 100 (`efivar.c:33`), so that every flush and every overrun happens in every place; texts of 0, 1 and 3 characters, of one and two bytes |
| `codec_release` | `BuffersBounded`, `IsStreamDecoder`, `KeepsGoing` | one or two frames with one context, 0, 1, 3 or all units of input and of room in every call; frames that wrap the history, are damaged, mislabelled or skipped |
| `algorithms_release` | `BlocksDecoded`, `EntropyDecoded`, `HashStreams`, `ImageHoldsFiles`, `TextRight` | 41682 inputs at the sizes where the code takes another branch (`MCAlgorithms`) |

Runs that show a disagreement between the code and what it says about itself
(the `findings` of `PROJECT.json` quote both):

| run | property | what happens |
|---|---|---|
| `pe_reloc` | `RelocationsApplied` | base relocations are applied to the unpacked file, not to the image that is started |
| `initrd_deregister` | `DeregisteredIsGone` | the LoadFile2 protocol stays registered after the stub is gone |

### What `algorithms_release` compares

- LZ4 blocks of up to two sequences, with every run length and offset at
  which the decoder changes its loop or its copy, with a prefix, an external
  dictionary or nothing before, cut short, and into too little room; against
  the block format. `MINMATCH`, copy lengths and margins are the real ones.
- Streams of LZ4 blocks through the fast compressor and at levels 3, 9, 10 and
  12 of the high compression mode: in ring buffers of one, two and more slots
  and double buffers, with dictionaries loaded and attached, saved and reset,
  with distances around the size of the window, tables about to overflow, and
  every size of destination from 1 to 50. The decoder follows with its own
  buffers, flat or a ring of `LZ4_decoderRingBufferSize`. A block that is
  refused is sent as it is, as `LZ4F_makeBlock` does. For three kinds of job
  only the bounds of the accesses are claimed, since the code does not return
  the input there (`HistoryGone`, `HistoryMoved`, `HistoryAhead`; see below).
- Distributions of FSE and counts of Huffman codes: description and reading,
  construction of the code under a limit (this is the open question in the
  comment of `HUF_setMaxHeight`), one and four streams, both decoders.
- Zstandard frames: one context for several frames with parameters that
  change, fast and double fast, chunks at other addresses, overwritten
  buffers, dictionaries with and without tables, copied, attached and as
  prefix, split blocks, wrong pledged sizes; then also cut and changed input,
  on which only memory safety is claimed. One kind of job is left out
  (`BehindGap` of `MCAlgorithms`; see below).
- Checksums in pieces; built images; texts, numbers and dates.

### Deviations the modules reproduce, without a run of their own

Boot path and tools:

- an LZ4 frame without a content size makes `decompress_lz4` call the NULL
  `out->free` (`decompress.c:104`) instead of returning EFI_UNSUPPORTED;
- the loop of `decompress_lz4` (`decompress.c:82`) does not end when the output
  is full before the section is used up: on a frame that unpacks to more than
  it declares, and on one more frame behind the first. `LZ4F_decompress` then
  stays in `dstage_flushOut` (`lz4frame.c:1728`), reports no error and moves
  nothing. `Overfull` is this case, and `Terminates` and `StubDecides` have it
  as their precondition; in a build with assertions the stub exits instead;
- damage that decodes and that no checksum covers goes through, and a frame
  that is cut before its content checksum is accepted, with a message, although
  a block in it is damaged (`decompress.c:95`). `DamageUncovered` says exactly
  how far `DamageSeen` and `KernelUndamaged` reach. Of a zstd frame that is cut
  behind its blocks the declared size is not compared either;
- a zstd frame that declares the size 0 gets a block from `malloc(0)`, and
  `free_simple_buffer` (`util.h:97`) takes an `allocated` of 0 for no block: an
  error leaks it (`ZeroLength` in `ErrorReleases`); `decompress_zstd` leaves
  `length` at the declared size after a truncated stream (`decompress.c:142`);
- `__unload_pe_file` frees `(start - end) / PAGE_SIZE` pages, which wraps
  (`pe_loader.c:494`; `UnloadPages`): the kernel's pages stay allocated;
- `PE_handle_image` ignores a failed page allocation (`pe_loader.c:558`) and,
  where the writes to address 0 do not fault, starts the kernel in memory
  nobody allocated: the case `buf.raw = NULL` of `KernelPagesHeld`. It also
  copies no section of an image whose data directory has no relocation entry
  (`pe_loader.c:568`), which is why `SectionsInPlace` excludes such images;
- `allocate_aligned_buffer_ext` rounds the page count down (`util.h:131`),
  which is why `AlignedImageFits` asks for an alignment that is a multiple of
  the page size;
- in a build with assertions the stub exits when the output is full
  (`util.h:73`), when there is no command line (`main.c:77`), when the kernel
  fetches the initrd (`initrd.c:83` with `main.c:248`) and when the device
  tree is looked at (`main.c:113`); after a failed second fixup the block of
  the tree is kept (`main.c:136`);
- `README.md` of the repository names the device tree section `.fdt`, the
  code looks for `.dtb` (`main.c:215`);
- nobody looks whether the firmware wrote or deleted BootCurrent
  (`fit_stub.c:97`, `103`): after a refused deletion it names the entry before,
  after a refused write the one before or none. `BootCurrentIsTrue` speaks of
  the writes that were taken;
- the FIT boot manager takes an entry with any attribute for active
  (`fit_stub.c:82`, `&&` in place of `&`), passes the optional data of an
  entry with a negative length (`fit_stub.c:100`) and starts the fallback
  loader also after an image that returned EFI_SUCCESS (`fit_stub.c:182`);
- `lockdown` allocates one byte per character of the directory name and
  writes two (`lockdown.c:18`);
- `pe_fixup` does not see a section that begins exactly where the previous one
  ends (`pe_fixup.c:232`); `build_image` adds a virtual size that is not
  aligned to `size_of_image`, its assertions (`build_image.c:287`, `468`) do
  not hold in builds that have them, and a failed build leaves a part of the
  file behind, which `bundle_image.sh` does not notice.

EFI library:

- `lib_get_protocol_interface` tests `*handle` where `misc.h:46` says the
  pointer "Can be NULL" (`efilib.c:219`); BOOT_TIME_USECS is divided by a
  frequency that may be 0 (`efilib.c:108`), and the product wraps;
  `set_systemd_variables` ignores a refused `open_protocol`;
  `get_part_uuid_from_device_path` always returns EFI_NOT_FOUND;
- `efi_var_attributes` returns 0 for every answer but EFI_BUFFER_TOO_SMALL
  (`var.h:61`): a variable the firmware does not want to tell about counts as
  not there and is overwritten. `EarlierImageWins` names this as the only way
  in which it happens;
- `vswprintf` sets `ps->end` from `maxlen`, but reaching it only calls
  `ptr_flush`, which does nothing without an output function: a longer text is
  written behind the array (`efiprint.c:350`), for example by `%D` in
  `efi_var_set_printf`. `OutputAsMeant` says that exactly the texts that do not
  fit do this;
- widths of a `char8_t` text count its bytes (`efiprint.c:379`; `InBytes`); a
  second colour in a field restores the wrong one (`meant.undocumented` in
  `OutputAsMeant`); `%lu` prints from 2^63 on negative numbers; code points
  above 0xFFFF are truncated.

Stream decoders:

- `LZ4F_resetDecompressionContext` keeps `frameRemainingSize`; the hint of
  `dstage_storeCBlock` counts the next block header twice;
- the size of the content is not checked when the last block of a zstd frame
  is empty, and the decoder in one call does not compare blocks with
  `blockSizeMax`; the prefetching decoder of sequences does not check the
  exact end of the bit stream, the plain one does.

Compressors. In the following cases the code does not return the input. The
jobs of the passing run contain the first two, and `BlocksDecoded` names them;
the third is left out of the jobs:

- `LZ4_compress_fast_continue` tests for an overlap only while
  `sourceEnd < dictEnd` (`lz4.c:1570`): input that overwrites the end of the
  block before it (a ring of one slot, a larger block after a turn) is compressed
  with matches into data that is gone, although `lz4.h:332` says of a ring
  buffer that "it can have any size" (`HistoryGone`). `lz4hc.c` gets this right;
- `LZ4_saveDictHC` keeps an attached dictionary, whose offsets are then wrong
  if less than the prefix was saved and the next block follows the saved data
  in memory (`HistoryMoved`); `LZ4_compress_HC_continue_destSize` adds the whole
  input to the history though a part of it was not consumed (`HistoryAhead`, if
  other input than the rest comes next); `LZ4_loadDictHC` forgets
  `favorDecSpeed`;
- with an attached zstd dictionary, a chunk that overwrites all of the segment
  before leaves the dictionary attached at the wrong distance; the assertion
  at `zstd_compress.c:2731` says this cannot be. Attached dictionaries of more
  than one chunk have rings of two slots or more (`BehindGap`);
- `ZSTD_deriveSeqStoreChunk` keeps a long length at the end of the chunk,
  `partitions[]` could be written one behind its end (not with blocks of 128
  KB), `compressLiterals` takes any compressed size of 1 for a repeated byte
  (right only because a usable table of a dictionary has all symbols).

### Fairness

`WF_vars` of the program's own steps, and nothing else, in `Decompress`,
`PeLoader`, `DeviceTree`, `BootStub` and `EfiLib`: the code is a sequential
program that no one preempts for ever, so it takes its next step if it has one.
Library and firmware calls are assumed to return, which UEFI promises. The
kernel is not assumed to do anything: `StubDecides` and `LoaderAnswers` end
where it is entered. Drivers are not assumed to do anything either, but they
change what a look-up asks for only `MaxChanges` times: a driver that
registers handles without end does keep `lib_find_handles` in its loop. Only
`FitStub` assumes that a started image ends or takes over, as
`StubComesThrough` says nothing about a machine that an image occupies for
ever. `Codec` has weak fairness of the stages of a call and strong fairness of
`Serve`, a call with all that is left of the input and with room: the loops of
`decompress.c` make just these calls, while a caller that for ever offers
nothing is answered for ever. `Initrd`, `Lockdown`, `Console` and `Algorithms`
have safety properties only and no fairness.

Deadlock is checked except in `algorithms_release`, `codec_release` and
`console_release`, whose behaviours end when the job, the frames or the calls
are used up; elsewhere a finished program stutters explicitly.

## 4. Refinement

`BootContract` knows four things about a boot: its stage, whether secure boot
is on, the kind of command line the kernel got, and the status. `BootStub`
implements it (`ImplementsContract`) with the stage read off `stub` and `lpc`,
the command line off `options` when the kernel is entered, the status off
`status` and `lerr`. The mapping makes visible that the results of unloading
the image and of deregistering the initrd do not change the exit status, and
that no path leads from an error to a kernel.

`StreamContract` is what `decompress.c` relies on: the output is a growing
part of the content, the end is announced exactly when all of it is there, a
whole frame is not refused, and damage that the format can show is not
accepted. `LZ4Frame` and `ZstdStream` both implement it (`IsStreamDecoder`),
with buffers, rings, stages and hints hidden; `excused` is a reason to fail
that is not in the frame: memory that is refused, no progress for too long, or
a size left over from an aborted frame (`LZ4F_resetDecompressionContext`).

## 5. Proofs

TLC checks each property on a small instance. TLAPS proves the ones below for
every value of the constants: any number of runs, stubs, handles, entries and
calls, any length of a frame, a list or a text, every image and every firmware
answer. In each module a property becomes a theorem in three lemmas: the
invariant holds initially, each action keeps it (one lemma per action or group
of actions), and it implies the property.

| module | theorem | states |
|---|---|---|
| `LockdownProofs` | `TypeCorrect`, `KeysBelongTogether`, `SuccessIsSecure`, `KeysStayFinal`, `ReturnsReleased`, `ReadsComeFirst` | `TypeOK`, `NeverLockedOut`, `SuccessMeansSecure`, `KeysAreFinal`, `ReturnReleases`, `AllReadBeforeFirstWrite` |
| `PeLoaderProofs` | `TypeCorrect`, `ProtocolsStayLive`, `FailureGivesBack`, `KernelKeepsPages`, `ImageFits`, `SectionsAreInPlace` | `TypeOK`, `ProtocolsLive`, `FailureReleases`, `KernelPagesHeld`, `AlignedImageFits`, `SectionsInPlace` |
| `DecompressProofs` | `TypeCorrect`, `ErrorsRelease`, `KernelIsWhole`, `DamageIsSeen` | `TypeOK`, `ErrorReleases`, `WholeKernel`, `DamageSeen` |
| `InitrdProofs` | `TypeCorrect`, `HandleTellsRegistration`, `WholeOrNothing`, `RetryServed` | `TypeOK`, `HandleIffRegistered`, `DeliveredWhole`, `RetrySucceeds` |
| `BootStubProofs` | `TypeCorrect`, `InputsLive`, `RunsUndamaged`, `TreeIsWhole`, `ReleaseKeepsContract` | `TypeOK`, `KernelInputsLive`, `KernelUndamaged`, `PublishedTreeIsWhole`, `ImplementsContract` |
| `FitStubProofs` | `TypeCorrect`, `CurrentIsTrue`, `StartedAsListed`, `PoolComesBack` | `TypeOK`, `BootCurrentIsTrue`, `StartedInOrder`, `PoolReleased` |
| `EfiLibProofs` | `PoolBalanced`, `LookupsTrue`, `FirstImageWins`, `PrintsAsMeant` | `PoolBalance`, `AnswersTrue`, `EarlierImageWins`; `OutputAsMeant` of `Console` |
| `CodecProofs` | `BuffersStayBounded`, `CallsProgress` | `BuffersBounded`; `NeverSpins`, the part of `KeepsGoing` that is not about fairness |

### The inductive invariants, and why they are needed

`LockdownProofs`. `NeverLockedOut` by itself is not inductive: a step that
writes PK keeps it only because KEK and db were written in the same run, which
is a fact about the program counter. `KeyInv` adds: between the check of
SetupMode and the write of PK there is no PK; after the write of KEK (db) that
variable carries the number of this run. `PoolInv`: a buffer names a block
exactly when that block is live and its `free` function is set, and a buffer is
filled exactly from the label after its read on.

`PeLoaderProofs`. `PoolInv` says label by label which of the two pool blocks is
live and whether the handle exists: an error path is right only because of how
far `PE_handle_image` came before it. `PageInv` says that from the allocation
to the installation all pages of `buf` are held and its `free` is set, and ties
`buf` to the arithmetic of `allocate_aligned_buffer_ext`. That arithmetic is
needed: the cleanup handler skips a buffer whose aligned base is 0, so one has
to know that the base of an allocated page is never 0 (`AlignBounds`,
`AlignmentPositive`). `ImageFits` rests on the lemmas `AlignedMultiple`,
`MultipleOfPages` and `PagesCover`: rounding up to an alignment that is a
multiple of the page size gives whole pages, and the extra alignment asked for
is more than the base is moved. `SectionsAreInPlace` needs `LayoutInv`: from
the label after the copy on, memory is what `relocate_sections` made of the
headers, and no later step writes to it. The copies do not run into each other
because a linker orders neighbouring sections (`WellFormed`); that then all
sections are apart (`Apart`) is an induction over their number, done in first
order: the least counterexample would have a predecessor that is none.

`DecompressProofs`. The properties speak of the moment `decompress()` returns.
That a damaged block was accepted only where no checksum covers it follows from
which units the library had seen when it announced the end or when the section
was used up, with any checksums and any further frames.
`Progress` says at every call of the library how much it has consumed and
written, in terms of the section alone; `LabelInv` says which of the block, the
context and the buffers are there at each label. The invariant does not mention
other blocks of the pool, so that `BootStubProofs` takes it over as it is.

`InitrdProofs`. The static handle and the firmware's database agree only
because no stub finds itself registered when it starts: `StubsInOrder` bounds
the numbers in the database. What the kernel was told fits the initrd only
because the buffer is not touched after the registration: `ReplyInv`.

`BootStubProofs`. `BootInv` has a part for each part of the stub:
`DecompressInv`, `LoaderPool`, `TreeInv`, `OptionsInv`, and `ControlInv`, which
ties them together: which parts have run when `efi_main` is at a label and
which status they left. The proof is compositional: a step of a part keeps
that part's invariant, touches only its own blocks of the pool (`Untouched`),
and so disturbs no other (`Undisturbed`). The refinement of `BootContract`
follows step by step from this invariant. It is proved for Release builds
(`NDEBUG`), as the run checks it; a build with assertions does not implement
the contract: `buffer_pos` asserts `pos < allocated`, `main.c:248` leaves
`allocated` at 0, and so the stub exits while the kernel runs and fetches its
initrd (`initrd.c:83`).
The other four theorems hold for both kinds of build.

`FitStubProofs`. `TargetInv` says which image the stub is about at each label,
`PoolInv` which blocks are live there, `OrderInv` which place of the list of
candidates it has come to. Only with that place is "in order and none twice"
inductive.

`EfiLibProofs`. `PoolInv` says which labels of a call hold a block; `AnswerInv`
what a call may rely on although the world changes between two questions: it
has recorded all it has seen, the handles it still has to try are the only ones
that can have carried the protocol all the time, and the size it allocated was
the size of the variable at some moment. The firmware lists handles in any
order. `ScriptInv` is for `EarlierImageWins`: at each place of the script the
variables before it are told or were refused, and one that was asked for and is
about to be written was absent, or the firmware would not tell.

In the second part of the module, about `Console`, `OutputAsMeant` says nothing
of the colour that the next character will get. `TextInv` restates it with the
characters still in the queue, `ColourInv` adds which of the colours of the
print state, of the console and of the caller's mind agree at each place of
`_print()`, and what a field has to give back. The lemmas in front are about
what `ptr_putc`, `ptr_flush`, `ptr_setattr` and the padding of a field do to
what is visible.

`CodecProofs`. `BuffersBounded` is a statement about every moment, but what
keeps a stage inside a buffer was settled several calls before. `CodecInv` is
`LInv` for an LZ4 frame and `ZInv` for a Zstandard frame.

- `LInv`: `LInput` says what each stage has stored and how much it waits for,
  `LFlush` and `LDict` where the block that is being delivered and the history
  are in `tmpOutBuffer`, `LBuffers` that `tmpIn` and `tmpOutBuffer` were
  allocated together for *one* frame, maybe an earlier one. The last is what
  `dstage_init` (`lz4frame.c:1458`) rests on: it compares only the size of
  `tmpOutBuffer` and then trusts `tmpIn`, too. A frame whose blocks depend on
  each other has 128 KB more of the first, so with block sizes that are close
  to each other the second could be too small; 64 KB, 256 KB, 1 MB and 4 MB
  are further apart than that (`BlockSizesAssumption`, used in `InputFits`).
- `ZInv`: `ZStages` ties `inPos`, `inBuff`, `expected` and the stage together,
  says at which stages nothing is left to deliver, and that a hostage is only
  taken when there is an input byte to hold back.
- Both need to know that a field that was read completely is a field of this
  frame. The stream is a fold over the blocks; `Flattened` gives the type of
  its result by a least counterexample, which is all that is needed of it.
- The conjunct of `LZ4Frame`'s type invariant about `tmpIn` used to say that it
  never holds more than `tmpInCap` bytes in any stage that fills it. That held
  in the run because of the sizes chosen there. Three of the stages fill
  `dctx->header` in place of `tmpIn` and may do so before `tmpIn` exists; the
  invariant now says so.

`CallsProgress` adds `CallerInv`: a call without a buffer, which
`LZ4F_getFrameInfo` makes, has no room. Each stage then goes on, breaks off
with an error, or returns (`Outcome`), and it returns with a hint only when
the input is used up or the room is full (`LHeld`, `FinishTurn`). For
Zstandard this is where the hostage matters: the byte that is given back was
not the only progress, since the room was full.

### Assumptions

The theorems use the named assumptions of the modules and nothing else; TLC
evaluates them in the runs. They are types and signs of the constants
(`LockdownAssumption`, `NdebugAssumption`, `PeImageAssumption`,
`DecompressAssumption`, `InitrdAssumption`, `GrowthAssumption`,
`EfiLibAssumption`), and:

- `PeLoaderAssumption`: images are records with natural numbers as fields, as
  unsigned C integers are, and their section headers a sequence;
- `StubsAssumption`, `SectionsAssumption`: the same for bootable images and for
  the contents of `.linux`;
- `FitStubAssumption`: BootOrder lists numbers of entries, optional data has a
  natural length;
- `SizesAssumption`: the fields of a stream are not empty and the lengths that
  `lz4frame.h` and `zstd.h` give them are ordered as there;
- `FramesAssumption`: frames are records with the types of their headers, an
  LZ4 block of the largest size with its checksums fits into a hint, and a
  single segment declares its size; a block may be damaged in any way;
- `BlockSizesAssumption`: two LZ4 block sizes that differ, differ by more than
  128 KB, as the four of the format do (`LZ4F_getBlockSize`);
- `ConsoleAssumption`: buffers have room for a character, attributes are bytes,
  newline and carriage return are not among the ordinary characters, and some of
  these may take two bytes.

### What stays with TLC

- The liveness properties (`Terminates`, `LoaderAnswers`, `StubDecides`,
  `StubComesThrough`, `CallsEnd`, and the part of `KeepsGoing` under fairness,
  that a caller who goes on learns how the frame ends): they need fairness and
  ENABLED, which the prover does not handle.
- The refinement `IsStreamDecoder` of `Codec`: it is about the positions of two
  stream decoders in sequences of tokens that are built by folds over the
  frames; a proof needs, for every frame, what these folds compute, which is an
  induction over data. That the tokens are of the right kind, which
  `CodecProofs` needs, is less than that.
- `BlocksDecoded`, `EntropyDecoded`, `HashStreams`, `ImageHoldsFiles` and
  `TextRight`: the algorithms are recursive operators, about which the prover
  cannot reason.

## 6. Not modelled

- The frame compressor of LZ4 (`lz4frame.c` 273-1026), the old interfaces of
  `lz4.c` and `lz4hc.c` (`LZ4_decompress_fast`, `LZ4_compressHC2`, ...), tables of
  pointers (32 bit) and of 16 bit indices read as 32 bit ones.
- Of Zstandard: the lazy, binary tree and optimal match finders, long distance
  matching, superblocks, the streaming compressor, compression levels, and the
  sampling of `suspectUncompressible`. None of `lib/zstd/compress` is part of
  the stub. Of the workspace only the tables are counted.
- Device paths, GUIDs and status codes as text (`efidp.c`, tables of names):
  wording. Read but not modelled: fields of a GUID are padded one zero short;
  `_print` does not advance on ill-formed UTF-8 in a format or an argument, and
  reads on behind a format that ends inside an item. `memcpy`, `memset`, searches in strings: without a branch of their
  own.
- The parsing of command lines by the host tools, and `bundle_image.sh`.
- The `USE_EFI_LOAD_IMAGE` build, 32 bit platforms, declarations.

## 7. Plan

The models are complete in the sense of section 6, and every invariant and
action property of a run outside `Algorithms` is a theorem, but for the
refinement `IsStreamDecoder`. Left:

1. Of `IsStreamDecoder`, the parts that need no induction over the frame: that
   the output only grows, and that a context which is used again starts a frame
   as a new one does.
2. The lemmas that two proof modules state for themselves in one place, where
   a module for them pays.
