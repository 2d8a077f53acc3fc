# Verification of Threefizer

Threefizer (`src/README.md`) encrypts and decrypts one file per run. Four
threads pass chunks of the file through three bounded queues, and a fifth,
`main`, waits for them. The files outlive the run: what one leaves behind the
next one finds. This directory holds TLA+ modules of that program, TLC runs over
small instances, and TLAPS proofs about the queue everything rests on, about what
one run does to its files, about what any number of runs leave of them, about the
block loops and the cipher that encipher and decipher them, and about the hash
and the key stretching.

## Inventory

| Part (under `src/src/`) | State | Operations | What makes it correct |
|---|---|---|---|
| chunk queue (`chunkQueue.c`, `chunk.c`) | `size`, `head`, `tail`, `elements`, a mutex kept by the callers | `enque`, `deque`, `front`, `queueIsFull`, `queueDone`, create, destroy | FIFO, no loss, no overwriting, although `front` and `queueIsFull` are also called without the mutex |
| read thread (`readThread.c`) | bytes read, chunk in hand | cut the file, queue the chunks, queue DONE | every byte once, in order; DONE, or an error that says why not |
| crypto thread (`cryptoThread.c`) | chain buffers, chunk in hand, `encrypted`/`decrypted`, header flag | take, encipher or decipher, pass on, DONE | each chunk once, with the last cipher block of the one before |
| MAC thread (`macThread.c`) | hash context, chunk in hand, `maced`, header flag | hash and pass on; append the MAC, or check header and MAC | the MAC covers all that is written; nothing passes as authentic that is not |
| write thread (`writeThread.c`, `fileIO.c`) | bytes written, temporary file | write, cut the padding, rename over the target, stop the others | the target is replaced by all there was to write or not at all |
| controller (`controller.c`) | `running`, `error`, `valid`, `new_file_size`, the queues | refuse, generate keys, wire and start the threads, join, clean up | every run ends with a true status |
| header (`tfHeader.c`) | none | build, queue and check the header | a wrong key or block size is noticed before any output; a header that was changed is left to the MAC if it still looks right |
| CBC, padding (`cbc*.c`, `encrypt.c`, `decrypt.c`, `pad.c`) | buffers | block loops in place | decryption inverts encryption across block and chunk bounds |
| `main`, arguments, passwords (`threefizer.c`, `util.c`, `arguments.c`) | option flags | parse, ask, run, free | options mean the same in any order; memory freed once |
| keys (`key.c`, `hash.c`, `noHash.c`, `random.c`) | keys, IV | choose the source, hash, stretch | the same secret and options give the same key in both directions |
| progress bar (`progressBar.c`) | `progress`, its mutex (only ever `trylock`) | print until done | never holds up the threads |
| Skein and Threefish (`skein3fish/`) | chaining variables, tweak, a buffer of one block | init with or without a key, update, final (and reset, which the program never calls); encipher, decipher | the digest is that of the message however it was fed; deciphering inverts |
| scrypt (`scrypt/`) | the lanes `B`, the table `V`, the buffer that is password and result | check parameters, PBKDF2, mix each lane, PBKDF2 | the key is scrypt of the password, lanes do not touch each other |
| PCG (`pcg/`) | generator state | random bytes for the IV | not modelled |
| files on disk | the target, the `-r` destination, temporary files | change by runs, kills, the user | every file is something somebody meant it to be |

The parts interact by shared memory only. In encryption the queues lead
read -> crypto -> MAC -> write, in decryption read -> MAC -> crypto -> write;
each queue has one producer and one consumer. `error` and `running` are plain
variables every thread polls: `error` is set by whoever fails, `running` is
cleared by the write thread when it is done.

What is hard here: unlocked reads of a queue that is being changed; threads
that end, with or without DONE, while others wait for them; the write thread's
decision to replace the target against a failure or a MAC mismatch found at the
same time; failures of the system calls at any point; a process killed between
two steps and the temporary file it leaves; in-place loops that need what they
overwrite; a buffer that is input and output at once; options whose order
matters. `PROJECT.json` lists each
hazard at its line.

## Modules

| Module | Models | State and actions |
|---|---|---|
| `BoundedFifo` | what a queue promises | the contents as a sequence; `Offer`, `Put`, `Take`, `Use` |
| `ChunkQueue` | `chunkQueue.c` between a producer and a consumer thread | the struct's fields, the mutex, two program counters; one action per memory access |
| `MCChunkQueue` | instance of `ChunkQueue` for TLC | |
| `ChunkQueueProofs` | theorems about `ChunkQueue` | |
| `Pipeline` | what the threads share: queues, flags, file, chunks | queues as sequences; `Put` and `deque` atomic |
| `ReadThread`, `CryptoThread`, `MacThread`, `WriteThread` | the thread functions, both directions each | a program counter per thread (`pc[t]`), the chunk in hand (`hold[t]`) and the function's locals |
| `Controller` | `runThreefizer` | composes the four; adds refusal, start, progress bar, join, clean-up; holds the properties |
| `ControllerProofs` | the types of `Controller`'s state, the invariant of each direction, the properties of `Controller` and its refinement of `OneRun` | theorems only |
| `OneRun` | what a call of `runThreefizer` promises | output, temporary file, `replaced`, `status`; `Open`, `Write`, `Place`, `Succeed`, `Fail` |
| `Threefizer` | `main`, its option loop, `askPassword`, the exit | `args`, the next option, `status`; an action per kind of option |
| `Keys` | `handleKeys`, `hash.c`, `noHash.c`, `genIV`, `getIV` | none: operators from `args` and the file to the possible keys |
| `Sessions` | run after run on the same files | composes `Threefizer`, `Keys` and `OneRun`; adds the disk, the end of a process at any step, the user's edits |
| `SessionsProofs` | the properties of `Sessions` about main's option loop, files and keys | theorems only |
| `Words` | 64-bit words | four 16-bit digits each: exclusive or, addition mod 2^64, rotation |
| `Threefish` | `threefishSetKey` and the three ciphers | none: operators |
| `ThreefishProofs` | that the cipher keeps blocks and can be undone, with the lemmas about recursion and words all later proofs use | theorems only |
| `Cbc` | cutting, padding, header, the block loops, truncation | chunk buffer, block index, the chain buffers of both threads, `prev_block_even`/`odd`; one action per block |
| `CbcProofs` | the properties of `Cbc` | theorems only |
| `Skein` | `skein.c`, `skeinBlockNo3F.c`, `skeinApi.c` | the context as a record, every call an operator on it |
| `Ubi` | what Skein is by its definition | none: operators on whole messages, the reference for `SkeinUse` |
| `SkeinUse` | how the program uses a context | initialise, feed a piece, finish, reset |
| `SkeinProofs` | what the operators of `Skein` compute, in terms of `Ubi` | lemmas only |
| `SkeinUseProofs` | the properties of `SkeinUse` | theorems only |
| `Scrypt` | `kdf_scrypt`, `smix`, `PBKDF2_SKEIN512` | the shared buffers; one action per turn of a loop |
| `ScryptProofs` | the properties of `Scrypt` | theorems only |
| `MCCbc`, `MCSkein`, `MCScrypt`, `MCSessions` | instances for TLC | |

How they hang together: `ChunkQueue` implements `BoundedFifo`, which is what the
queues of `Pipeline` are; the four threads and main are composed in
`Controller`, which is proved to implement `OneRun`; `Sessions` composes `OneRun` with main
and the keys over many runs. Below the pipeline `Cbc` uses `Threefish`, and
`Scrypt` uses `Skein`, whose cipher is a constant that `MCSkein` and `MCScrypt`
set to that of `Threefish`; what they establish (decryption
gives the file back, the header tells a wrong key, the key depends on the secret
and the salt only) is what `Pipeline` and `Keys` take for granted.

**The queue, twice.** `ChunkQueue` has the grain of single loads and stores:
`enque` raises `size`, moves `tail` in two stores (`(++tail) % capacity` assigned
to `tail` is what the compiler makes of it) and fills the slot; a caller may
read `size` and then `elements[head]` without the mutex at any moment of this.
`PeekStands` and `RoomStands` say why that is harmless with one producer and one
consumer, `Implements` that the whole is a bounded FIFO. `Pipeline` then uses
sequences with atomic operations. "Wait for room, lock, enque, unlock" is one
step there: by `RoomStands` the room does not go away before the lock.

**Data.** A chunk is `[action, id, seal, digest, size]`. `id` says which part of
the file it is. Enciphering after cipher block `c` appends `c` to `seal`; only
`<<id - 1>>` is right, and deciphering removes it only with the same `c`. So
double encryption, a wrong chain and an altered chunk are all visible, and
nothing else of the cipher is modelled. A MAC is the sequence of chunks hashed.
Sizes are in units of which the cipher block is 2 and the largest chunk 4.

**Grain of the threads.** The loop test (`running`, `error`), taking a chunk,
work that sets a shared flag, and passing the chunk on are separate steps; work
on locals is merged into the step before it. The threads only try-lock the mutex
of the progress, and drop what they could not add when they end. So of the bar
only its loop condition matters: main leaves it (`LeaveBar`) when `running` is
false or `error` is set, or when the count reaches its end (`BarFull`), which
may happen or not.

**Failures.** `Faults` names what may fail: opening or stat-ing the input,
reading it, opening or writing the temporary file, `rename`, memory for the
chain, header and MAC buffers, and key generation. A short read makes `pad`
copy from a null pointer, so it ends the process (`pc["main"] = "crashed"`).
`getFileSize` says 0 when `stat` fails (`Sizes`). `queueFileForEncrypt` asks again
and refuses such a file; `queueFileForDecrypt` decides by the size main has seen,
finds nothing to read in a file of 0 bytes and queues DONE alone, with no error.
`authenticateMAC` then waits for a MAC that nobody will queue (`NothingRead`).
Some error returns cannot happen and have no action: `enque` refusing a chunk
after the wait for room (`RoomStands`), `encryptHeader` on a null key,
and generateMAC's final `else`.

**Damage.** Decryption starts from a file as encryption made it, or with one
change: to the header, to its IV, to one chunk, a chunk appended, or the last
block missing. The header is one cipher block after an IV that the file has in
clear, and `checkHeader` compares two of its words (`tfHeader.c:23-24`) and stores
the one between them, the size, as it is. In a changed cipher block those words
are garbled ("header"). A changed IV changes the words it lies over and no
others, so the header can pass and promise any size, or the right one when only
words nobody looks at were hit ("iv"; `file.promised`, from `Promises`). With
scrypt the IV is also the salt of the key, so there any change of it garbles the
header; "iv" is what `-l` and `-n` allow. The MAC is over header and IV, so it
finds this too, but after the size was acted on.

**The arithmetic.** `Words` keeps the 64 bits of a word in four digits of 16,
since TLC's integers have 32. The rounds of Threefish are tables of word pairs and
rotations read off the unrolled code. `Cbc` and `Scrypt` keep the in-place
updates of the code, because the order in which a buffer is overwritten is what
can go wrong; everything else is written as functions of blocks. In `Cbc` the
encryption of a file is followed by a decryption of what it wrote, with any key
and block size, as `readThread.c`, `cryptoThread.c` and `writeThread.c` would
take it through their chunks.

**Files and keys in `Sessions`.** The files on disk are a function from the names
of those that exist to their contents, and so are the temporary files, whose
name is the target and the block size. A file is a sequence of cells (parts of a
text, header, cipher text, MAC, and the cell "rest" for what an overwritten
longer file still has behind); only lengths and what they were made of matter.
A key is a record of its recipe (secret, mode and block size), the memory that
came into it and the salt: two keys are equal when these are. `kdf_scrypt` without memory leaves the key unstretched and
reports no error, so `KeysOf` has that key too. Keys made of memory nobody wrote
(`OfJunk`: a short password with `-n`, an entry that could not be read) have one
of two values. `Kill` ends the process between any two steps from the moment the
keys are there; before that nothing was changed on disk.

## Runs

| Run | Instance | Shows |
|---|---|---|
| `queue` | 3 slots, 2 chunks queued again and again | `TypeOK`, `RoomStands`, `PeekStands`, `RingInv` (the inductive invariant of the proofs), refinement of `BoundedFifo` |
| `encrypt` | capacity 2; files of 0, 1 and 17 units; all faults | order and completeness of the stream; what replaces the target is whole and only after success; success is real; every run ends or is stuck in one of two ways (`MacStarved`, `Orphaned`) |
| `decrypt` | capacity 2; 2 and 13 units; all damages, a changed IV promising 0, 6 or 14; all faults | order and completeness of the stream; what replaces the target is as much as the header promises and of the right text; success means an authentic input and complete output; every run ends or is stuck in one of two ways (`NothingRead`, `Orphaned`) |
| `cbc` | three block sizes, files of 1, 4, 16, 17 and 37 words, chunks of 16 words, two keys | the cipher text is textbook CBC of header and padded file, chunk bounds leave no trace, decryption inverts, and the header tells a wrong key or block size |
| `skein` | three block sizes, with and without a key, pieces that end before, at and after the end of a block, contexts used twice | the digest is Skein's by its definition, the last block is held back, and the first digest of each size in `test/skeinTests.h` |
| `scrypt` | N of 0, 2, 3, 4, 8, one and two lanes, r of 1 and 2, keys of 32 and 64 bytes, `malloc` failing | the key is scrypt by its definition, each lane is mixed as if alone, Salsa20/8's known answer |
| `sessions` | three runs on a target and the `-r` destination, command lines of every kind, failures, kills, edits | no file is lost or cut, the output is where it was asked for, no temporary file stays after a run that could remove it, the same secret opens the file, the options mean what they say, memory freed is main's |
| `encrypt_ends` | 9 units, no fault | violated: DONE can be swallowed (below) |
| `decrypt_overwrite` | 9 units, all damages, no fault | violated: the target is replaced in a run that fails |
| `decrypt_header` | 9 units, a changed header or IV, promising 0, 5, 9 or 20; no fault | violated: a changed header passes and decides what replaces the target |
| `decrypt_intact` | 9 units, no damage, no fault | violated: an intact file may be reported as modified |
| `stale_temp` | two encryptions of one target, a kill and an edit | violated: an old temporary file's tail behind a new output |

The runs `encrypt` and `decrypt` also check `ImplementsRun`: every step of
`Controller` is one of `OneRun` or changes nothing it sees, with or without
failures.

**Why the bounds are enough.** Three slots are the least with which a ring is
empty, partly filled and full at every offset; the proofs drop the bound. The
pipeline's queues have two slots, and the five-chunk file has more chunks (with
header, MAC and DONE) than a queue and the hand of its producer hold, so every
thread can find its queue full and be overtaken by an error there; four chunks
use both chain buffers twice. 0 and 1 are the sizes main and `genHeader` refuse;
17, 13 and 9 leave a last chunk that needs padding, 2 one that does not. Of the
sizes a changed IV promises, 0 ends the write thread before it writes, 6 in the
middle of the second chunk, and 14 is within the padding of 13 and far beyond a
file of 2, where the write thread waits for more until the MAC fails. Every kind
of stuck thread in `Ends` was seen to be reached in these instances.

In `cbc` a chunk holds one, two or four blocks, so the chain crosses chunk
bounds after an odd and after an even block, both chain buffers and both block
buffers change roles, and the last chunk is full (16), one word long (17) or
needs padding in the middle of a block; 37 words are two chunks and a part.
The chunk size is a multiple of every block size (`CbcAssumption`), as
`MAX_CHUNK_SIZE` is. This is assumed, not checked, so no property says anything
of another value: `commonConstants.h:13` asks for a multiple of 64 bytes only,
with which the 1024-bit cipher would pad every chunk. In `skein` the pieces make every way into `Update`
happen (nothing buffered, a partly and a completely full buffer, one or more
whole blocks at once); keys are longer than a block, so that keying has two. In
`scrypt` the table has up to eight entries, more than one lane shares it, and
the output has one or two blocks of PBKDF2. `MaxRP` stands for the 2^30 that `r * p`
must stay under; it is 4, so that two lanes of two pairs are refused. What N, r
and p are makes no other difference to the loops. In `sessions` three runs are
the least in which one is killed or encrypts, the next meets what it left, and a third opens what both
made; files have three cells, so a run can be killed with a longer temporary
file than the next one writes. It may stop after the last run
(`CHECK_DEADLOCK FALSE`), as users do; so may `stale_temp`, and so do `skein`
and `scrypt` when the last use or the call is over.

**Fairness.** Weak fairness of main and of each thread: the scheduler runs what
can run. Main's covers `LeaveBar`, whose condition is evaluated in every turn of
the bar, but not `BarFull`: nothing promises that the count gets there. No
strong fairness is needed because a chunk in a queue is only taken by its one consumer and room is only used by its one producer. Threads that
sleep on a full queue poll; the step `Sleep` stands for that and keeps a stuck
run from looking like a deadlock, so being stuck is what `Ends` is about.

**Properties worth knowing.**
- `CommitIsAsPromised`: whatever replaces the target in encryption has every
  piece, in order, of the right size, with the right chain and a MAC over all of
  it. In decryption it has every piece of a text of the size in the header, and
  these are the plain file's own unless a chunk was changed. It is not the whole
  file when the header was made to say otherwise (`decrypt_header`), and not
  known to be authentic (`decrypt_overwrite`).
- `SuccessIsReal`: a run that reports success had an authentic input and its
  output is complete. It is in place unless `rename` failed, whose result
  nobody checks; then it is still in the temporary file.
- `OverwritesOnlyOnSuccess`: true in encryption, violated in decryption.
- `OrphansOnlyAfterEnd`, `Ends`: a thread is left asleep on a queue only in a
  run that failed or is over (`Orphaned`); apart from that, from an encryption
  whose MAC thread is left without its DONE (`MacStarved`) and from a decryption
  whose reader saw no file (`NothingRead`), every run ends. `Ends` names these
  and excuses them; what it excludes is a fourth.
- `FilesWhole`: over runs, failures and kills, a file holds what the user put
  there or the whole output of a run (apart from a tail, `stale_temp`).
- `SameSecretOpens`: when the header is refused, the secret or an option that
  makes the key differs, or the key was made of memory nobody wrote, or one of
  the two runs had no memory to stretch it.
- `RoundTrip`, `IsCbc`: chunks, chain buffers and the even and odd buffers of the
  block loops cannot be told from the file.
- `HoldsBack`: at any moment the context is the chaining value of what was
  processed and the unprocessed end of the message, of which the last block, be
  it full, is not processed before `Final` tags it.
- `KeyIsStretched`: the buffer that is password and result ends as scrypt of what
  it was, or, when there was no memory or the parameters are wrong, as it was.

Each property of a passing run is shown to be breakable: a definition named as
a slip in the module's comments, put in the place of the one below it, makes TLC
find the property violated.

## What the violated runs found

1. `generateMAC` tests for DONE in its loop condition and takes whatever is in
   front in the body. With the queue empty at the test and DONE queued before
   the take, it takes DONE and waits for it ever after (`macThread.c:197-204`).
   No failure is needed.
2. `checkHeader` does not look at the size it takes from the header, and a changed
   IV can set it (see Damage above). The write thread ends and cuts at that size
   and renames: the target is replaced by the beginning of its plain text, or by
   nothing (`tfHeader.c:23-26`, `writeThread.c:36-45,50-53`; README: "Any changes
   to the initialization vector or header will cause the header check to fail and
   decryption to be aborted").
3. In decryption the write thread ends on the size in the header and renames
   before the MAC is compared, so a failing run can have replaced the target
   (`writeThread.c:36-45,85-90`; README: "Only overwrites files on success").
4. It also clears `running`, which a MAC thread still waiting for the stored MAC
   takes for its absence: `MAC_CHECK_FAIL` for an intact file
   (`macThread.c:125,140-143`).
5. The temporary file has a name made of the target's and is opened without
   `O_TRUNC` (`fileIO.c:30`). A killed run leaves it behind, and the next run on
   that target which writes less renames it with the old tail, reporting
   success, where `cryptoThread.c:162` says the file is
   `|HEADER|CIPHER_TEXT|MAC|`. The reader takes the tail for data and MAC.

Seen while modelling, without a run of their own: after a failed write nobody
empties the write queue, and `generateMAC`, which looks at neither `running` nor
`error`, sleeps on it so that main never returns (`macThread.c:232`), as the
reader may on its own queue (`readThread.c:192`); a decryption whose second
`stat` fails never returns either (`readThread.c:21`, `macThread.c:125-138`): in
`Ends` these are `Orphaned` and `NothingRead`. A MAC that fails overwrites the
error that came before it (`macThread.c:143`). `kdf_scrypt` returns 0 when
`malloc` fails, where its comment says -1 (`scrypt.c:193,236`), so that a file
may be encrypted under an unstretched key; `-d -e` is refused and `-e -d` is
not; `-p` wants more than 6 characters, the prompt 6; the version in the header
is never compared, so `-l`, like `-b` and `-n`, must be remembered; only the last
of several files is worked on where `threefizer.c:161` speaks of each; `-p` with
`-P` frees a string of `argv` (`FreesOwn` shows that nothing else does).

## Proofs

### The queue

`ChunkQueueProofs` proves, for every capacity of at least 2
(`CapacityAssumption`: `createQueue` starts `head` at 1, which must be a slot)
and every set of chunks without the null pointer (`NullAssumption`):

- `RingCorrect`: `Spec => []RingInv`. `TypeOK`, `RoomStands` and `PeekStands`
  are not inductive alone. `RingInv` adds who is inside an operation
  (`MutexOK`), what the threads hold (`ChunkOK`), how the indices and the count
  fit together (`IndexOK`) and which slots are filled (`FilledOK`). `RingStep`
  goes through the actions of both threads; `WrapIsMod` replaces `%` by a case
  distinction once, so no other step reasons about it.
- `TypeCorrect`, `RoomCorrect`, `PeekCorrect`: its consequences.
- `ImplementsFifo`: `Spec => Implements`. A chunk is in the FIFO from the last
  store of `enque` until `front` returns it under the lock; every other access
  changes nothing of it (`FifoStep`).

### A run

`ControllerProofs` proves, for every file size and damage, every queue capacity,
every set of faults and both directions:

- `TypeCorrect` (`TypeOK`), `Streams` (`StreamInOrder`), `Commits`
  (`CommitIsAsPromised`), `Succeeds` (`SuccessIsReal`) and `Orphans`
  (`OrphansOnlyAfterEnd`) as they are checked.
- `OverwritesAfterSuccess`: `OverwritesOnlyOnSuccess` for encryption; the run
  `decrypt_overwrite` shows why not for decryption.
- `Implements`: `Spec => ImplementsRun`, so what `Sessions` builds on holds of
  every run and not only of the checked ones. The `output` of `OneRun` is, in a
  decryption, as much as the header promises; in `Sessions`, where nobody changes
  an encrypted file, that is the whole text.

They assume that chunks are made of whole cipher blocks and that a queue holds
at least two (`PipelineAssumption`), that the null pointer is no chunk
(`NullAssumption`) and that NULL is no status (`StatusAssumption`). The last two
say that the stand-in for "nothing" is not one of the things it stands for.

None of these properties is inductive: that the written file is whole depends
on every chunk still in a queue or a hand. The argument is one invariant for
each direction, next to `TypeInv`, which adds to the types what can be where
(which thread is at which label, which chunks a queue can have) and, in
`OnceOnly`, that nothing is enciphered twice.

- `EncInv`: while no error is reported, the k-th item put into each queue is
  chunk k of the file as the threads before that queue leave it (`PlainItems`,
  `SealedItems`, `OutItems`), and the queue holds exactly those put in and not yet
  taken (`PlainInOrder`, `SealedInOrder`, `OutInOrder`). The counts at both ends
  are functions of the state (`ReadGave`, `CryptoTook`, ...), so no history is
  added. `ReaderOK`, `CipherOK`, `DigestOK` and `OutputOK` say the same of each
  thread's hand and locals; the chain of `CipherOK` is the seal of the chunk
  before. Once an error is set nothing of this need hold; what remains is
  `Fate`: no rename follows, so the target is what it was.
- `DecInv`: in decryption a run can fail when the target is already replaced, and
  `running` can be cleared while other threads work, so the part that holds
  whatever happened is larger: `Outcome` (what replaced the target, or is about
  to, is all the header promises, and of the plain file's text if no chunk was
  changed) and `Hashing` (what has been hashed is made of pieces of the stored
  file, so a match of the MAC means nothing was altered, `MatchIsIntact`). While
  the run goes on and there is something to read (`Flowing`), the orders of the
  queues hold as above, with `SourceOK`, `HashOK` and `EndPassed`; those of the
  two last queues are only kept as long as the write thread has not stopped
  (`Writing`). Before the reader has its size, and for good if its `stat` failed,
  nothing but DONE is anywhere (`NothingCame`), and a step leaves it so or makes
  the run flow (`NothingStays`).
- `Streams` follows from the orders of the queues: each hand and each queue is a
  stretch of the way from the reader to the file whose data chunks are numbered
  from one count to the next (`RunsOfItems`, `RunsHeld`), and stretches that
  follow each other make one (`RunsJoin`, `RunsOnTheWay`).
- `ControllerProofs` takes from both what a step that changes the files needs
  (`Ready`) and maps each step to one of `OneRun` or a stutter.

The proofs go thread by thread (`ReadKeeps`, `CryptoKeeps`, `MacKeeps`,
`WriteKeeps`, `MainKeeps` and their like), one step per action and below it one
per conjunct the action can disturb. Arithmetic is confined to lemmas about
`DataChunks`, `getPadSize` and `Written`. TLC checked both invariants on the
instances of `encrypt` and `decrypt` before they were proved.

### Run after run

`SessionsProofs` proves about `Sessions`, for any number of
runs and files, any command lines, key files, first contents and edits:

- `Asked` (`AsAsked`) and `Frees` (`FreesOwn`), about main.
- `SessionTypes` (`TypeOK`), `Whole` (`FilesWhole`), `Litter` (`NoLitter`),
  `Delivers` (`Delivered`) and `Opening` (`SameSecretOpens`).

They assume that the user's files have no encrypted cells in them, other than
by encryption, and that there is a file (`FilesAssumption`); and of an option what
`getopt_long` and `validSize` let through (`CommandsAssumption`): block sizes of
4, 8 or 16 words, a name that is not empty after `-r`, a length for the
argument of `-p`. Kills, failed calls and edits happen as often as they like.

The invariant is `SessionInv`, which TLC checked on the instance of `sessions`
before it was proved. Its parts:

- `ArgsInv`: what the options seen so far have left in each field of
  `arguments` (`OptionsTaken`), and that main gets past the loop only if none of
  them was refused (`Accepted`). The properties speak of the whole command line,
  so the invariant has to speak of the part before `at`; `SeenNext` and
  `FieldsSet` say what one option more does to both.
- `FilesKept`: every file is one the user or an encryption made, or has such a
  file in front and a tail behind; and the header of each stands for a file that
  was kept and has a key `handleKeys` may make with that salt. The second half
  is what `FilesWhole` needs of a decryption, whose output is what the header
  stands for, and what `SameSecretOpens` compares the key with.
- `OutputMade`, `TempWritten`: what the run is going to write follows from its
  target, and its temporary file begins with what was written, with no more than
  a tail behind. A rename therefore puts a kept file in place. That a tail of a
  tail is a tail (`TailOfTail`) is why any number of killed runs does no worse
  than one.
- `NothingLeft`, `OthersUntouched`, `HeaderBlamed`: which temporary files there
  are, that nothing but the destination differs from `before`, and which step
  can have reported a bad header.

There is one lemma per action of a run under `RunsStep`, and lemmas about
sequences, prefixes and `Overlay` before it, so that no step opens them.

### The data

`CbcProofs` proves about `Cbc`, for every file, every number of keys, the block
sizes the program has, every `MaxChunk` that is a multiple of them, and every
cipher that can be undone:

- `Chains` (`IsCbc`) and `Covers` (`NothingLost`) about encryption.
- `Tells` (`HeaderTells`), `Types` (`TypeOK`) and `Restores` (`RoundTrip`) about
  what follows.

What is assumed of the constants is in `CbcAssumption` and `HeaderAssumption`
(sizes, and that a length fits in a word and can be read from it), which TLC
evaluates with the values of `cbc`, and in two hypotheses the theorems state:

- `Invertible`: on blocks, deciphering undoes enciphering under the same key, and
  the exclusive or undoes itself. It speaks of all blocks, of which there are too
  many for TLC to enumerate. `ThreefishInvertible` proves it of the program's
  cipher (below), so `ThreefishRestores` has `RoundTrip` without this hypothesis.
- `NoFalseKey`: no other key and no other block size happens to decipher the
  header to a good one. No cipher promises that of every pair of keys; this is
  the collision that the header's two words of magic and block size make
  improbable. Half of `HeaderTells` rests on it (that others never get past the
  header), and `Types` and `Restores`, which speak of what comes after the
  header, assume it too; that the right key is never refused does not need it,
  nor do `Chains` and `Covers`.

The invariant is `CbcInv`, TLC-checked on the instance of `cbc`. `IsCbc` speaks of
the whole cipher text at the end; `Chained` says it of what has been written,
`InChunk` of the chunk in the buffer, whose blocks before `block` are
cipher text and the others still plain, and `EncipherOK` where in the file that
chunk is. Decryption is the same the other way round (`OutChunk`), with one thing
more: which of the two chain buffers holds the last cipher block of the
chunk before (`Current`) and which that of this one (`Other`), by the parity of
`decryptCount`, and which of `prevEven` and `prevOdd` holds the block before this one
(`Before`), by the parity of `block`. This part is about the right key only; with
another the code never gets there. `CutFacts` and `ReadCut` say that a chunk
ends at the end of a block or of the file, which is what `MaxChunk % size = 0`
is needed for.

### The cipher

`ThreefishProofs` proves about `Threefish`, for each of the three block sizes,
every key, every tweak and every block:

- `ThreefishInverts`: `threefishDecryptBlockWords` gives back the block that
  `threefishEncryptBlockWords` was given, under the context of one
  `threefishSetKey`.
- `ThreefishKeeps`: both make blocks of the same size, of words of 64 bits.

Nothing is assumed. This is a fact about the code and not about the paper: the
unrolled rounds are written twice, each direction with its own order and its own
constants, and a wrong word number or rotation in one of them would make files
that cannot be decrypted.

The argument goes from the inside out. On digits and words: subtraction undoes
addition (`SubAdd`), exclusive or undoes itself (`XorTwice`, by doubling the
number of bits), and `RotR` undoes `RotL` for every distance from 1 to 63
(`Rotations`), a turn by whole digits and a shift by less than one. On a round:
when its mixes have every word of the block once (`Pairing`), they do not
disturb each other, and unmixing undoes mixing (`UnmixMix`). On the tables:
each of the eight rounds is such a pairing (`Table256`, `Table512`,
`Table1024`), and the eight of decryption are those of encryption backwards
(`Backwards256` and so on). On a half of the table: four rounds are undone by
the other half of the other table (`FourRoundsUndone`). And on the whole, by
induction over the subkeys from the last to the first: what deciphering has
after subkey s is what enciphering had before it (`DecryptEncrypt`). For that
the number of subkeys must be odd, 19 or 21, or the halves would not meet.

Three theorems put it where it is needed. `ThreefishRestores` (in `CbcProofs`),
`ThreefishDigests` (in `SkeinUseProofs`) and `ThreefishStretches` (in
`ScryptProofs`) state `RoundTrip`, `DigestIsSkein` and `KeyIsStretched` when the
cipher is Threefish (`IsThreefish`), without a hypothesis about what the cipher
does; `MCCbc`, `MCSkein` and `MCScrypt` are such instances.

### The hash

`SkeinUseProofs` proves about `Skein`, for the three block sizes, every key,
every message, every way of cutting it into pieces and any number of uses of one
context:

- `DigestsAreSkein` (`DigestIsSkein`), `BlocksAreHeldBack` (`HoldsBack`) and
  `ContextTypes` (`TypeOK`).

What is assumed is in `SkeinUseAssumption` (the three sizes, bytes that are bytes)
and in the hypothesis `CiphersKeep`: of a key and a block of n words the cipher
makes a block of n words, which `ThreefishKeeps` proves of Threefish
(`ThreefishCipherKeeps`). It is all the hash needs of the cipher; that Threefish
is different for different keys plays no part in what the digest is of.

The code keeps a count of bytes, flags for the first and the last block and up to a
block of bytes; `Ubi` numbers the blocks of a message that lies there whole. The
invariant that ties them (`IInv`) is of a context in the middle of a message:
`Absorbed` says that it has chained the first q blocks, that the rest of the
message is in the buffer and fills it at most, that it is empty only if the
message is, and that the tweak has what belongs to block q + 1. `HoldsBack` is
less, since it says nothing of the flags, and is not inductive. Around it: `Saved`
(what `skeinReset` goes back to is the chaining value of the key and the
configuration) and the digest itself once there is one.

`SkeinProofs` has the three facts the steps need, of which all else is made:
initialising starts a message (`MacStarts`), updating appends to it (`MacFeeds`)
and finishing gives the digest of all of it (`MacEnds`). Under them are one lemma
for several whole blocks at once, one for what goes through the buffer, and one for
the padded last block. Of the arithmetic of words the counts need only that
adding in digits is adding (`AddSmall`).

### The key stretching

`ScryptProofs` proves about `Scrypt`, for every password and salt, every N, r and p,
accepted or not, and with or without memory:

- `LanesAreApart` (`LanesApart`), `KeysAreStretched` (`KeyIsStretched`) and
  `ScryptTypes` (`TypeOK`).
- `PbkdfIsMac`: what PBKDF2 takes is the Skein-MAC as `Ubi` defines it, of salt and
  counter under the password. No run checks it by itself; it joins the two parts.

Assumed are `ScryptAssumption` (a key of whole parts of 32 bytes, as all three
ciphers have; what scrypt wants positive is positive) and the hypothesis
`CipherKeeps` for blocks of 8 words, as above. The invariant says of the lane that
is being mixed how far it is: while V is filled (`Filling`), entry k of V is the
k-fold mix of the lane for every k below i, and X is the i-fold; while V is used
(`Mixing`), all of V is that table, and X is what ROMix has after i turns. Whatever
V was before makes no difference because all of its entries are written first,
which is why `LanesApart` holds. `Deriving` says the same of the buffer that is
password and result: its first 32 * i bytes are derived, and the state they are
derived from has been made of the password before the first of them was written.

### Induction

What is computed by recursion (blocks one after the other, the rounds of the
ciphers, the turns of smix) is reasoned about with `NatInd`, which is induction over a set
of numbers and follows from the library's theorem that `<` on the naturals is
well-founded; and with `Recursion`, that a function on 0 .. n given by its value
at 0 and a step exists and has the values the step gives it. `Unrolled` does the
same for `Encrypt` and `Decrypt`, whose recursion is over what is left to do. A definition by
`f[i \in 0 .. n] == ...` is of use in a proof only when there is such a function.

### Only model-checked

- All liveness, `Ends` among it, and deadlock.
- `KnownAnswer` and `KnownSalsa`: that the constants of the ciphers, the rotations
  and the word pairs are those of Threefish, Skein and Salsa20. The proofs above
  would hold of others too, as long as they are the same in both directions.

## Not modelled

- `pcg/`: pure arithmetic. The models take a random block for one nobody had
  before; the generator is seeded with the time, so the program may repeat one.
- Parts of the libraries nothing calls, but for `skeinReset`: `Skein_*_Init` and its tables of
  precomputed chaining values other than as the result of the configuration
  block, `Skein_*_Output`, `skeinUpdateBits`, the byte versions of the block
  ciphers, more than one iteration of PBKDF2; and `genMAC`, `checkMAC`,
  `headerIsValid`.
- Bytes and their order below a word outside Skein and scrypt; hexadecimal
  names; all texts, and what the progress bar shows.
- `getopt_long`'s permutation of the arguments: the models get the options in
  order and the last file.
- Collisions: in `Keys` and in `Pipeline` hashes and MACs are equal when what
  was hashed is.
- Memory that cannot be had where the code does not look at the result. What
  lies behind `U` in `PBKDF2_SKEIN512`, to which a longer digest is written: the
  model has its first 32 bytes, which the code uses.
- A file of one byte, whose header is not queued (`QUEUE_OPERATION_FAIL`), is in
  `Controller`, not in `Sessions`.
- The unit tests, except where an expected digest is a known answer here.

## Plan

1. *Done*: the queue and its proofs; the pipeline, its runs and its refinement of
   `OneRun`; CBC, Skein, Threefish and scrypt against reference definitions;
   main, keys and many runs on the same files.
2. *Done*: the proofs about a run: types, the safety properties and the refinement
   of `OneRun`.
3. *Done*: the proofs about sessions: that only whole output replaces a file
   (`FilesWhole`), for any number of runs and files, with `NoLitter`, `Delivered`
   and `SameSecretOpens`, and main's `AsAsked` and `FreesOwn` for every sequence
   of options.
4. *Done*: the proofs about the data: `IsCbc` and `RoundTrip`, with the other
   properties of `Cbc`, for every cipher that can be undone.
5. *Done*: `StreamInOrder`, stated of the places on the way (`Runs`) and proved
   from the order of each queue.
6. *Done*: the proofs about the hash and the key stretching.
7. *Done*: the proofs about the cipher, and with them what 4 and 6 assumed of it.

Liveness stays with TLC, and so do the known answers.
