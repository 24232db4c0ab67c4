# EmexFoundation: TLA+ models and proofs

EmexFoundation is a C library in the manner of CoreFoundation: reference counted objects, each of a registered class, and types built on them: arrays, strings, numbers, URLs, files, processes.
This directory holds TLA+ models of its core, TLC configurations that check them on small instances, and proofs checked by TLAPS that hold for every value of the constants.
Paths below are relative to the repository root, `src/`; line numbers are those of `PROJECT.json`, which maps every definition to the lines it stands for.

## The system

| Component | State it keeps | Operations | Model |
|---|---|---|---|
| Object runtime, `EFRuntime/EFObject.c` | an atomic counter in every object | `EFRetain`, `EFRelease`, nested deinit | `EFObject`, `EFLifetime`, `EFThreads`, `EFRuntimeProofs` |
| Allocator, `EFRuntime/EFAllocator.c` | none of its own | `EFObjectCreate`, `EFAllocatorDeallocate` | in `EFObject` (partly) |
| Class registry, `EFRuntime/EFClass.c` | table, next identifier, capacity, mutex | `EFClassRegister`, lookup by identifier | `EFClass`, `EFThreads`, `EFRuntimeProofs` |
| Array, `EFArray.c` | buffer, capacity, count, mutability, callbacks | creation, copies, append, insert, remove, bulk append | `EFArray`, `EFArrayProofs` (partly) |
| String, `EFString.c` | buffer, length, encoding, mutability | creation, copies, append, delete, trim, split | `EFString`, `EFSplit`, `EFText`, `EFStringProofs` (partly) |
| String formatting, `EFString.c:367-691` | a growing buffer, an array for a directive | interpreting a format | `EFFormat`, `EFConversions`, `EFConversionsProofs` |
| Number, `EFNumber.c` and `EFString.c:1203-1416` | type and 128 bits | creation, value, description, parsing with overflow | `EFNumber`, `EFConversions`, `EFConversionsProofs` (partly) |
| URL, `EFURL.c` | kind, components, cached path | parsing, appending, deleting, `EFURLGetPath` | `EFURL`, `EFSplit`, `EFStringProofs` (partly) |
| File handle, `EFFileHandle.c` | one descriptor | open, copy, read, write, seek, truncate, range read | `EFFileHandle`, `EFFileHandleProofs` (partly) |
| Bit walker, `EFBitWalker.c` | byte position and bit index | write, read, skip, align, buffers | `EFBitWalker`, `EFFileHandleProofs` |
| Process, `EFProcess.c` | identifiers, ownership of a child | spawn, observe, signal, wait, kill at the end | `EFProcess`, `EFProcessProofs` (partly) |
| File, `EFFile.c` | URL, policy, type, lazily opened handle | creation, unsaved files, open, copies, whole data, close, unlink | `EFFile`, `EFFiles`, `EFDescriptors`, `EFFilesProofs` |
| File manager, `EFFileManager.c` | none | directory listings; existence and access | `EFFileManager` (partly) |
| Download, `EFFileHandle.c:158-296` | a socket or a pipe, a state of the header | request, skipping of the header, copy | `EFDownload`, `EFFilesProofs` |
| Data, `EFData.c` | buffer, length, who frees it | creation, copies, views, resizing, appending | `EFData`, `EFBytes`, `EFDataProofs` |
| Mapping, malloc block, `EFMapping.c`, `EFMallocBlock.c` | pages and a flag; memory and a callback | creation, hand-over, destruction | `EFData` |
| UUID, dictionary, in-memory files, logging | none that outlives a call | | no |

How they interact:

- Every type embeds an `EFObject`. Creation goes through `EFObjectCreate`, which finds the class in the registry; the last `EFRelease` calls the class's deinit, which releases the fields, which may run further deinits below it on the same stack.
- Arrays, strings, URLs and files hold references to one another. Containers retain what they store through callbacks; getters hand out pointers that the caller does not own.
- A URL is split and joined by the string functions (`EFSplit` is used by both models), opened by a file handle, read and written by a bit walker through a copy of the handle. Copies share the kernel's cursor.
- A file opens its URL by a file handle when the first call needs one, hands out copies of the handle, and reads itself whole through the cursor that the copies share. An HTTP URL is downloaded into an in-memory file behind the handle. Files, downloads and directory listings meet at the limit of open descriptors: `EFFiles` composes them.
- A data object shows or copies memory that a caller, a mapping or a malloc block keeps: `EFData` has them over one heap.
- A number is made by the string parser, which leaves by `longjmp` when it overflows; its description is made by the format interpreter and can be parsed again: `EFConversions` composes the two.

What makes it hard: concurrent threads share objects, the registry, the path cached in a URL, the descriptor table and the cursors behind descriptors; pointers are borrowed without a retain; most calls fail half-way when memory or descriptors run out; buffers grow by rules that are easy to get wrong by one; and the kernel gives descriptor numbers and process identifiers to somebody else once they are free. `PROJECT.json` lists these hazards, each at the line where it bites, with the property that watches it.

What makes each component correct, in a sentence:

- *Object runtime*: an object dies exactly when its last owner lets go, once, and nobody can still reach it.
- *Registry*: identifiers are unique, lookups find what was registered, the mutex is always given back.
- *Array*: order is kept, retains balance, values stay inside the buffer.
- *String*: edits do what their names say and leave a terminated buffer in the right encoding.
- *Formatting*: every directive gets its own argument as the type that was passed, nothing is written outside buffer and array, and the call returns.
- *Number*: a numeral gives the number it denotes, or Overflow, and a description parses back.
- *URL*: a path splits into what it was joined from, and a borrowed path stays valid.
- *File handle*: every descriptor has one owner, and a range read does not disturb the cursor.
- *Bit walker*: what was written is read back, and its neighbours are untouched.
- *Process*: a signal hits the process it is meant for, and no child is left behind.
- *File*: whole contents are read, a held file is neither replaced nor emptied, and no failure keeps a descriptor.
- *Download*: what is handed over is the body of the response or, when the connection is lost, its beginning.
- *File manager*: a listing ends.
- *Data, mapping, malloc block*: every block is freed by exactly one, and bytes stay what they were set to through every move.

## The modules and the code

**EFObject.** One action per atomic access of a counter and per step of a destruction. The code has only the counter. The model adds `target` and `holder`, the owning references themselves, so that the two can be compared. `top` and `caller` are the stack of nested releases: `Decrement` that sees 1 pushes the object, `DeinitField` releases its fields, `EFAllocatorDeallocate` pops it. `Borrow`, `RetainBorrowed` and `EndBorrow` are the unretained pointers of getters. Containers are written under `Exclusive`: the library has no lock on them, so a client must be the only one to reach a container it writes. Static objects (`EFSTR`) have no count. A failed allocation changes nothing and is a stutter.

**EFLifetime** is the contract: who owns what, what exists, and that reclaiming needs the last owner gone. It has no counters, no stack and no threads inside a release. `EFObject` implements it (`ImplementsLifetime`).

**EFThreads** declares what `EFObject` and `EFClass` have in common, the threads of the process, so that one module can prove about both.

**EFClass.** `LockRegister` to `StoreClass` are the steps of `EFClassRegister`; a lookup is `LockLookup` and `ReadClass`. Table entries beyond the allocation are part of the model, so that a write there is visible. `Builtin`, `Chunk` and `MaxID` stand for 14, 1024 and the range of the identifiers. The specification is `RegistrySpec`. Assertions are compiled in, and one that fails ends the process.

**EFArray.** A call that stores one value is one action, with the reallocation it makes; a call that stores several is a sequence of steps with `call` as its program counter: `Reserve` (one round of the reservation loop), `StoreNext`, `StoreRefused` (the retain callback refuses), `Return`. Every reallocation may fail. `retained` counts callbacks, not references. `callbacks` is the field: an array has the object callbacks, which retain and release, or the default ones, which do neither; an array that is created with a negative capacity has the default ones whatever was asked for (`EFArray.c:229-232`), a copy has those of its source, and a bulk append refuses an array with other callbacks than its own (line 411).

**EFString, EFSplit, EFText.** A buffer is a sequence of cells including the terminator, and the edits move cells as `memmove` does. A byte is a class of bytes: a plain one, a separator, white space, the lead and the tail byte of a UTF-8 character, and the plus sign of UTF-7. `EFText` is the abstract string without buffers, which `EFString` implements. `EFSplit` is the scan of `EFStringComponentsSplitBySeparator`, a function from each position where a component may begin to the components from there on.

**EFNumber.** The four numeral readers in the order the code tries them, the choice of the type, the 128 stored bits and their cast. `longjmp` is a result of its own, `Overflow`, which ends the search. A character is given by its digit value, its code and its escape. `Half[n]` is half the number of values of n bits. `strtoull` is a function of how many digits have been read.

**EFFormat.** A format is a sequence of items: text, a doubled percent sign, a directive with its number of flags, width, precision, length modifier and conversion. An action is one round of the loop: it takes the item's arguments from the list, computes the cells that the directive takes in the array (`CellsOf`; of `%@`, `%n` and a format that ends inside a directive the conversion is not stored), grows the buffer (`EnsuredCap`) and appends a piece. What an argument prints is a number of bytes. A piece says besides which argument was printed and read as what; `Expected` is the piece that `printf` promises for an item, stated without the loop. `top` and `cells` are how far buffer and array were written. `Overrun`, which any directive may come to, and `EmitDescription` end in `Undefined` where the code's behaviour is undefined. Constants have the code's values: 64 cells, 58 for flags and digits, a first capacity of 64; `MaxDoublings`, 10 in the run, bounds how often the buffer doubles.

**EFConversions** composes `EFNumber` and `EFFormat`: a number is described by the interpreter, and its description is a line that the parser can take.

**EFURL.** A string is a kind (prefix) and bytes. `realpath` and `getcwd` are external: they answer any resolved path, or fail. `EFURLGetPath` is four steps (test, join, store, second read), because threads call it without a lock.

**EFFileHandle.** `table`, `mode`, `pos` and `size` are the kernel's side; `fdOf` is the field of the handle. Calls of several system calls are one action per system call. Contents are abstracted to positions: a read is where it began and how much it got.

**EFBitWalker.** The file is a sequence of bits, so that the nine-byte window of a write is a stretch of it. A write is the read of the window, the change of the field and the store of whole bytes, which may be cut short. The byte swap is translated as it is.

**EFProcess.** A process is a number never used again; an identifier is what the kernel calls it by. The kernel (birth, end, reaping) is external. A creation is a sequence of reads, one per system call, between which processes end and identifiers are given away.

**EFDescriptors** is the limit on open descriptors, as a count. `EFFileHandle` has the table behind it and shows that a handle keeps its description; the next three modules need only the count.

**EFDownload.** A response is a sequence over `Byte`, of which `cr` and `lf` end a header and the others stand for themselves, sent by an environment that may lose the connection at any of them. A read that fails while the connection holds ends the header for the code (`HeaderReadFails`), or the body, which is the same as losing the connection there. The loop over the header is one action per byte with the code's `state`; the loop over the body is one action per `read`, whose `write` may be short.

**EFFile.** The file object is its policy, the type found when it was made, and its handle. A handle is the open file description behind it: inode, mode and cursor. Calls of `EFFileOpen` and of what begins with it (`EFFileCopyFileHandle`, `EFFileCreateBitWalker`, `EFFileCreateData`) are steps with `call` as the program counter, one for each system call, so that clients with a copy of the handle and other processes come between them. `OpenWithoutDup` and `OpenWithoutObject` are the two places where `open` has succeeded and the handle fails. `quiet` says that nobody else has touched the file since the call began; it is the model's own.

**EFFileManager** is the loop over a directory, which skips a name that is not UTF-8 without reading the next. **EFFiles** puts the three beside each other over one limit of descriptors.

**EFData.** Memory is a set of blocks with cells. A data object has a block of its own (mutable), has its bytes inside (a block that goes with the object) or shows a block of another. `Reallocated` has every outcome of `realloc`: in place, moved, and for length 0, in a C library that does so (`FreesEmpty`), freed with the answer NULL, after which the object keeps the freed pointer and its length (`freed`, which the model adds, says so). Releasing the object then frees the block again, whoever has it by now (`Release`), and any other call on it uses freed memory (`UseFreed`): both set `undefined`, and the behaviour ends. The client keeps to the interface otherwise: it frees nothing that is shown and drops a pointer when the length has changed. `EFBytes` is the abstract specification: objects are sequences of cells, without buffers or owners. It names what the code keeps less as actions of their own: `Empty` and `Break` for an object that was made empty, `AppendOwn` for an object's own bytes appended to it.

Names follow the source. A definition before a mapped one, with the same parameters and a comment that says what it leaves out, is a variant of it with a plausible mistake; `PROJECT.json` names it under `mutants` with the property that finds the mistake.

## The runs

| Run | Bounds | Shows |
|---|---|---|
| `object_threads` | 2 threads, 3 objects, 1 static, 3 references | counters exact, nothing dangles, borrowed pointers valid, one destroyer, no underflow; a destruction ends; the contract is implemented |
| `class_registry` | 2 threads, 2 classes, chunk 3, identifiers to 7 | unique identifiers, correct lookups over two growths, mutex given back |
| `class_boundary` (violation) | the same | the identifier equal to the capacity is written past the table |
| `array_bulk` | 2 arrays of either callbacks, 2 values, growth step 2, 4 values, capacities -3 to 1 | retains balance, order kept, overrun bounded, calls return |
| `filehandle_handles` | 2 threads, 2 handles, 2 descriptions, 4 descriptors | one owner per descriptor, cursor restored, ranges exact |
| `bitwalker_fields` | bytes of 2 bits, window of 3 bytes, file of 4 | what was written is read back |
| `string_edit` | 2 strings of at most 3 bytes, 5 byte classes, 3 encodings | terminated, valid, split right, the abstract edits implemented |
| `url_paths` | 2 threads, 2 URLs of at most 2 components, 3 path strings | borrowed paths valid, paths split into their components |
| `process_children` | 2 threads, 2 objects, 2 identifiers, 2 processes | signals hit the right process, descriptions are of one process, no child runs on |
| `files` | 3 descriptors, 3 inodes, 2 descriptions, 1 client, 2 bytes, seven worlds | descriptors accounted for on every path, whole files and bodies read, held files kept, loops end |
| `data_buffers` | 2 data objects, 3 blocks of at most 2 cells, 1 byte value | one owner per block, pointers valid as promised, the abstract bytes implemented |
| `conversions` | formats of up to 3 of 14 items, 13 directives at the limits; lines of a few characters, 64 bits are 2 | nothing written outside, arguments and types right, numerals exact, descriptions parse back, calls return |

Why the bounds are enough:

- *Two threads* suffice for every hazard of two actors; the proofs cover any number, for the runtime, the registry, the file handle, the URL and the process. *Three references* are a container, its item and a second owner, the least with a nested destruction seen by a borrower. A fourth adds a sharer to states the proofs cover.
- *Chunk 3 and identifiers to 7* give two growths and two boundary identifiers (3 and 6).
- *Array*: the growth step is 2 so that four values cross two growths. Capacities include the negative ones around the growth step.
- *File handle*: four descriptors for two handles let the table be full at either step of an opening, and let a closed number be given out again. Location -1, the error answer of `lseek`, is among the locations.
- *Bit walker*: with two bits to a byte, fields of one to four bits lie inside a byte, over one boundary and over two; the window has a byte to spare, as nine bytes have over 64 bits.
- *String*: three bytes hold a character of UTF-8 beside another byte, a separator of two bytes overlapping itself, and white space at both ends of something.
- *Number*: with two bits, the signed range ends at 1 and overflow begins at 4; lines of five characters reach both in all three bases, with leading zeros.
- *Formatting*: text of 62 and 63 bytes and values of 0, 1, 63 and 64 put every boundary of a buffer of 64 and 128 before and behind the terminator; the directives that stand alone have 57 and 58 flags, digits beyond the limit, and stars whose number has 1 or 11 characters, the length of the least integer, behind as many characters as just fit and just do not. Three items show an argument shifted by the one before.
- *Files*: three descriptors are one less than a file being opened, a copy and a listing want together, so that every open, dup, copy and in-memory file can be the one that fails. The instance is seven worlds, chosen so that things which cannot meet are not multiplied: policies over a path that others change, a client that writes, listings beside a file, sixteen responses (every header of at most two bytes before the terminator, a broken terminator, one inside the body, one that never comes), a download beside listings, and reads of a header that are interrupted.
- *Data*: three blocks are a buffer, where it moves to, and one that is shown or copied; two cells tell a shrunk and regrown buffer from one that kept its bytes.
- *URL*: a component that holds a separator, an empty one, the root and one-component paths are among the inputs. Strings for paths: one for every thread, and one lost.
- *Process*: two identifiers and two processes let an identifier be used again while an object still has it. Three processes take longer than a run should.

Deadlock is checked wherever the model never stops. It is off in the registry (a failed assertion ends the process, and identifiers are bounded), in the file handle (`EFFileHandleCreateCopy` may dereference NULL, which ends the process) and in the process model (the same, and the number of processes is bounded), and for data objects, whose behaviours end where freed memory is used.

**Fairness.** `EFObject` assumes weak fairness of `Destroying(t)`, `EFClass` of a thread inside the critical section (waiting for the mutex is not assumed to end), `EFArray` of the storing call under way, `EFFiles` of the download and of the listing under way (that the server sends or closes is part of the download's steps: at each point it has sent the next byte, or lost the connection), `EFConversions` of the format interpreter. Each is code of a thread between entering and leaving a library function, which waits for nobody, the download excepted: its `read` blocks on the server without a timeout, and that a download ends is shown only for a server that sends or closes. Nothing is assumed of clients: they need never call, release or create anything. In `EFObject` a destruction ends because objects and references are finite and a dying object gets no new field.

## What the code does not keep

One run ends in a violation of what the repository says of itself:

- `class_boundary`: the table is extended when `efClassCapacity < efClassNext` (`src/EFRuntime/EFClass.c:93`), so the identifier that equals the capacity, 1024 in the code, is stored at `efClassTable[1024]` of 1024 entries. A later growth loses or overwrites it, which is why `LookupOK` excepts the boundary identifiers, and the theorem too.

And one comment is contradicted by a call after which a behaviour of the model ends:

- `EFData`: `EFData.c:39` says of the buffer that "it is neither inlined nor undeallocatable if mutable" (`MutableDeallocatable`). `EFDataSetLength(d, 0)` calls `realloc` with size 0 (line 242), which in some C libraries frees the block and answers NULL; the call fails and the object keeps the freed pointer, which its deinit frees again (lines 43-50). The model does the same: it reaches such an object in two steps, lets it be released or used, and ends there. `OneOwner`, `PointerValid` and `ImplementsBytes` say what holds until then, and `NothingFreedTwice` proves that this is the only way: with a C library that keeps a block resized to nothing, no release frees a block that is freed already.

Four more places where a natural property is false; a run checks the property with exactly this exception, which its comment names.

1. A bulk append of arrays, `EFArrayAppendValuesOfArray`, asks for room once for every five values, but a buffer with room for one satisfies the request. `SlackBounded`, proved for every growth step, bounds how far it stores past the buffer; that it stays inside (`WithinCapacity`) is proved for all other calls (`StoresInside`).
2. A big-endian bit walker masks before the swap and not after it, so that widths over 8 that are no multiple of 8 spill into the bits behind the field. The instance has all other widths, which are read back.
3. `EFFormat`: 58 flags in a directive never end (`EFString.c:534`); a number for a star is written into the array of 64 behind up to 57 characters, and its length is added whether or not it fitted (`EFString.c:543`, `568`), so that long starred directives leave the array; `%@` of a string cut inside a character takes the length of NULL (`EFString.c:659`).
4. `EFFiles`: a listed directory is never closed (`EFFileManager.c:271`, `331`), and a name that is not UTF-8, or an entry whose URL cannot be made, is tried again forever when the cause stays (lines 261, 314, 321). The duplicate of a descriptor stays open when the handle's object cannot be made (`EFFileHandle.c:116`). A repeated carriage return in a header loses the body (`EFFileHandle.c:258`), a short write of the body is not noticed (line 282), and a read that fails inside the header while the connection holds, as one interrupted by a signal, is taken for the end of the header, so that what is left of it becomes the body (line 239).

And two places where the code differs from what its names say, without a property that is false:

5. An array created with a negative capacity does not retain what it stores, whatever callbacks it was given (`EFArray.c:229-232`), so that a caller who releases its own reference is left with a dangling one. `RetainBalance` counts such arrays as not retaining, which is what the code does.
6. An object's own bytes appended to it may be read from freed memory (`EFData.c:290`). `EFBytes` has an action for it.

## What is proved

Every theorem is about all values of the constants: any number of threads, objects, descriptors or bytes. The proofs assume only what the modules' `ASSUME` state, and TLC evaluates each of these in a run:

- marks such as NULL or a free table entry differ from the values beside them; references, arrays and clients are finitely many; bounds are numbers, and the growth step is positive;
- built-in identifiers are fewer than a chunk;
- white space is no part of a longer character, and separators are not empty and consist of whole characters;
- paths and names are sequences, and what `realpath` and `getcwd` answer begins with a slash;
- zero has one digit and every other value below ten at least one; the letters of a prefix, the quote and the sign are no decimal digits; all of these are ASCII; no type has more values than 64 bits hold, and the code of a character is among these;
- in a directive's array there is room for a length modifier, a conversion and NUL behind the last digit that is stored (`SpecLimit + 4 <= SpecSize`, 58 and 64 in the code), and an int has at most eleven characters;
- what a bit walker is given is at most one byte shorter than its window;
- the inputs of `EFFiles` have the kinds that the code declares.

Five theorems have a hypothesis of their own: `NothingFreedTwice` that `realloc` does not free a block resized to nothing (`~FreesEmpty`), `StoresInside` that no capacity is negative, `CursorSafety` and `RangeSafety` that range reads do not overlap (`"range" \in Serial`), `WalkersReadBack` that big-endian walkers write at most a byte or whole bytes (`WholeFields`, see 2. above). These are what the code needs of its callers, the first excepted, which it needs of the C library; the instances of the runs meet all but the first two: `data_buffers` has a `realloc` that does, and `array_bulk` lets negative capacities in.

The theorems, with the property each states:

| Module | Theorem | Property |
|---|---|---|
| `EFRuntimeProofs` | `CountsAreExact`, `NothingDangles`, `BorrowedStaysAlive`, `DestroyedOnce`, `NeverUnderflows` | `CountOK`, `NoDangling`, `BorrowSafe`, `OneDestroyer`, `NoUnderflow` |
| | `ImplementsContract` | `ImplementsLifetime` |
| | `LookupsAreExact`, `IdentifiersAreIssuedOnce`, `RegistryTypeCorrect` | `LookupOK`, `IssuedOnce`, `RegistryTypeOK` |
| `EFArrayProofs` | `SlackIsBounded`, `StoresInOrder`, `RetainsBalance`, `StoresInside` | `SlackBounded`, `PrefixStored`, `RetainBalance`, `WithinCapacity` |
| `EFFileHandleProofs` | `DescriptorOwnership`, `CursorSafety`, `RangeSafety` | `OneOwner`, `CursorRestored`, `RangeExact` |
| | `WalkersReadBack` | `ReadBack` |
| `EFProcessProofs` | `SignalSafety`, `DescriptionSafety`, `ChildSafety` | `StrangersSpared`, `OneDescription`, `NoRunawayChild` |
| `EFDataProofs` | `Ownership`, `PointerSafety` | `OneOwner`, `PointerValid` |
| | `NothingFreedTwice` | `OneOwner`, `MutableDeallocatable` |
| | `Refinement` | `ImplementsBytes` |
| `EFFilesProofs` | `DescriptorAccounting`, `HandleKept`, `WholeData`, `BodyExactness` | `DescriptorsAccounted`, `HeldIsKept`, `DataWhole`, `BodyExact` |
| `EFStringProofs` | `TextValidity`, `SplitsExactly` | `ValidUnlessCut`, `SplitCorrect` |
| | `Refinement` | `ImplementsText` |
| | `BorrowedPaths`, `PathsSplitAgain` | `BorrowedPathValid`, `PathSplitsAgain` |
| `EFConversionsProofs` | `WritesStayInside`, `FormatsAreExact` | `WritesInside`, `FormatExact` |
| | `NumbersParseExactly`, `NumbersComeBack` | `ParsedExactly`, `RoundTrip` |

Hardly any of the properties is inductive. What each proof adds:

**EFRuntimeProofs**, objects. `IInv` adds: `CountInv`, the counter of every object, dying ones included, is the number of references to it, and a counted object is live exactly while there is one; `HolderInv`, a container that holds a field still has its memory; `BorrowInv`, a borrower holds the container, and the container the item; `FrameInv`, the dying objects form disjoint chains, each ending at the top of one thread's stack, which is what makes the return of a nested release land in the right deinit. The central step is `Decrement`: it removes one reference and one from the counter, and if it saw 1 the set of references becomes empty, so that no `holder` or `borrowed` can name the object any more. From the same invariant `ImplementsContract` shows each step to be a step of `EFLifetime` or a stutter.

**EFRuntimeProofs**, classes. `RoomInv` says how far the counter may run ahead of the capacity at each point of a registration: by one while a thread is numbered, not at all before or after. `TableInv` says that every issued identifier but a boundary one has its class inside the allocation. With them follow `RegistryTypeCorrect` (a thread is in the critical section exactly while it holds the mutex), `LookupsAreExact` and `IdentifiersAreIssuedOnce`.

**EFArrayProofs**. `CallInv` ties the reservation loop to the capacity it has obtained: after each round the pretended count exceeds the capacity by at most a growth step. From it follow `SlackIsBounded` and `StoresInOrder`. `StoresInside` shows that the overrun needs a bulk append or a negative capacity: without them no value lies outside the buffer. `RetainsBalance` counts: the places that hold a value are split into those of the array that changes and the rest (`PlacesSplit`), and the copies in one array change by what the step retains and releases (`CopiesInsert`, `CopiesRemove`, `CopiesConcat`). Only places in arrays with the object callbacks count; a call under way keeps the callbacks of its array, which is what ties a half-made array to them. It needs that an array that does not exist is empty (`EmptyInv`), for a creation would otherwise forget values, and the bound on lengths (`BoundInv`).

**EFFileHandleProofs**, descriptors. Ownership needs that a thread inside a call keeps its handle alive (`CallsHold`) and that the two descriptors of an opening differ, which they do because the kernel takes a free number. The cursor needs what a range read knows at each of its steps (`RangeInv`), that a cursor nobody ranges over is where it was left (`HomeInv`), and that a range read has its description to itself (`Apart`). Nothing in the code sees to the last, so `CursorSafety` and `RangeSafety` have the hypothesis `"range" \in Serial`: clients let no two range reads over one description overlap, nor a range read and another call that moves its cursor. The run makes the same assumption, and the property fails without it.

**EFFileHandleProofs**, bits. `WalkerInv` says that the bits of the file at every field written are those of its value in the byte order it was written in. A write puts back whole bytes of its window; it is shown to leave every other bit as it was, wherever the shared offset is and however much of the window the kernel takes. Positions of bits are a byte and an index in it (`DivMod`, `DivModUnique`), and the swap of a value of whole bytes is undone by reading it back, which is where `WholeFields` is needed.

**EFProcessProofs**. All three rest on one fact about the kernel: an identifier is not given away before its process has been waited for (`KernelInv`). So the identifier of an owner, or of a spawn under way, means its child for as long (`ObjectInv`, `CallInv`), and all that was read under it is the child's.

**EFDataProofs**. `OwnersInv` names for every live block the one who frees it: the client, a mapping, a malloc block or its callback, or one data object. `FieldsInv` says which flags occur together (a mutable object is not inlined, an inlined one has a block of its own), `CellsInv` that a usable object's length is within its block. The step to look at is `Reallocated`, in the three outcomes of `realloc`. `PointerInv` strengthens `PointerValid`: the pointer is the buffer field itself. For `Refinement`, each action is shown to create, edit, lose, show or drop values as `EFBytes` allows: an edit in place, one that moved, and a resizing to zero are all `Edited` there, and views follow the blocks that they show.

**EFFilesProofs**. The accounts need to know that a download runs only inside the open of a file that has no handle yet (`PhaseInv`). A whole read needs what the call knows between its steps while it is undisturbed: after the measuring, the length; after the seek, that the cursor is at 0 (`CallInv`). A download needs that the automaton over the header has missed no terminator: `Scanned` says for each state what the bytes seen end with, and, the other way, which endings force which state; the second half fails for a repeated carriage return, which is where the code loses the body and why `BodyExact` asks for a `Canonical` response. A response of which a read inside the header failed, or a write fell short, is `spoiled`, and nothing is claimed of it.

**EFStringProofs**, edits. `Shape` says that the bytes and their terminator are inside the buffer, `CharInv` that the bytes are characters. Validity of UTF-8 is a condition on neighbours here, so that it is kept by joining (`ConcatValid`) and by slicing at positions that cut nothing (`SliceValid`); trimming cuts nothing because white space is no part of a longer character. Each action is shown once to have its effect on the contents (`AppendEdits`, `DeleteEdits`, `TrimEdits`, `NewStringMakes`, `CopyMakes`, `DestroyDrops`); both the invariant and `Refinement` use these lemmas.

**EFStringProofs**, splitting. What the scan computes is a recursive function, and the marks that the property measures it by, the separators that count from left to right without overlapping, are a set described in terms of itself. Both must be shown to exist before anything follows from their definitions (`ScanExists`, `MarksExist`). From each position the scan is then shown to return the stretches between marks from there on, in order. A stretch of a valid string begins and ends between characters because separators consist of whole ones.

**EFStringProofs**, paths. `OwnedInv` says of all the strings a URL keeps, the one it shows and those it has lost to a second thread, that each holds its path and belongs to no other URL; `GetPathInv`, that a string made and not yet stored is right and known to nobody else; `GotInv`, that what was handed out is kept. The race of two threads loses a string and never releases it, which is why borrowed paths stay valid. For `PathsSplitAgain`, names joined with slashes split into what each of the names splits into, since no match of a single slash reaches over a joint; joining is a fold, which is unfolded from its own recursive function (`ChainExists`).

**EFConversionsProofs**, formats. `FormatInv` says that the pieces made are those of the items read (`PiecesMade`), that the arguments consumed are theirs, and that the array is left only by a starred directive too long for it, after which the result is `Undefined`. The buffer doubles until it is large enough, or the call has failed; in both cases what is written lies within it.

**EFConversionsProofs**, numbers. `Strtoull` and the property's `Numeral` are inverse to each other: `NumeralStep` takes the last digit off, `NumeralShape` says that there is no leading zero and no digit above the number, so that different numbers have different numerals (`NumeralInjective`), and `ValueWritten` goes through the digits read, whatever zeros lead them. So a line that is taken for a numeral gives the number it denotes, or Overflow exactly if no number of 64 bits is written that way (`NumeralAgrees`). `NumberInv` ties the number, the format it is described by and the line to the value that was given, and uses `FormatInv` for what the description is made from.

*Induction.* The library's theorems on induction take an operator as a parameter, which the installed provers cannot instantiate. The recursive functions above are reasoned about through least counterexamples instead: a set of numbers with one has a least one (`LeastExists`), and a set that does not have 0 and has with every number its predecessor is empty (`NoLeast`). Each use writes the set of counterexamples down and shows these two facts of it.

Every invariant and action property that a passing run checks, and each refinement, is stated by one of these theorems. Only model-checked are:

- *Liveness*: `DyingIsFreed`, `LockReleased`, `CallsReturn` (of the array and of the conversions) and `LoopsEnd`. Fairness and `ENABLED` are out of the prover's reach.
- *The violation* of `RoomForID` in `class_boundary`.

## What is not modelled, and why

- *Object*: user allocators and init callbacks of user classes; the library has none of the latter. Weak memory orders: the counter is incremented relaxed, decremented with release, and an acquire fence precedes the deinit; the model interleaves these accesses and takes the order between the last use and the destruction, which they establish, for granted.
- *Registry*: the fields of a definition; the copy of a V4 definition keeps an unretained name (`EFClass.c:174`). With `NDEBUG` the extension inside the assertion at line 193 would disappear; the build files do not define it.
- *Array*: an array appended to itself, whose loop chases its own count and does not end; callbacks that reach back into the array; equality and descriptions.
- *String*: `NoCopy` strings, equality (which reads a range's length of both strings even when one is shorter, `EFString.c:988`), hashes, failed allocations inside a split, empty separators (the scan does not end), negative locations of a copied range. UTF-7 is modelled as the code has it: its digit table is all zero (`EFString.c:63`), so that most strings with a plus sign are refused.
- *Number*: comparison and equality; `EFNumberGetValue` called for another type than the number's (`EFNumber.c:208`). `'\nabc'` is read as the escape alone, and `0x` and the empty string count as numbers for `EFStringIsNumber`; the model has all three.
- *URL*: what a creation leaves unreleased on its error paths (`EFURL.c:113-119`).
- *File handle*: overlapping range reads over one description (`Serial`): they save and restore each other's cursor, and `CursorRestored` fails when they are let in. `EFFileHandleGets`, descriptors passed in from outside.
- *Bit walker*: two walkers in two threads over one file; each writes back nine bytes it has read.
- *Process*: the Linux branch, which names a variable `allocatorRef` that is not declared (`EFProcess.c:514`); `sysctl` is taken to fail for a process that is not there. Children are killed and not waited for by the deinit, so they stay zombies, which is what keeps their identifiers theirs. After somebody has waited for a child a signal may hit a stranger; `StrangersSpared` excepts exactly that.
- *Formatting*: the digits of values, except those of a number's description; a negative number for the star of a precision, which is printed into the directive (`%.-1d`) and not taken as absent (`EFString.c:567`).
- *File*: the types told apart by extension; an HTTP URL whose host and path name a local directory or file (`EFFileTypeForPath` and `EFFileUnlink` do not look at the kind of the URL). Permissions: `open` may fail at any time, which stands for them.
- *File manager*: the predicates on paths, one call of `stat` or `access` each; what they say may be stale when it is used, which `OthersReplace` shows for files.
- *Data*: concurrent calls; failed allocations, which have no effect; a negative location of a copied range, which passes the check (`EFData.c:220`).
- *Mapping*: that its pages are those of a file. *Malloc block*: callbacks that do more than free.
- *UUID*: a pure conversion of bytes to text, without a way back. *Dictionary*: can only be created by a static function that nobody calls. *In-memory files*: one function per platform. *Logging*: no state.

## Plan

The modules were written in the order in which the components rest on each other, and the proofs began with those whose failure would do most harm: the runtime, the registry, descriptors, memory. Next:

1. A composition of `EFObject` and `EFArray`, with the callbacks of the array being the runtime's retain and release.
2. Two bit walkers in two threads over one file, with the window of nine bytes read and written back in steps.
3. What a big-endian walker does write for widths that are no whole bytes, as a property of its own.
