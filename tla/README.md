# A verification of symsynd

symsynd symbolicates crash reports of Apple platforms: given a dSYM file and an
address it says which function and line the address belongs to. It is a Python
library over two C libraries, one around LLVM's symbolizer (C++) and one that
reads debug files (Rust), plus a demangler compiled from the Swift sources.
This directory holds TLA+ models of it, their model checking with TLC and proofs
about them with TLAPS.

## 1. The system

| component | state it keeps | operations | what makes it correct |
|---|---|---|---|
| driver, `symsynd/symbolizer.py` | `_closed`, `_lock` (an RLock), the low level symbolizer | `symbolize`, `close`, context manager | one thread in LLVM at a time; the lock comes free after every outcome; no call fails by an accident of the implementation; nothing is left after `close` |
| low level symbolizer, `symsynd/libsymbolizer.py` | `_ptr` to LLVM, `_debug_infos` (path to DebugInfo) | `symbolize`, `symbolize_inlined`, `get_debug_info`, `_make_frame`, `close`, `__del__`, `_init_lib` | no foreign call on a freed object; each object freed once; the cache serves a path its own DebugInfo; the library is initialised once, before use |
| debug info objects, `symsynd/libdebug.py` | `_ptr` to the Rust object | `open_path`, `get_variants`, `get_variant`, `get_compilation_dir`, `close`, `__del__` | alive while in use; errors mapped to classes |
| C wrapper, `libsymbolizer/llvm-symbolizer.cpp` | `lib_initialized`, `shared_state`, the `LLVMSymbolizer` and the structs it hands out | `lib_init`, `new`, `free`, `symbolize`, `symbolize_inlined`, `symbol_free`, `bulk_symbol_free` | every struct is freed once |
| image discovery, `symsynd/images.py` | local to the call | `find_debug_images` | each image gets a file that contains it; order of preference; nothing missed |
| image lookup, `symsynd/images.py` | sorted addresses and a dict | `ImageLookup.find_image` | the image that contains the address |
| heuristics, `symsynd/heuristics.py` | none | `find_best_instruction` and the functions it uses | the line of the call, not the line after it |
| Rust reader, `libdebug/src/read.rs`, `cabi.rs` | a memory-mapped file | architectures, sections, variants, compilation directory | the right slice of a fat file; errors, panics included, as codes |
| demangling, `symsynd/demangle.py`, `demangle/demangle-all.cpp` | a buffer per call | `demangle_symbol`, `demangle_swift`, `demangle_cpp` | the result fits its buffer; the original symbol when nothing applies |
| Swift demangler, `demangle/swift/Basic/Demangle.cpp` | the rest of the name, the substitutions, the tree | `demangleSymbolAsString` | each index means the declaration the mangler meant; every tree can be printed; it returns |
| Punycode, `demangle/swift/Basic/Punycode.cpp` | the decoder's state | `decodePunycodeUTF8` | inverse of the encoder; no overflow |
| report symbolication, `tests/conftest.py` | images and their files | `symbolize_backtrace` | each frame is looked up in its own image, in the right file, at the right instruction |
| timers, `symsynd/utils.py` | `_timers`, thread-local indentation | `timedsection`, `parse_addr` | bounded storage |
| release upload, `.ci/upload-release.py` | the release on GitHub | `ensure_release`, `upload_assets` | one release, each asset once |

A call of `symbolize` goes from the caller's thread through the driver, which
looks up the slide *without* the lock (`get_debug_info`, `get_variant`), then
takes the lock and calls LLVM; for each frame LLVM returns it goes back to
`get_debug_info` and the Rust library for the compilation directory. There are
no other threads or callbacks: concurrency comes from the callers' threads, which
share one driver, and from the interpreter lock, which is given up between
bytecodes and during every foreign call. `close` takes no lock. What is hard:

- the window between a check of `_ptr` and its use, with `close` in another thread;
- two threads that miss the cache for one path, open the file twice and overwrite
  each other's entry while the first DebugInfo is in use;
- `close` twice, `close` after a failed `close`, and `__del__` after either;
- exceptions half way through the conversion of frames, and the C memory then held;
- double-checked locking around a C function that sets its flag first;
- off by one at instruction and image boundaries, and addresses that are put together
  from three sources (the report, the image, the debug file);
- results that depend on the order of a directory listing, of load commands or of the
  architectures in a fat file;
- indices of substitutions in a mangled name, which silently mean something else when
  one declaration too many or too few was remembered;
- a parser and a printer hundreds of lines apart that must agree on the shape of some
  ninety kinds of nodes;
- unchecked arithmetic on numbers that come from a name.

`PROJECT.json` lists these under `hazards`, with the line and the properties for
each, and the ones that no property covers with the reason.

## 2. Modules

| module | models |
|---|---|
| `Resources` | abstract: a native object is entered only while alive, by one thread if it is not thread safe, and destroyed only while nobody is inside |
| `Symbolizer` | driver, low level symbolizer, life cycle of DebugInfo, C and Rust allocations |
| `SymbolizerProperties` | what they guarantee, and the refinement mapping to `Resources` |
| `SymbolizerInvariant` | the inductive invariant, in named parts |
| `MCSymbolizer` | instances for TLC |
| `SymbolizerProofs` | theorems about `Symbolizer`, its refinement of `Resources` included |
| `LibInit`, `LibInitProofs` | `_init_lib`, `llvm_symbolizer_lib_init`, `llvm_symbolizer_new`; theorems |
| `Images`, `MCImages`, `ImagesProofs` | `find_debug_images`; every small disk; theorems |
| `ImageLookup`, `Heuristics` | the class and the functions of these names, as operators |
| `DebugInfo` | the searches of `read.rs`, the codes of `cabi.rs`, the queries of `libdebug.py` |
| `Report`, `MCReport`, `ReportProofs` | a backtrace from end to end; composes the three above; three families of reports; lemmas about lookup and heuristics, theorems about reports |
| `SwiftNodes` | the tree of the Swift demangler, the options of its printer |
| `SwiftGrammar` | its grammar, one table per function of class `Demangler` |
| `SwiftSorts` | what each step and procedure of the grammar finds and leaves on the stack of nodes, by sorts of nodes |
| `SwiftDemangler` | the machine that runs the grammar: text, call stack, substitutions, failures |
| `SwiftPrinter` | class `NodePrinter`: what is printed of a tree, in which order |
| `Demangle`, `DemangleProofs` | `demangle_symbol` over both demanglers and their buffer; theorems |
| `SwiftProperties`, `ParserProofs` | what holds of the tree and the substitutions when the parser returns; theorems |
| `DemangleProperties`, `MCDemangle`, `MangledNames` | what a demangling guarantees beyond that; seventeen families of names; 980 whole names |
| `Punycode`, `MCPunycode`, `PunycodeProofs` | encoder, decoder, UTF-8; every short name; theorems |
| `Extremes` | lemmas: finite sets of numbers and sets of naturals have a greatest and a least element |

`Report` extends `ImageLookup`, `Heuristics` and `DebugInfo`. `Demangle` extends
`SwiftDemangler` (which extends `SwiftSorts`, that `SwiftGrammar` and that `SwiftNodes`) and takes the printer
as the constant operator `nodeToString`, which the run gives the value `printRoot` of
`SwiftPrinter`: `demangle_swift` and `demangle_cpp` look at nothing but the size of what was
printed, and so what is proved about them holds for any printer.

### Symbolizer

One action is one access to shared state or one foreign call, the grain at which
CPython may switch threads. `pc[t]` is the place of thread `t` in the code:

- `guard`, `cpu`, `acquire`: `symbolize` of the driver up to `with self._lock`
  (`Begin`, `Guard`, `Cpu`, `Acquire`);
- `lookup`, `open`, `insert`, `getptr`, `native`, `copy`: `get_debug_info` and the
  foreign call on its result. It is called from two places, told apart by
  `site`: for the slide, where the call is `debug_info_get_variants`, and under
  the lock for a frame, where it is `debug_info_get_compilation_dir`;
- `ptrcheck`, `enter`, `engine`, `frame`, `made`: `symbolize` and
  `symbolize_inlined` of the low level symbolizer. `_ptr` is read twice, once to
  check it (`PtrCheck`) and once to pass it (`EnterEngine`); the LLVM call takes
  place between `EnterEngine` and `EngineCall`. `frames` counts the frames still to
  convert; one for `symbolize`, any number for `symbolize_inlined`;
- `unwind`: a result or exception is on its way out; `Unwind` is everything the
  `finally` and `with` clauses do, and the end of the locals' lives;
- `c_...`, `d_...`: `close` of the driver, of the low level symbolizer and of each
  DebugInfo, pointer by pointer: check, pass, free, reset. `Drop` enters the same
  code from `__del__`.

`engine` and `handle[h]` join a Python pointer field with the object behind it:
`open`, `dangling` (freed, field not reset yet), `closed` (field is None).
`Reap` is CPython's reference counting: when an action removes the last reference
to a DebugInfo from the dict and from the threads' locals, the object dies at once
and `__del__` frees the Rust object. A DebugInfo's identity can be reused after
its death. `held` and `leaked` follow C allocations by kind.

Abstractions: addresses, cpu names and frame contents are not modelled (`Guard`,
`Cpu`, `Frame` choose the outcome); the error of a foreign call that carries a
message is one outcome; an exception that Python or cffi raises for an argument or for what
a file contains, and that nobody catches, is an outcome of the step that raises it (`Stray`); a traceback does not keep the locals of a failed call
alive; `close()` of a DebugInfo by a user of `symsynd.libdebug` itself is outside.
The identity of threads waiting for the lock is not ordered, as in CPython. The
reentrancy of the RLock is not modelled: `symbolize` does not call itself.

`SerialClose` selects the caller: TRUE for callers that never run `close` while
another call is running (the tests and the context manager use the driver so),
FALSE for callers that do whatever they like.

### Reports

`Report` follows `ReportSymbolizer` of `tests/conftest.py` frame by frame: `symbolize`
finds the image (`ImageLookup`), the file that belongs to its address (`image_paths`),
the instruction (`Heuristics`) and calls the driver, whose part here is what
`Symbolizer` leaves out: the slide, which comes from the report or else from the debug
file (`get_variant`), and the sum of `symbolizer.py:81`. LLVM answers with no symbol, one
or two, each with a source file or without, or with an error; for each source file the
compilation directory is looked up. `asked` remembers the latest question to LLVM, which
is where the properties look. A frame without image or file goes through unchanged.
An exception ends the report, as it ends `symbolize_backtrace`. That the file's
architecture has no name makes an undeclared exception (`no cpu name`), since Python
passes None on to places that expect a text.

`DebugInfo` has the bytes of a file behind it: a file is an image (an architecture and
load commands), a fat file (a list of architectures with images and whether their offset
lies in the file), a file that is neither, or unreadable. `get_arch`, `get_section`,
`get_variants` and `get_compilation_dir_cstr` are the functions of `read.rs`; an offset
outside the file is a panic of the Rust slice, and `landingpad` turns it into code 1. A
result is `Ok(value)` or `Err(error)`; `rustcall` and `get_compilation_dir` say what
Python makes of it. DWARF entries are given as what the crate gimli returns for them: a
tag, a directory, a name, or unreadable.

`Heuristics` writes `& -4` as rounding down to a multiple of 4 and otherwise keeps the
functions as they are; `registers` is a function from the names that are present. In
`ImageLookup` the sorted list and its bisection are the set of addresses and the greatest
one below.

### The demanglers

A function of class `Demangler` is a chain of `if (Mangled.nextIf(...))`. `SwiftGrammar`
writes it as a sequence of rows: the letters it is about and the steps that follow. The
steps (`Run` a function, `Push` or `Build` a node, `Keep` a substitution, ...) are data,
and `SwiftDemangler` has one action per kind of step. Its `agenda` is the C++ call stack,
what remains to be done in all active functions; `values` holds the nodes of their local
variables; `subs` is `Substitutions`. A `return nullptr` that the caller passes on drops
the agenda up to the function that handles it (`Failed`, `Guard`): its letters and
substitutions stay consumed, as in the code. The text is not chosen beforehand: `Read`
chooses a letter of the family when the parser looks at it, so that names are only
distinguished where the parser distinguishes them. `outcome` tells a tree, a null
pointer, and the three ways a broken name can end the process: reading behind the text,
`unreachable()`, and a null pointer used as a node. A row that does not name the end of the
text (`END`) cannot consume it (`RowAtEnd`). The nodes that `demangleSubstitutionIndex` makes
for the letters of the standard library are a table, `StandardNodes`; a user type is never
one of them, whatever its name is.

`SwiftPrinter` maps a node to the parts `NodePrinter::print` visits; `printRoot` unfolds
them. Texts are kept, indices are items, wording and punctuation are a single item, and
a child that is not there, a payload of the wrong type or a failing assertion is `FAULT`.
The options are the two sets the C interface uses.

`Demangle` puts the stages after each other: parse, print, copy into the buffer or
decline, C++ demangler, the symbol itself. The C++ demangler is `__cxa_demangle` of the
runtime library: any text or none.

`Punycode` has the encoder as an operator and the decoder as a machine, one action per
digit, with `MaxInt` the largest int. Where a sum or product exceeds it (`Overflows`) the
outcome is `overflow`, as what follows is undefined. The code point counter `n` is unsigned
and wraps; the model ends with the outcome `beyond` where it would exceed `MaxInt` (`Beyond`),
since a code point that large has long been one that `isValidUnicodeScalar` refuses. `DecodeName` in `SwiftDemangler` takes any decoded name or none.

### Initialisation and discovery

`LibInit` follows the Python global, the lock, the C flag and the C state one
statement at a time; the lock is a plain lock. In `Images` the disk is a constant
of a behaviour, chosen initially: which UUID-named files exist, and for each
search path the DWARF files of its bundle with the UUIDs of their variants or
`Unreadable`; a path that is no bundle has no files. UUIDs are lower case, which
is what the code compares.

## 3. What TLC checks

| run | instance | question |
|---|---|---|
| `SymbolizerThreads` | 3 threads, 2 paths, 3 objects, 1 frame, serial close; symmetric, view `Steering` | no use of freed objects, no double free and no call that fails by accident when three threads race for two dSYMs; an idle driver in order; the refinement of `Resources`; the inductive invariant |
| `SymbolizerRace` | 2 threads, 2 paths, 4 objects, 2 frames, close at any moment | what survives: exclusion, the right DebugInfo per path, failures only after the engine is gone, symbols freed by a success, everything reclaimed by `__del__` |
| `SymbolizerReturns` | 2 threads, 2 paths, 2 objects, 1 frame, close at any moment, fair; view `Steering` | the lock comes free after every outcome; close returns while the other thread fills the dict it visits |
| `LibInit` | 4 threads, fair | initialised once, completely, before use; nobody starves |
| `Images` | 2 UUIDs, one other name, 2 search paths, up to 1 and 2 files | right file, preference, nothing missed |
| `Report` | up to 2 images at three addresses; crashes on three cpus with every register state; 40 or so debug files | right image, right file, an address inside the image, callers behind the return address, crashes where they happened, the right directory |
| `Demangle` | seventeen families of names with 3 to 8 free letters, 980 whole names; two buffers; parts of a node down to 20 levels; fair | one tree per name, exact substitutions in the order of the mangler, complete printing, nothing overflows, the parser returns; the premise of the proofs about the grammar |
| `Punycode` | every name of up to 4 out of 6 code points, whole or cut by up to 3 letters; every text of up to 8 out of 4 letters; 32 bit int | inverse of the encoder; partial names are true to the whole; where arithmetic is safe; UTF-8 |

Bounds. A property of the driver is violated by at most three roles: one thread in
a call, one that races with it for the cache, one that closes; the second path lets
each role meet the other combinations. Each thread refers to at most one DebugInfo per
call site and the dict to one per path. In `SymbolizerRace` four objects suffice for
every replacement and for identities to be reused after death. In `SymbolizerThreads`
there are three for five possible references, so that an `Open` may have to wait until
one of them dies: the run leaves out states with four DebugInfo objects alive, which the
proofs cover for any number. In `SymbolizerReturns` two objects are enough for one path to be
inserted while `close` visits the other, and for an object to be opened after another died. Two frames are one beyond the first, which is where the loop
differs.

The view `Steering` leaves two things out of the comparison of states: `leaked`, which no guard
and none of the properties of these two runs reads (but for its type, which `TypeCorrect` proves),
and the path of a thread that is idle or closing, which `Begin` sets anew before it is read.
Since every step moves a program counter, no step is lost by it.

For the images two names of files and two paths show every order of first and later; a
third path only repeats the induction on "first". In `Report` two images can be equal,
ordered either way, or one without a file; addresses lie on, before and behind
each boundary; a crash has addresses at every offset in two words of the widest
instruction; debug files have up to two architectures, in either order, equal or of an
unknown name, with every section missing, double or cut off, and up to two units, readable
or not.

For `Demangle` a family starts where a part of the grammar begins, and its letters are the
ones that part tells apart: at each of them the parser may be led astray or come to the end of
the text. `FailedClosure` starts behind the types of a closure the last of which failed, having
remembered a module, and has room for the entity that follows. Few letters do not reach a finished
tree everywhere, so that `MangledNames` adds whole names, put together from lists of types,
contexts, entities, witnesses, thunks and specialization parameters. Together these take every
row of `Grammar` in a parse that ends with a tree, except rows that fail, other digits of a number
and three rows from which no tree comes (a tuple label can only begin with a digit, `s` as the start of
an entity is taken for the module first); and each of the kinds that
`SwiftPrinter` prints occurs in one of the trees. The
properties about substitutions need two declarations and one reference, at most six
letters behind the start. Where two families overlap (a type inside a function) the parser
is in the same function with another agenda, which it never inspects. Buffers of 4 and
60 items make both a text that does not fit and one that does. `Depth` says how far below a
node `Subtrees` looks for its parts; 20 levels are more than any tree of the families has, and
the theorems hold for every `Depth`, so for all parts of a tree of any size.

For `Punycode` the code points lie on both sides of every boundary that the code has
(128, 2048, 65536, the last one) and four of them need all shapes of order and repetition;
eight digits are enough for a number to overflow.

Runs whose system stops say so (`CHECK_DEADLOCK FALSE`): a driver that has been
dropped accepts no calls; `find_debug_images`, a report, a demangling and the decoder
return. `LibInit` checks deadlock.

Fairness is weak fairness of each thread's `Step`, the operating system's
scheduling of a thread that can run; nobody has to call the driver, and the locks
are not fair. `LockReleased` and `CloseReturns` need no more, since the owner of the
lock and the closing thread wait for nobody; `EveryoneServed` holds because the
lock is not needed any more once the library is initialised. The parser has weak fairness
of its next step: it is sequential code on one thread. The names are finite (`room`), as
texts are; `ParserReturns` says that no loop goes on after the text has ended.

### Findings

Four runs expect a violation and show where the code differs from what it says:

- `CloseDuringCall` (`NoUseAfterFree`): `close` can free LLVM's symbolizer while
  another thread is in it; the check "Symbolizer closed" does not protect the call.
- `SymbolsLeak` (`ClosedReclaimsSymbols`): an exception in `_make_frame` skips
  `llvm_bulk_symbol_free`.
- `ImageBase` (`ContainsBase`): `bisect_left` attributes the first address of an image
  to the image before it.
- `PunycodeFailure` (`FailureReported`): `decodePunycode` returns true whether it failed
  or not, so that a name cut short is shown as if it were whole. `Growing` says what is
  shown then: the lower code points of the name, in their order.

Facts that the models record without a run of their own:

- when `close` resets `_ptr` between its two readings, `symbolize` raises a `TypeError`
  (`InternalFailuresNeedClose` bounds this);
- `symbolize` says "If the symbolication fails a `SymbolicationError` is raised"
  (`symbolizer.py:46-47`) and lets other exceptions through: `ValueError` and `IOError` for the
  path (`symbolizer.py:13`, 16), `TypeError` for a missing cpu name (`libdebug.py:116`), in Python 2
  `UnicodeDecodeError` where path and cpu name do not join (`libsymbolizer.py:99`, 117),
  `OverflowError` where the offset of `symbolizer.py:81` is negative (`libsymbolizer.py:100`, 118),
  and `UnicodeDecodeError` for a directory that is not UTF-8 (`libdebug.py:99`). `NoAccidents` is
  about the rest: what no argument and no file explains;
- the protocol that qualifies an associated type (`P` in `demangleDependentMemberTypeName`) is
  added below the name and never printed (`Demangle.cpp:3629`); like the inside of a dynamic Self
  and the type of a closure, `NamesShown` leaves it out;
- the array from `debug_info_get_variants` is never given back, although
  `debug_free_variants` exists for it, and `llvm_symbolizer_symbolize_inlined` loses its
  prepared struct when there are no frames;
- `MissedOnlyBySkipping` is as strong as the code allows: a bundle file whose *name* is
  the UUID of an image found before is skipped with all its variants, so what is found
  depends on the order of the directory in that case;
- `RightFile` needs that no two images have one address, or that every image has its file:
  with two at one address, `find_image` answers with the later one, and if only the earlier
  one has a file, that file is used for it;
- `InsideImage` needs that a fat file's header names the architectures its images have:
  the slide comes from the image, what LLVM reads is found by the header. The proof showed a
  second premise, that the image ends at an instruction boundary: `get_previous_instruction`
  and the rounding of a crash address work on multiples of the instruction's width, so that
  in an image that ends between two of them the last instruction reaches out of it;
- `SixDigitsFit` says how far the decoder is safe: a number of more digits can exceed an int
  without any check in `decodePunycode`, and so can one of six digits once there are more
  code points than an int has room for beside 1892332260;
- malformed names can end the process in `unreachable()`, read behind the end of the text
  or use a null pointer (`outcome` of `SwiftDemangler`); the letter `d` stands in two
  places of the table of calling conventions (`Demangle.cpp:2145`), the first of
  which wins; `isValidUnicodeScalar` accepts values up to 0x1FFFFF.

## 4. What is proved

Every theorem holds for all values of the constants that satisfy the assumptions of the
module; these are named at each part. Each component has one invariant that is inductive,
of named parts, and the properties of the runs follow from it.

| module | theorems | property of the runs |
|---|---|---|
| `SymbolizerProofs` | `TypeCorrect`, `MutualExclusion`, `RightDebugInfo`, `AccidentsNeedClose`, `DelReclaims`, `SymbolsGivenBack` | `TypeOK`, `EngineExclusive`, `DebugInfoOfPath`, `InternalFailuresNeedClose`, `ReclaimedByDel`, `SuccessFreesSymbols` |
| | `MemorySafe`, `FreedOnce`, `AccidentFree`, `QuietHandlesUsable`, `Implements` | `NoUseAfterFree`, `NoDoubleFree`, `NoAccidents`, `QuietHandles`, `ImplementsResources`, under `SerialClose` |
| `LibInitProofs` | `TypeCorrect`, `InitialisedOnce`, `ReadyWhenUsed` | `TypeOK`, `BuiltOnce`, `NewAfterBuild` |
| `ImagesProofs` | `FilesSound`, `FilesPreferred`, `FirstBundleServes`, `MissedOnlyIfHidden` | `Sound`, `Preference`, `FirstBundle`, `MissedOnlyBySkipping` |
| `ReportProofs` | `LooksInNearestImage`, `LooksInRightFile`, `LooksBehindCallers`, `LooksInsideCrash`, `LooksInsideImage`, `DirectoryOfUnit` | `NearestImage`, `RightFile`, `CallersBehind`, `CrashInside`, `InsideImage`, `DirectoryRight` |
| `ParserProofs` | `ParserTyped`, `EveryMentionKept`, `ContextsRemembered` | `DemangleTypeOK`, `MentionedKept`, `ContextsFirst` |
| `DemangleProofs` | `BufferLargeEnough` | `FitsBuffer` |
| | `SwiftTextsNotBlank` | `NeverBlank`, which no run checks |
| `PunycodeProofs` | `DigitsFit`, `Utf8ReadsBack` | `SixDigitsFit`, `Utf8Exact` |

`ReportProofs` also proves what the operators of `Heuristics` and `ImageLookup` return, for all
addresses, cpu names and meta information; `Extremes` that `Max` and `Min` of the community
modules return the greatest and the least element. The latter come from the well-foundedness
of strict inclusion among finite sets, since the induction theorems of the library take an
operator as a parameter, which the provers cannot instantiate. Where a proof needs an induction over
numbers (the recursive functions `scaled` of `Punycode`, `Size` of `Demangle` and the levels of
`Subtrees`), it takes the least counterexample instead.

### The driver

For every number of threads, paths, objects and frames, from `SymbolizerAssumption`
(`NoThread` and `NoHandle` are not members of the sets they complete, the set of paths is
finite, at least one frame is allowed, and `"engine"` is not the name of a DebugInfo).

None of the properties is inductive by itself. `IInv` is, and theorem `Inductive` says so. It
has four layers. `Base` is control: which call a thread is in (`SiteInv`), that
the region under the lock owns it (`LockInv`), that the loop over frames is only
entered with one left (`FramesInv`, which the type of `frames` depends on). `Shared`
is about references: which locals hold a DebugInfo where (`DiInv`), that exactly the
referenced objects are alive (`RefInv`), that one about to be stored is known to its
thread only (`CacheInv`, without which a path could get another path's object), and
that no DebugInfo is disposed of before the engine (`GoneInv`). `Release` is about what is
given back: which C structs a thread can hold at each point (`HeldInv`), and how far `close`
has come when it runs from `__del__`, where nobody else holds a reference any more (`DropInv`).
`Serial` needs `SerialClose`: a closing thread is alone (`Alone`), whoever passed the check of
`_closed` can rely on it (`UsableInv`), the engine is open while there is nobody
closing (`EngineInv`), and `close` meets each DebugInfo open and once (`OpenInv`,
which needs `CacheInv`: no object is in the dict twice, and `RefInv`: an object of
the dict is alive). Each layer has one lemma per part with one step per action.

`ReclaimedByDel` and `SuccessFreesSymbols` hold however calls and `close` overlap. The first
is not obvious: an earlier `close` may have been cut short by an exception anywhere, and the
one from `__del__` has to finish what it left; `DropInv` says at each of its points what can
still be left.

The refinement proof needs of the invariant only that objects in use are open
before and after each step: an object that disappears while somebody is inside would
be a use of a freed object in the next state (`OnlyUnusedFreed`).

`LibInitProofs` is for any number of threads (invariant: the region under the lock owns it,
and the C state is determined by where the owner is).

### Image discovery

For any sets of UUIDs and names, any number of search paths and any disk
(`ImagesAssumption`). `ImagesInv` says that an image is wanted exactly as long as it has no
file (`WantedInv`); that after its turn in the first pass it is only wanted if no file has its
name, and otherwise has the first of these (`NameInv`, from which `Preference` follows); that
a file the second pass went by holds a wanted image only if its own name is the UUID of an
image found before (`ScanInv`, with `FirstBundle`), which at the end of the search is
`MissedOnlyBySkipping`; and what the result is (`ResultInv`).

### Reports

For every report: any number of images at any addresses, any number of frames and any debug
files. `ReportAssumption` says that segments have natural addresses and sizes,
`CpuNameAssumption` and `HeuristicsAssumption` that the library has a name for the cpu,
`NothingAssumption` and `DirectoryAssumption` that None is not a value of something that is
there. The properties speak of the latest question to LLVM after the step that asked it; the
invariant `ReportInv` says that this is still the question the frame calls for, which holds
because a report does not change while it is symbolicated. From there `NearestImage` and
`RightFile` are facts about two tables made from one list. For `CallersBehind` and
`CrashInside`, slide and image address cancel out of what LLVM is asked, and the lemmas about
`Heuristics` say the rest.

`InsideImage` compares two searches through one file: `get_variants` finds the slide by the
cpu name of an image, `get_arch` finds what LLVM reads by the header of the fat file
(`SameImage`), and the instruction chosen must not lead out of the image
(`InstructionWithin`). `DirectoryRight` follows the search down: the right architecture
(`ArchFound`), the first section of a name among the concatenated sections of all segments
(`SectionFound`), the first entry that compiles the file (`DirectoryFound`), and the table of
error codes (`Rustcalls`).

### The Swift parser

For names of any length, any family of names (`ScenariosAssumption`: a text to begin with, a
natural number of letters to come) and any `Depth` (`DepthAssumption`). That the functions
of class `Demangler` fit together is a fact about 72 procedures that call each
other, and what a step may do depends on what earlier steps left in the local variables. The
proof takes it apart into a finite statement about the grammar and an induction over the
steps of the machine:

- `SwiftSorts` gives each step and each procedure a *signature*, the sorts of the nodes it
  takes from the end of the stack and of those it leaves. The seven sorts say what is known of a
  node: that it is a leaf, that it is no declaration, that it and every declaration in it has been
  remembered (`node`), that this is true of its children only (`fresh`: it is about to be
  remembered), or how far the root of the tree has come (`header`, `headed`, `global`).
- `GrammarAssumption` says that every row of every procedure, and every list of steps nested in
  one, keeps to its signature. It speaks of the table `Grammar` itself and has no parameter, so
  TLC decides it completely when it starts the run `Demangle`; the theorems assume nothing about
  the code beside it.
- `ParserInv` is inductive (`ParserBegins`, `ParserContinues`). Its main part is `Working`: there
  are stacks of sorts between the steps on the agenda (`Track`), the first of which `values` suits;
  a guard that resumes after a failure finds again, `depth` nodes high, the stack it was set up for
  (`GuardsHold`, needed because a failure drops the agenda in the middle of a row); and
  what is left to do ends the call with all of the text consumed (`EndsWell`). Besides,
  what a substitution mentions was remembered before it (`Ordered`), and the end of
  the text is only at its end (`WellEnded`). There is one lemma per action (`BuildNodeKeeps`,
  `RecallSubstitutionKeeps`, ...), over a few about steps in general: `Spliced` (a step exchanges
  nodes at the end of the stack), `Dropped` (a failure goes back to a guard), `Unfolded` (a row takes
  the place of its procedure, whose signature holds at any height: `Raised`).

"Every declaration in it has been remembered" is about trees of any depth. `Known` states it
without recursion: the node is a member of some set that is closed under children and whose
declarations are all remembered. `KnownSubtrees` connects it with `Subtrees`.

`ParserTyped` says that a parse that succeeds leaves one root and no letter; on the way to it
no step finds too few nodes or nodes of the wrong sort, that is, no function of `Demangler` uses a
variable that an earlier one has not set (what comes of a null pointer that was returned is an
`outcome` of its own). `EveryMentionKept` is one half of the agreement with the mangler, that
no path through the grammar forgets its `Substitutions.push_back()`; `ContextsRemembered` is
about the order.

### Demangling

`Demangle` is proved for any printer whose texts are texts (`TreesPrint`, which
`Printable` checks of the real one for every tree of the run): whatever is in the
buffer has, with its terminator, at most the size the caller gave. The induction is on the
two stages (`DeliveryInv`: the second demangler starts with an empty buffer); what takes work
is that the size of a text with one more item is one more (`SizeOfAppend`).

`PunycodeProofs` is for every text of bytes and every `MaxInt`. `DecoderInv` has the types,
among them that `adapt` returns a natural number (`ScaledNat`). `WeightInv` bounds what the
first six digits can add: the weight grows by a factor of at most 35 per digit, which gives 1892332260 in
all. That the place where a number starts is at most the number of code points (`oldi`) makes
the premise of `SixDigitsFit` one about the length of the text. `Utf8Exact` is a fact about
all code points below 0x200000, which the guard of `encodeToUTF8` admits.

### Only model-checked

- The liveness properties `LockReleased`, `CloseReturns`, `EveryoneServed` and
  `ParserReturns`: the prover has no fairness or ENABLED.
- `KeptMentioned`, the other half of the agreement with the mangler: that a substitution has not
  been forgotten is said of each step, but that it is still in the tree at the end needs an account
  of where every node goes, through attempts that fail and headers that are thrown away; and it is
  true only of trees with fewer levels than `Depth`.
- `Printable` and `NamesShown`: the printer unfolds a tree by recursive operators
  (`Printed`, `Shown`), which cannot be used in a module with theorems.
- `Roundtrip` and `Growing`: inductions over what the encoder computes.

## 5. Not modelled, and why

- *A mangled name inside a specialization*: the payload of a function signature
  specialization can be a mangled name that the printer demangles again. It is kept as a
  text: the second call starts from the beginning, shares nothing with the first and is
  the same program.
- *`demangleTypeName` and the encoder from UTF-8*: nothing in the repository calls them.
- *What LLVM, `__cxa_demangle`, mach_object and gimli compute*: not in the repository. LLVM
  and the C++ demangler give any answer; files are what the two crates return.
- *Formatting*: wording and punctuation of demangled names, texts of errors, the fields of
  resulting frames.
- *Timers* (`utils.py`): a debugging aid behind an environment variable.
- *Release upload and download*: scripts of the build against a web service whose answers
  the repository does not describe.
- *Build scripts, vendored LLVM headers, exception classes*: no behaviour of their own.
- *Names longer than TLC's*, in particular type names nested more than a few
  levels; sizes of integers in the parser (`demangleNatural` does not check its number).

## 6. What is left

What a continuation could add, in the order of its worth:

1. `KeptMentioned` for names of any length, from a second reading of `Track`: each substitution is
   below one of the nodes in `values`, or belongs to a header and will be forgotten.
2. `SwiftPrinter` with layouts of one level at a time: the sorts say which children a node
   of each kind has, which is what `print` relies on.
3. `Growing` for names of any length: the decoder inserts code points that never decrease, so
   that what it holds is sorted by the time of insertion; the statement needs an abstract
   encoder in place of the recursive one.
