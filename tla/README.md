# Nullprt in TLA+

Models of the Nullprt toolchain (`src/` of the repository): TLA+ modules
translated from the C and C++ sources, TLC configurations that check them on
small instances, and TLAPS proofs of the properties that should hold for every
instance. Source positions below are relative to the repository.

Contents: 1 inventory, 2 modules, 3 runs, 4 bounds, 5 fairness, 6 proofs,
7 findings, 8 other disagreements met, 9 what is not modelled, 10 plan.

## 1. Inventory of the system

| Part | State it keeps | Operations | What is hard about it | What makes it correct |
|---|---|---|---|---|
| `nprt-lsp` server, `src/lsp/nprt-lsp/main.c` | document table (64), token cache (64), one diagnostic slot, one refactor preview, id counter | one handler per JSON-RPC method, read and answered in one loop | caches that outlive the text they were computed from, tables at capacity, methods nobody answers | every answer is about the latest text received |
| `nprt-lsp` index, `index.c` | a second document table (128), symbol table (4096) | upsert, eleven queries | the copies drift from the server's own | agrees with the server's table |
| NPRT Studio, `apps/nprt-studio` | editor text, child process, read buffer, problem list | edits, requests, reading frames from a pipe | replies after further edits, frames in pieces, a server that dies | replies meet their requests, the display settles on the text |
| `nprt-pkg` list, `src/pkg/nprt-pkg/main.c` | `installed.txt`, its temporary file | install, update, remove, list, search | a kill between remove and rename, two processes on one temporary file | the list reflects the commands that succeeded |
| `nprt-pkg` blobs, `cas.c` | one file per hash | get | partial blobs, two writers of one blob | a blob is the data it is named by |
| `nprt-pkg` resolver, `resolver.c` | `nprt.lock` | resolve | conflicts and cycles among duplicate lines, use of freed memory | what is locked is admitted |
| `nprt-debug`, `src/debug/nprt-debug` | `debug_session.state`, `debug_remote.cfg` | load, one of about twenty commands, save | fields lost when an empty one is read back, kills between two files | the commands are one session |
| `aegc1`, `src/self/aegc1` | build graph file, AST, IR | lex, parse, validate, check, lower, protect, emit | commands of a parallel build on one build graph, error flags overwritten by later stages, items swallowed by the parser | no output for a program with errors, success means that the outputs are there, the graph is what the builds left |
| `aegc0`, `src/seed/aegc0` | arena, AST, the C file it writes | lex, parse, check, emit C, have it compiled | arena growth against pointers into it, precedence and error recovery, one table of variables for nested scopes, two commands on one C file | what is accepted is compiled to C that means the same, success means that the executable is the text's own |
| `nprt-fmt`, `nprt-prof`, `nprt-doc` | none between runs | text transformations, reports | | |
| PAL, `src/pal` | handles | files, threads, sockets | contract differences between platforms | |

How they meet: Studio starts `nprt-lsp` once and talks to it over two pipes.
The server calls the parser of `aegc0` for every text it is sent and reads
`debug_session.state` for inlay hints. `nprt-pkg` and `nprt-debug` are run once
per command: what one command tells the next is only what it leaves in the
files of the cache directory, and nothing keeps two commands from running at
the same time. There are no threads in any of these programs; concurrency is
that of processes, pipes and files.

The hazards this leads to are listed, each at its line, in `PROJECT.json`; the
properties below are aimed at them.

## 2. Modules

| Module | Models | Extends / instances |
|---|---|---|
| `LspText` | what the server's scanners see of a text (`main.c`, `index.c`, verdict of `aegc0`'s parser) | `Selection` |
| `LspMessages` | the JSON-RPC messages of both directions | `LspText` |
| `LspIndex` | `index.c` | `LspMessages` |
| `LspServer` | `main.c` of `nprt-lsp` | `LspIndex`, instance of `LanguageService` |
| `LanguageService` | what the server promises (abstract) | |
| `LspServerProofs` | theorems about `LspServer`, among them that it implements `LanguageService`, and about `StudioLsp` | `StudioLsp`, `DataLemmas` |
| `MCLspServer` | texts and checksum for TLC | `LspServer` |
| `StudioLsp` | `LspClient.cpp`, `MainWindow.cpp`, both pipes, around the server | `LspServer` |
| `MCStudioLsp` | texts for TLC | `StudioLsp` |
| `PkgStore` | the installed list | instance of `PkgRegistry` |
| `PkgRegistry` | what the list promises (abstract) | |
| `PkgStoreProofs` | theorems about `PkgStore` | `PkgStore`, `TLAPS` |
| `PkgCas`, `MCPkgCas` | the blob store; bodies for TLC | |
| `PkgResolver`, `MCPkgResolver` | the resolver; lines for TLC | |
| `PkgCasProofs`, `PkgResolverProofs` | theorems about the two | `PkgCas`, `TLAPS`; `PkgResolver`, `DataLemmas` |
| `DebugSession` | `debug_session.state` and `debug_remote.cfg` | instance of `AttachSession` |
| `AttachSession` | what the debugger's commands promise together (abstract) | |
| `DebugSessionProofs` | theorems about `DebugSession` | `DebugSession`, `TLAPS` |
| `Aegc1Frontend` | parser, gates, lowering and protection of `aegc1`, as operators | `Selection` |
| `Aegc1Driver` | `main` of `aegc1` and its build graph | `Aegc1Frontend` |
| `Aegc1DriverProofs` | theorems about `Aegc1Driver` and the frontend | `Aegc1Driver`, `DataLemmas` |
| `MCAegc1Driver` | programs and tasks for TLC | `Aegc1Driver` |
| `SeedTrees` | `ast.h` of `aegc0`: expressions, statements, functions | |
| `SeedParser` | `lexer.c`, `parser.c`, as operators over tokens | `SeedTrees` |
| `SeedBackend` | `sema.c`, `emit_c.c` | `SeedTrees`, `Selection` |
| `SeedMeaning` | the grammar, scopes and types of the language, and what C makes of a text, as reference | `SeedBackend` |
| `SeedArena` | `arena.c` | |
| `SeedDriver` | `driver.c`: commands that overlap | `SeedArena` |
| `SeedCompiler` | `aegc0` as a whole, for any parser | `SeedDriver`, `SeedMeaning` |
| `SeedFront`, `MCSeed` | `aegc0` with its own parser; texts for TLC | `SeedCompiler`, `SeedParser` |
| `SeedProofs` | theorems about `SeedDriver` and `SeedCompiler` | `SeedCompiler`, `DataLemmas` |
| `Selection` | a loop that keeps some of the elements of an array (`Only`) | |
| `DataLemmas` | lemmas about `Only`, flattened sequences, folds and recursion on a number | `Selection`, `TLAPS` |

Definitions marked "Mutant" in a module are deliberate bugs: no specification
uses them. Substituted for the definition they follow, each must make the
property named for it in `PROJECT.json` fail; this shows that the property can
tell correct code from wrong code.

### Language server

A *text* is a sequence of lines; a line is a record of what the scanners of
`main.c` and `index.c` tell apart: its kind (function, open function, body,
closing brace, `let`, comment), the name it declares, the identifiers after
`fn ` and `let ` wherever they stand, the identifiers occurring in it, whether
it has blanks to normalise, whether it has a string literal. A line may have a
name many times: references and edits are one per occurrence. `Received` is the
conversion that `main.c:115-134` makes of the text in a message: what follows
the first quotation mark is lost, and encoded line breaks are not decoded, so
that a received text is one line. Every handler computes from `Received(text)`.

| State | Code |
|---|---|
| `docs` | `g_docs`, `g_doc_count` |
| `indexDocs`, `symbols` | `g_docs` and `g_symbols` of `index.c`; every upsert recomputes the second from the first |
| `diagSlot` | `g_diag_cache_uri`, `g_diag_cache_message` |
| `semCache` | `g_sem_cache` |
| `preview` | `g_last_refactor_preview`: the document it was made for |
| `nextId` | `g_next_id` |
| `request`, `sent` | the message the last turn read, and the one it wrote |
| `editor`, `opened`, `shown` | history: what the editor sent, has open, was shown |

A step of `Spec` is one turn of `main`'s loop (`main.c:1398-1466`): one message
read, its handler run to the end, at most one message written. That is the
grain of the program, which is single-threaded. Each branch of the dispatch is
an action; `Ignore` is the branch that is missing.

`LanguageService` is the abstract specification: a map from served documents to
their texts, and for each request the answers permitted. It has no tables,
caches or slots. The refinement mapping takes `served` from `docs`; that the
answer to a request may depend on `served` and on the history of pushed
verdicts only is what the implementation has to show. Lists of references and
edits may be cut there, but only if they have more than `ListLimit` and
`EditLimit` places.

Four limits cut a rename: 512 references are looked at (`RenameCap`), one
document's edits have a buffer of 8192 bytes (`EditCap`), documents are added
while the reply has fewer than 32,000 bytes (`OutCap`), and the buffer of the
reply has 32,768 (`OutSize`). `EditsOf`, `Filled` and `LastEdited` count in
edits, which are taken to be equally long and at most 200 bytes, as they are for
new names up to some 90 characters; the entry of a document is about an edit
long. A longer name is a smaller `EditCap`. A reply that is written past its
buffer is undefined behaviour; `Overrun` stands for whatever is sent then.

### Studio

`StudioLsp` puts the server's loop (`Handle`) between two pipes. `toServer`
holds messages, `toClient` holds halves of frames (header, body), `buffer` what
`LspClient` has read and not used. `StdoutReady` reads any number of pieces and
handles every whole frame (`LspClient.cpp:139-232`). `TextMode` says whether the
server's standard output writes `\r\n` for `\n`, as it does on Windows: a header
then ends in `\r\r\n\r\r\n` (`HeaderPart`), and the client never finds its end.
The client keeps no table of requests; the history variable `asked` does, and
`replied` pairs a reply with the oldest open request (`Meets` says what it has
to be). `Crash` is a server that dies at any time between turns, `StartFails` a
server that does not start in time.

### Packages

`PkgStore` makes every system call of a command an action: opening the list,
truncating the temporary file, copying, closing, `remove`, `rename`; commands
can be killed between any two. `Posix` chooses between the two contracts of
`rename` and `remove`. Two names, `list` and `tmp`, refer to file objects, so
that a process can write to a file that has been renamed under it.
History: `ledger` is the list had every command that reached its rename
happened at that point; `lost` records a kill between `remove` and `rename`.
`PkgRegistry` is the abstract store, with one atomic step per command, and
`Lose`.

`PkgCas` stores bytes at positions: writers overlap at their own offsets, in
chunks. The run-length compression is modelled by what it does; a hash is the
body it is the hash of. Where a command writes behind the end of a file another
one has emptied, the gap reads as zeros. `PkgResolver` follows `resolver.c` loop
by loop, including the order in which duplicate lines are unified and the stack
of `dfs_cycle`. A version that is copied after it was freed is what it was or
`Garbage` (`Unify`).

### Debugger

`DebugSession` has the fields of `DebugState` in the order of their lines, since
reading stops at the first empty text (`Loaded`). A command is `Load`, `Work`,
and the opening and closing of each file it writes, with failures and kills in
between. `AttachSession` is the abstract session.

### aegc1

A *program* is a sequence of chunks, each what its author means to be one item,
with the feature words of the text and the nested pattern depth it asks for.
What tells chunks apart is what the parser looks at: which item, whether it is
named, has attributes, generics, an arrow, a `where`, an `async`, the words in
its name that the parser takes for features, and how it ends (`ends`): at a
semicolon, at the closing brace of a body with or without a semicolon in it,
with neither (`bare`), in a brace that is not closed (`open`), or where the lexer
sees the end of the file (`eof`). `Take` is one turn of `a1_parse_module`'s loop.
`Sought` says what the parser looks for behind the head of an item, `Found` where
it then stops: a bare function with an arrow or a `where` goes on to the next
brace or semicolon and swallows the item it is in, a struct with a `where` is
not ended by its braces, and no error is reported for either. A semicolon inside
of braces that are skipped leaves the parser `Midway`, and the rest of them is
taken for items. `Verdict` names the gate of `main` that rejects a
program, in the order of `main.c:174-234`; `IrValid` is all that
`nprt_ir.c:52-72` checks.

`Aegc1Driver` has processes that each run one command at a time. The stages of
a command are those of `main` between two system calls that others could see:
reading the input, loading, opening and closing the build graph, checking,
opening and closing each output, linking, returning. The graph is one file for
all; the outputs of a process are its own. `ledger` is the graph had every save
been done in its turn, `compiled` counts what was recorded of each path,
`disturbed` says that a load and a save of different commands came between one
another, or a save was cut off, or a path has a blank; `mixed` that two commands
had the file open at once, or a path has a blank.

Lines of the graph are of any length. A shorter file written over a longer one
may end in the middle of a line of it (`Overlaid`, `Torn`): what is left of that
line begins with an end of its name (`Ends`), or has lost all of the name
(`Scrap`). `Loads` reads such a file as `fscanf` does: from a line whose name
has a blank or is gone, words and numbers are out of step (`OutOfStep`), a
`Word` of one line is taken for the name of another, and a field that is no
number ends the load. The model assumes that the graph is shorter than a buffer
of the C library, paths are shorter than 512 characters, and no input is named
like a word of the name of another.

### aegc0

A text is the sequence of its tokens. `SeedParser` has one operator per function
of the parser; each takes a parser (the tokens, how many were taken,
`had_error`, the allocations made) and returns one, with what it built.
`SeedTrees` has the trees it builds: the expressions and statements that are
`Height` deep at most, for any `Height`. Only the run needs a number for it.
What is computed over trees is a recursive function on these sets, and not a
`RECURSIVE` operator, so that it can be reasoned about. `SeedBackend` is the
check, with its one table per function, and the C text that is printed for a
tree. `SeedMeaning` says independently of the code what the text means: `TreeOf`
finds the operator that binds least, instead of climbing precedences; scopes
resolve each name to its declaration; a call has the type its function returns,
and its arguments those of the parameters (`TypeIn`, `Suited`), where the code
takes every call for an `i32` and looks at no argument. That a literal is an
`i32` the document does not say; the reference has it from the code. The C text
is read by C's rules, which join `-` and `-` to `--` and let a declaration see
itself.

`SeedArena` has addresses: a block, a start and a size per object, and history
of what was handed out. `realloc` may move the block, and pointers that were
kept then point to freed memory (`Dangling`). `SeedDriver` runs a command per
process, each file operation a step and each allocation a step; parser, check
and C compiler are constants of it, so that its theorems do not depend on them.
`SeedCompiler` says what check and C compiler decide (`CompilerAssumption`) and
leaves open which functions the parser makes of a text (`Fns`); `SeedFront` puts
the parser there. TLC evaluates `CompilerAssumption` with the parser in place. A
process that has pointers astray may come to any result (`Outcomes`).

## 3. Runs

| Run | Asks | Answer |
|---|---|---|
| `lsp_navigate` | Are definition, rename, references, hover, completion, symbols, formatting, hints about the present texts, with two documents; what is a rename when limits cut it? | Yes: `TablesAgree`, `DefinitionIsCurrent`, and the server implements `LanguageService`. `RenameIsComplete`: a rename edits occurrences only, none twice, and all of them if they are no more than one document's buffer takes. |
| `lsp_state` | Do caches, slot, preview and full tables stay consistent, with three documents for two slots and one cache entry? | Yes: the inductive invariant `IInv`, `DiagnosticsFollowText`, `TokensAreCurrent`, `PullNeverInvents`, and `ServedUnlessFull`: no open document is lost but for want of a slot. |
| `studio` | Do replies meet requests, does nothing get lost in the pipes, does the window settle? | Yes while the server lives and its output leaves line ends alone: `RepliesMeetTheirRequests`, `RequestsAreOnTheirWay`, `DrainedMeansSynced`, `Settles`. |
| `studio_text_mode` | And if its output is in text mode, as on Windows? | No verdict is displayed (finding). |
| `store` | Is the list right, when commands run one after the other, are killed anywhere, and rename does not replace? | `ListReflectsCommands` except after a kill between remove and rename; `NeverStale` always; implements `PkgRegistry`. |
| `store_together` | And with two commands at a time? | No (finding). |
| `cas` | Do blobs hold what their names say, with overlapping, killed and failing writers? | `OnlyVerifiedBytes`: each byte is the body's, or a 0 in a gap some command is about to fill, unless one was cut off; `AtRestBlobsAreWhole` but for blobs cut by a kill or a full disk. |
| `resolve` | Are conflicts and cycles found, is only the admissible locked, does a failure keep the lock file, does it end? | Yes: `LockIsAdmitted`, which says for which lines freed memory decides, `CyclesAreFound`, `OptionalAgrees`, `FailureKeepsLock`, `ResolveEnds`. |
| `debug` | Do the commands make one session; do the two files agree; is a bad condition ever saved? | `ImplementsSession`, `EndpointsAgree`, `SavedConditionEvaluates`. |
| `debug_persisted` | Does a command load what the last one saved? | No (finding). |
| `compile` | Is the build graph right with failing and killed commands; does success mean that the outputs are there; do the gates of the compiler fit together, for programs of every shape? | `GraphIsExact` unless disturbed; `GraphNeverInvents`: no hash its input never had, as long as no two write the graph at once; else the hash is one of an input whose name ends as the line begins. `SuccessMeansBuilt` but for a full disk and a dump before C; `GatesSuffice`, `EmittedIsProtected`, `VerdictIsStable`. |
| `seed` | Does `aegc0` compile what the text says, alone and two at a time; does its memory stay sound? | Yes, with the exceptions the properties name: `ParseIsFaithful`, `SemaIsScoped`, `SameMeaning`, `MemoryIsSound`, `BuildsOwnProgram`. |

Three runs expect a violation. Each checks one property that a document, a
test or a comment of the repository states and the code does not keep.

`CHECK_DEADLOCK FALSE` is set where the system may stop: commands of the package
manager and of the compilers end when the bound on them is used up, a resolver
run ends, an idle editor with an idle server stops, and the server of
`lsp_navigate` stops after `exit`. The other runs of the server, and those of
the debugger, check for deadlock.

## 4. Bounds

* Documents, texts. Two or three documents; four texts that differ in whether
  they parse, declare, call, quote and span lines. Every handler looks at one
  document or at all of them alike, so two served documents and one without a
  slot show each relation between documents. `IndexDocCap > DocCap` as in the
  code (128 > 64). `LspServer` itself has no bound on steps: its state space is
  finite.
* Capacities. `DocCap` 2 with three documents and `SemCacheCap` 1 with two
  served documents make tables full after two messages. `SymbolCap`
  is as large as the texts can fill, as in the code (4096).
* Limits of a rename (`lsp_navigate`). `EditCap` 2 of up to three occurrences in
  a document, `OutCap` and `OutSize` 5: the third edit of a document is left out,
  and the reply overruns its buffer when both documents fill theirs. `RenameCap`
  5 of up to six drops a reference that `EditCap` would drop anyway;
  `LocationCap` 4 cuts lists of references. The constants stand in the order of
  the code's: 66, 512, 266 and 270. That the reply is full *before* the last
  document, or that `RenameCap` cuts by itself, takes a third document; of these
  cases only the theorem speaks.
* `MaxEdits` 2, `MaxAsks` 2 (Studio): an edit before and one after each of two
  requests. Two requests of different kinds are the least that could be mixed up.
* `MaxCommands` 5 (store): a package can be installed, updated, removed and
  installed again with one kill in between. `Files` has one object more than a
  single command can hold. `MaxCommands` 3 with two processes is enough for the
  violation.
* `MaxRun` 2 for 255, `ChunkSize` 3 for the buffer of the C library (cas): a
  body of three equal bytes needs two runs, and a chunk ends inside a pair.
  `MaxGets` 3: a get that is cut, one that overlaps, one that finds the blob.
* `MaxDeps` 3 (resolve): every graph of three lines, so cycles of length 1 to 3
  and every order of a requirement, a second and a third of one name.
* `MaxHits` 1, one text, two endpoints (debug): 876k states; a text is empty,
  set, or (a condition) does not evaluate, and that is all the code tells apart.
* Programs (compile): each of 31 chunks with each of 15 sets of feature words,
  and on either side of a plain function, one with a `where`, two that are not
  ended and one that swallows the rest; no rule of the gates or of the parser
  relates more than two items. `MaxCompiles` 2 on top of one earlier build
  (`Earlier`), with three paths for `GraphCap` 2: two commands overlap in every
  way, one of them twice, and the third path finds the graph full. Two inputs
  have names that end alike (`lib/a` and `a`) and one has a blank, so that two
  saves at once leave torn lines, and a load gets out of step at the blank. A
  load *after* two such saves is a third command: three on such programs are more
  states than a run can have, and of that case only the theorem speaks.
* Texts (seed): 1,200, of which about 1,000 follow the grammar: expressions of
  four operands with every three of seven operators (one of each level), with
  parentheses, signs and calls; function bodies with two branches or a loop
  whose blocks declare, shadow, assign and return; one text with each of its
  tokens left out, replaced by an unknown character or preceded by one; and one
  whose trees fill more than `FirstBlock`, which is the 4096 bytes of the code,
  with the sizes of a 64-bit build. `Factors` 1, 2, 4 are the doublings one
  request can take. Two processes compile a few of the texts at a time, with
  and without paths of their own; while one of them allocates, the other stands
  still (`Calm`), as memory is not shared.
* A file is shorter than one buffer of the C library, in `PkgStore`,
  `DebugSession`, `Aegc1Driver` and `SeedDriver`: it is written by one system
  call when it is closed. All lines of `installed.txt` are equally long, so that
  what a longer file leaves behind a shorter one written over it is whole lines;
  lines of the build graph are of any length.

## 5. Fairness

Only two specifications are fair. `StudioSpec` has weak fairness of
`ServerTurn`, since `main` reads whenever there is input and every handler
ends, and of `StdoutReady`, since Qt's event loop delivers `readyRead` for what
is in the pipe. The user, the crash and the start are not fair: `Settles`
speaks about what follows the last edit, if the server does not die.
`ResolverSpec` has weak fairness of its next-state relation: a sequential
program runs on (a kill is one of its steps).

## 6. Proofs

Forty-three theorems in seven modules; `DataLemmas` has the lemmas that four of
them share. Every invariant that a run checks is stated by one of them, but for
`ParseIsFaithful`. They hold for every value of the constants that the modules'
assumptions allow; those assumptions are about capacities and about values that
must differ. TLC evaluates each of them in a run. Where a theorem has a further
hypothesis it is stated in it and named here.

### LspServerProofs

For every set of documents, texts, lines and names, every capacity
(`DocCap <= IndexDocCap`, and for renames `EditCap <= RenameCap` and
`2 * EditCap < OutCap <= OutSize`, are the relations the code's constants have to
satisfy) and every checksum function.

`Invariant` proves `Spec => []IInv`. The properties of interest are not
inductive on their own:

* `TokensAreCurrent` is about an answer taken from a cache that was filled any
  number of steps ago. It needs `CacheRemembers`: every entry holds the tokens
  of *some* text with its checksum.
* `PullNeverInvents` is about a slot filled by an earlier analysis; it needs
  `SlotWasShown`: an error in the slot is still on the screen, because the slot
  is replaced by the same action that publishes.
* `DiagnosticsFollowText` needs that documents are not in the table twice, and
  that the index finds room whenever the server does, which is `TablesAgree`
  with `DocCap <= IndexDocCap`.

The argument: only `DidOpenOrChange` disturbs documents, index, slot and
verdicts, and it is treated branch by branch, with lemmas about `Stored` (the
helper both tables are written by); only `SemanticTokens` disturbs the cache;
all other actions leave the conjuncts' variables alone. From `Invariant` follow
`TypeCorrect`, `TablesAlwaysAgree`, `DiagnosticsAlwaysFollow`, and, with what
one step writes to `sent`, `TokensAlwaysCurrent` and `PullsNeverInvent`.
`TokensAlwaysCurrent` has one more assumption, `NoCollision`: texts with equal
checksums have equal tokens. Without it the property is false, as 32 bits
cannot separate all texts. `AlwaysServedUnlessFull` rests on `StoredKeeps`
(writing one document drops no other) and on the length of the table, which
grows only with a new document.

Answers out of the index need a third strengthening, a conjunct of `IInv`: the
symbol table is the one of the texts that `main.c` serves. `TablesAgree` relates
the copies of the documents only; an upsert that forgot to empty the table first
(the mutant `UpsertWithoutReset`) keeps `TablesAgree` and answers from texts that
are gone. From there:

* A received text is at most one line (`ReceivedLine`), so a document declares
  at most one name (`OneSymbol`) and the symbol table has a document's symbol at
  the place the document has among those that declare one (`SymbolTable`).
  `RoomForAll` is the hypothesis that the symbol table has room for a symbol of
  each document: as many documents as `main.c` takes (64) fit it (4096). No
  hypothesis is about replies that are cut.
* `DefinitionsAlwaysCurrent`: the place a definition request is sent to is that
  of a symbol with the name (`DefinitionFound`), of the table of the present
  texts.
* `RenamesAlwaysComplete`: what is collected document by document is every
  occurrence, once (`ReferencesFound`, on flattened sequences), and what the four
  limits leave of it lists none twice. If the occurrences are no more than one
  document's buffer takes, no limit cuts them: a document holds no more of them
  than there are, and the reply has an entry for each document with an edit, so
  that `Filled` is at most `2 * EditCap`.
* `ServesTheService`, the refinement to `LanguageService`. `Served` maps the
  table to a function of uris. `UpdateRefines` says that a stored text is the
  update of one served document, or its refusal when `Capacity` documents are
  served (`ServedCount`: the table has no uri twice, so its length is their
  number). `AskRefines` and one lemma per kind of answer (`DefinitionIsGood`,
  `ReferencesAreGood`, `RenameIsGood`, `TokensAreGood`, `ItemsAreGood`,
  `SymbolsAreGood`, `PlainAnswers`) say that every other turn changes nothing
  served and answers as promised; what caches and slots remember is `IInv`. Two
  more hypotheses: `NoCollision`, as above, and `0 \notin Ids`, since `main`
  takes the id 0 for none and answers under another. `LanguageService` has the
  message modules under names of its own; the lemmas `Same...` say that they are
  the same operators.

The three invariants of `StudioLsp` are theorems too, for any texts, any number
of edits and requests, pieces of any number read at a time and a server that may
die between any two turns. Besides the assumptions of the server's model there is
`StudioSendsAssumption`: the constants of that model cover what Studio sends. No
`RoomForAll` is needed: the server holds one document at most (`OneDocument`).
They hold for both kinds of output stream; that the window shows the verdict is
promised only if line ends are left alone (`~TextMode`), as `studio_text_mode`
shows it must be.

None of the three speaks about what is in the pipes between the moments it
describes, so the inductive invariant does. `StudioInv` says that there is an
account of all that is underway (`Underway`):

* `log`: for each message on its way to the server, what will be served of the
  document once it is handled (`Foresees`); behind the last of them that is the
  text in the editor as the server receives texts.
* `msgs`: the messages the pieces in `buffer` and `toClient` are the frames of,
  in order (`Frames`). All pieces but at most one are whole frames, so reading
  takes the largest number of whole frames and loses nothing (`ReadAndTaken`,
  `WholeFrames`, `PipeLess`).
* The replies among `msgs` meet the oldest open requests, one each (`Answered`);
  the requests in `log` are the open requests behind them (`Awaits`), and a
  definition request will be handled when the text it was asked about is the one
  served (`Waits`). That is what the order of the pipes is worth to a client that
  keeps no table, and why a jump meets the text asked about and not a later one.
* `verdicts`: what the window will show after each message (`Displays`), from the
  one it shows to the one the server has last published.

`StudioNextInvariant` goes through the steps: `EditKeeps` and `AskKeeps` write
at the end of the account, `TurnKeeps` moves its first entry from the one pipe
to the other (`StudioAnswers` says what the server makes of it), `ReadsKeep`
takes messages from its other end, `LeavingKeeps` forgets what a dead server
will not read. From `StudioInvariant` follow `RepliesAlwaysMeet`,
`RequestsAlwaysOnTheirWay` (the account's lengths, counted in the pipes by
`AskingsInPipe` and `AnswersInPipe`) and `DrainedAlwaysSynced` (an empty
account). That the pipes do drain is `Settles`, and stays with TLC.

### PkgStoreProofs

For any packages, versions and files, on both contracts of `rename`, killed or
not, under `Alone`: at most one command runs at a time. `store_together` shows
that the assumption cannot be dropped.

`StoreInvariant` proves `StoreSpec => []StoreInv`. `ListReflectsCommands`
speaks of states in which no command runs; what leads there is `Progress`: for
each stage, what a command has open, what the temporary file holds, and how the
list relates to the ledger. `Follows` weakens equality to inclusion once a list
was lost. From it follow `AloneNeverStale`, `AloneListReflects` (which also
needs that there is a process, `Procs # {}`) and `AloneImplementsRegistry`:
under the mapping `Installed`, in which the list is already replaced when it
has been removed, `RemoveList` is the step of the registry, a kill between
remove and rename is `Lose`, and every other step is a stutter.

### PkgCasProofs

For any bodies, chunk size, and number of gets that overlap, are killed or run
out of disk, under `Lossless`: what the compression makes of a body is a
sequence of numbers and expands to the body again. That is induction over the
body, out of the prover's reach; TLC checks it on the bodies of `cas`, among
them runs longer than `MaxRun`.

`OnlyVerifiedBytes` says of each byte that it is the body's at its place, or a 0
in a gap that a command will fill, unless one was cut off while it wrote the
blob. Every piece goes to its place and is one of the body the file is named by
(`Verified`); that nobody leaves a gap for good is `Covered`, as follows.
`AtRestBlobsAreWhole` is the harder one, as each writer may empty what the
others wrote. `Covered` is the strengthening: each file that nobody gave up on
is whole, or there is a writer that has written, or found written, everything up
to its own position. Whoever empties a file becomes such a writer, with
position 0; writing a piece extends what is right (`WrittenRight`) and takes
nothing from what other writers or a whole file rely on; a writer at the end of
the body has a whole file (`RightIsWhole`).

### PkgResolverProofs

For requirement files of any length, names, versions and orders of lines.
`ResolverInv` has one part per loop: `Compatible` (the lines read so far do not
clash), `Searching` and `Searched` (the depth-first search), `Resolved` and
`Optional` (the unification), `Phased` (what a phase has behind it, and that the
lock file is opened only when nothing failed).

* `CyclesAreAlwaysFound`: `cycle = Circular`. A line has at most one parent, so
  lines lie in a circle exactly where a set of them, not empty, contains all of
  its parents (`Circular`); stated so, no recursion is needed. `Searching` says
  that the gray lines are the path, each the parent of the one before, that black
  lines lead to black lines or to no parent, and that no such set lies among
  the black lines. If the search meets a gray line, the path from there on is
  such a set. When a line turns black its parent is black already, so that a set
  with it in would be one without it before. If the search ends without a
  cycle, all lines are black.
* `OptionalAlwaysAgrees` and `FailureAlwaysKeepsLock` follow from `Optional` and
  `Phased`.
* `LockIsAlwaysAdmitted` has no hypothesis about freed memory: what a line is
  locked to that a later one overtakes is copied from that line and admitted; any
  other line's version is read after it was freed, and is what the line requires
  or `Garbage`. That first lines exist at all (`FindDep` takes the first of
  a name) is `LeastNumber` again.

### DebugSessionProofs

For any texts, conditions, pids and endpoints, commands in any order, killed or
failing at any file call. `DebugInv` says of each stage what the command holds
and what lies in the file: that a condition which is saved evaluates, and that a
session that has a pid is attached. `Loaded`, which loses fields, keeps both,
since it puts defaults in their places. From it follow
`SavedConditionAlwaysEvaluates` and `ImplementsSessionAlways`, the refinement to
`AttachSession`: saving is the step of the session, and all others stutter.
`EndpointsAlwaysAgree` has its own part, `ConfigInv`, and assumes that the
default endpoint is none that a user configures: a state file that lost the
endpoint looks like one with the default.

### Aegc1DriverProofs

For any number of commands that overlap, any programs, tasks and capacity of the
graph. `DriverInv` has `NothingInvented` (the graph, and what each command is
about to save), `Orderly` (as long as nothing came between a load and its save,
what a command loaded is the ledger) and `BuildsFollow` (what a command did so
far to each output). `NothingInvented` has to know what loading and saving make
of torn lines. `LoadsLines` and `OverlaidLines` say that each line that is read,
or left, goes back to one that was written, with its name or an end of it
(`Ends` of an end are ends of the name, `DriverAssumption`); as long as nothing
is `mixed`, no line is torn, since a save then begins with an empty file.
`GraphNeverInventsAlways`, `GraphIsExactAlways` and `SuccessMeansBuiltAlways`
follow. `EarlierAssumption` says of the graph that is there at the start what a
sequence of earlier builds leaves; it is an assumption since such a sequence is
folded, and TLC evaluates it. `a1_build_graph_record` takes the first line of an
input, which exists by `LeastNumber`.

What is said of the frontend is said of every program, of any length, and of
every command whatever the others do meanwhile. `FrontendFollows` is the
invariant: the verdict a command holds is that of the program it read, and what
it is about to emit is what lowering and protection make of it. The rest is
about operators. `ParsedRuns` takes the parser's loop out of the fold that
states it, swallowed items included; by `ParsedItems` items are those of chunks,
and each chunk's where all end by themselves. `LoweredItems`, `ProtectedFns` and
`WrittenOut` do the same for the passes of `ir/` and the emitter. `CheckedGates`
puts them together: `GatesSufficeAlways` and `EmittedIsProtectedAlways` follow.
For `VerdictIsStableAlways`, `PassesByItems` shows that acceptance is a
statement about the *set* of items and the words, and that no gate asks for a
word that is not there; turning the program around, or taking a word from it,
leaves that alone.

### SeedProofs

For any texts, sizes, paths and number of processes, and whatever functions the
parser makes of a text.

**Arena and driver.** `MemoryStaysSound` needs `Sound` of each arena: objects of
the present block end before `len`, objects of earlier blocks do not lie in it,
and an arena of one block holds at most `FirstBlock` bytes.
`SuccessBuildsOwnProgram` needs `BuildInv`, which has per stage the facts about
the files a command has made so far, as long as its paths are its own. It says
nothing of a command that closed its C file on a full disk, nor of a program that
needs more than the first 4096 bytes of the arena, which is some 16 statements:
what becomes of such a program is left open (section 8).

**Trees.** What is said of programs below holds for programs of any length and
trees of any depth. There is no induction over trees in the library that the
provers can use. `ExprsAre` and `StmtsAre` take the levels of the trees out of
the recursion that states them; `ExprInduction` and `BlockInduction` are
induction on the level, over a set of expressions or of lists of statements, and
`ExprRecursion` and `BlockRecursion` say that functions recursive over trees
exist. From these come the equations of the model's functions, one lemma each
(`TypeOfIs`, `FaultlessIs`, `LetsIs`, `CheckListIs`, `PlacedIs`, `EmitExprIs`,
`EachIs`, ...).

**The check.** `CheckDecidesAsScoped` is `SeedSpec => []SemaIsScoped`: a table
that is never emptied, of which the first entry of a name counts, and a typing
that knows no functions decide as scopes and types do, where no function
declares a name twice (`DeclareOnce`) and what is called returns `i32`
(`CallsReturnI32`). What has the right types is taken. What is taken has them if
its names are in scope where they are used (`NamesBound`) and its calls have the
right arguments (`ArgumentsFit`). Without any of these four it is false, as
section 8 says of the cases.
In `TypeIn` calls are typed by their functions; `ReturnedType` and `TypeInIs`
reduce that, under `CallsReturnI32`, to what the code does.

* `Related`: what scopes know, the table knows with the same type. The converse
  is false, which is the reason for the hypothesis `NamesBound` on the one side:
  the table also has the variables of blocks that have ended. `ExprScoped`
  compares the two on an expression (`Match`), `SuitsIs` on a statement.
* `Ready` is what has to hold of a list of statements, a table and a scope for
  the induction to go on: they are related, no name is declared twice in the
  list and the blocks in it (`Once`), and none that is in the table already
  (`Fresh`). `ReadyWithin` brings it to the list that is in a statement. Both
  branches of an `if` are checked as one list (`Branches`), while scopes are
  entered for each by itself: `CheckConcat` and `CheckWithin` take them apart,
  and the names of the first branch, which the second is checked with, are fresh
  for it.
* What a table gets from a list is what the list places (`LetsPlaced`), so that
  a name entered at some place of the program cannot be one of a later place
  (`Where`, `LetsBefore`).
* `ListIsScoped` is the induction over lists; `FunctionIsScoped` starts it with
  the parameters, `ChecksIsScoped` does all functions. `EntryIs` is about the
  two sides' treatment of parameters.

**The emitted C.** `CSaysTheSame` is `SeedSpec => []SameMeaning`. `emit_c.c`
writes expressions as texts; a C compiler reads them with a lexer, a grammar and
scopes of its own. That what it reads is what was written has four parts.

* *Parentheses.* `Balanced` and `Whole` are about `Depth`: the first says that a
  text closes what it opens, the second that it also has no operator and no
  comma outside of parentheses. `WrapIsWhole`, `PrefixIsWhole`, `InfixIs` and
  `ListingIs` say which operators and commas of a text that is put together lie
  outside of parentheses, given those of its parts. `Reading` recurs on texts
  that get shorter: `ReadingIs` is its equation, by recursion on the length. So
  a text in parentheses is read as what is in them, one with a single outer
  operator is split there (`InfixIsRead`), and a list at each of its outer
  commas (`NextIsRead`, `CallIsRead`).
* *Tokens.* Two signs in a row are one token to C. A text is `Quiet` if there is
  no such pair; of a quiet text the tokens are what is left without the blanks
  (`CTokensAre`). Texts are put together from quiet ones that do not meet at two
  signs (`QuietJoin`). A text begins with a minus only if its expression is a
  minus, so only a minus below a minus makes a text that is not quiet: this is
  where the exception `TwoMinus` is needed.
* *Trees.* An expression is `Faithful` if its text is quiet, begins with a minus
  only as just said, and is read as the expression. `LeafFaithful`,
  `SignFaithful`, `InfixFaithful` and `CallFaithful` are the cases;
  `AllFaithful` the induction, `TreeKept` and `BlockKept` the result: for
  expressions and statements without `TwoMinus`, reading undoes emitting.
* *Scopes.* `CFn` is what C reads of a function; its functions are those of the
  text, externs first (`CFnsAre`). But `main` loses its parameters, and a name
  bound by one of them would mean nothing in C. `Paired` says that each
  statement of the one program is at the same place of the other, in a scope
  that knows `Fewer` names and nothing new; since C compiles a program only if
  its names are bound (`CCompiles`), the names it uses mean the same
  (`MeantAlike`, `SaysAlike`). A declaration sees itself in C, hence the
  exception `OwnName`.

`ProgramKept` puts the four together. What connects it to the run is the
invariant `ExesTaken`: an executable that was made of a text was made of one the
C compiler takes, whichever commands overlap.

### DataLemmas

The library's induction theorems take an operator as parameter, which the
installed provers cannot instantiate. What `WellFoundedInduction` says of
well-founded *relations* they can use: the order on the naturals is one, hence a
set of naturals that is not empty has a least element (`LeastNumber`), and a
proof by induction becomes one over a set (`UpTo`). Recursion is stated over a
*function* of the step and the value before (`Recursion`, `Descent`), so that an
operator can be put into it as a function. With these, what a loop keeps
(`OnlyKeeps`, `OnlyConcat`, `OnlyAppend`, ...), what flattening makes of
sequences (`FlattenHolds`, `OnlyOfFlatten`), and that a fold runs through its
sequence step by step (`Descent`) are lemmas.

The models say `Only(seq, S)` where the code has a loop that keeps some elements
of an array, and a recursive function defines it; `SelectSeq` would do as well
for TLC, but takes an operator and is defined by one declared `RECURSIVE`, of
which the provers know nothing. For the same reason a program's verdict
(`Verdict` of `Aegc1Frontend`) is the chain of its tests, in the order of `main`.

### What stays with TLC

* Liveness: `Settles`, `ResolveEnds`.
* `ParseIsFaithful`: the functions of `parser.c` call each other, and take and
  return a parser. As operators they are declared `RECURSIVE`, of which the
  provers know nothing; as functions they would need a common set of parsers
  and results, and induction over what is left of the text for all at once.
* That the compression loses nothing (`Lossless`).

## 7. Findings

1. `store_together`. `docs/verification/minimal-toolchain-checklist.md:31`: list
   reflects updates and removal. Two commands share `installed.txt.tmp`: both
   print success and one, or the whole list, is gone.
2. `debug_persisted`.
   `docs/verification/minimal-toolchain-checklist.md:93`: session state is
   persisted. `state_load` ends at the first empty value
   (`nprt-debug/main.c:113-115`); all fields behind it revert to defaults and
   are saved so.
3. `studio_text_mode`. On Windows the server's output stays in text mode
   (`nprt-lsp/main.c:88-92`), `\r\n` of headers becomes `\r\r\n`, and Studio
   finds no frame (`LspClient.cpp:152-154`);
   `docs/releases/nprt-studio-v1.0.0-release-standard.md:10` wants diagnostics.

## 8. Other disagreements met while modelling

These are part of the models, or left out of them, as stated; no run is
dedicated to them. The first ten are of the same weight as the findings: a
document says otherwise.

* A version is freed and then copied (`resolver.c:161,171-172`), for every line
  that no later one of its name overtakes; `spec/npkg/lockfile.md:17` wants an
  exact version. Modelled (`Unify`, `Garbage`); `LockIsAdmitted` says which lines
  it can befall.
* The loop that the comment at `resolver.c:159` calls unification looks at later
  lines only: `1.0.1` before `^1.0.0` of one name is locked to two versions,
  `^1.0.0` before `1.0.1` to one. Modelled (`Best`).
* A get that is killed leaves a cut file under the hash; the next takes it for
  the blob and reports success (`cas.c:65`); `spec/npkg/registry-protocol.md:82`
  has a store addressed by content. Modelled (`Present`); `AtRestBlobsAreWhole`
  exempts the blob (`cut`).
* A document's edits are cut where their buffer of 8192 bytes is full
  (`nprt-lsp/main.c:458`), after some 66, and sent as if complete;
  `spec/lsp/mvp.md:48` wants an exact rename of all references. Modelled
  (`EditsOf`); `RenameIsComplete` says when it cannot happen.
* Every call is an `i32` (`sema.c:57`): a `u64` cannot be initialized with a call
  that returns one; `minimal-subset.md:18` has such functions. Modelled
  (`TypeOf`); `SemaIsScoped` assumes `CallsReturnI32`.
* Nobody looks at arguments (`sema.c:55`): a `u64` is passed for an `i32`;
  `minimal-subset.md:60` wants mismatches reported. Modelled (`Faultless`);
  `SemaIsScoped` asks for `ArgumentsFit`.
* A variable is known behind the block it is declared in (`sema.c:98`);
  `minimal-subset.md:60` wants what is not defined reported. Modelled
  (`CheckList`); `SemaIsScoped` asks for `NamesBound`.
* A character the lexer of `aegc0` does not know is taken for the end of the file
  (`seed/aegc0/lexer.c:164`), and a struct behind it passed over; section 6 of
  `minimal-subset.md` wants it rejected. Modelled (`Cur`); `ParseIsFaithful` is
  about the text before it.
* `let x: i32 = x + 1;` in a block that shadows `x` becomes a C declaration that
  reads itself (`emit_c.c:74-79`); `minimal-subset.md:4` wants equivalent C.
  Modelled; `SameMeaning` exempts it (`OwnName`).
* Pointers into the arena are used after `realloc` has moved it (`arena.c:33`,
  `parser.c:75`): a program of more than some 16 statements is compiled to
  anything; `minimal-subset.md:4` knows no such bound. Modelled (`Outcomes`);
  `MemoryIsSound` and `BuildsOwnProgram` are about programs that fit the first
  block.
* `spec/lsp/mvp.md:18` lists `textDocument/didClose`. `main` has no branch for it
  (`nprt-lsp/main.c:1398-1466`): a closed document keeps its slot, and after 64
  documents were ever opened the next one is silently not served. Modelled
  (`Ignore`); `ServedUnlessFull` says what does hold.
* A pull for any document but the last one analysed returns nothing, even while
  its error is displayed (`nprt-lsp/main.c:1330-1345`);
  `tests/lsp/expected/lsp_full_expected.txt:12` expects pulled diagnostics.
  Modelled (`PullDiagnostic`).
* Line breaks in JSON strings are not decoded (`nprt-lsp/main.c:123`): a text of
  several lines is stored as one line with backslashes, which the parser
  rejects; `spec/lsp/mvp.md:21` wants diagnostics of the text. Modelled
  (`Received`).
* A document in which a quotation mark is escaped is cut there
  (`main.c:123-126`). Modelled (`Received`).
* An identifier that only `index.c` could find is not indexed when it does not
  begin a line (`index.c:84`); `tests/lsp/expected/lsp_full_expected.txt:4`
  expects a definition. Modelled (`Declares`).
* A request with id 0 is answered under another id (`main.c:1407`), against
  `spec/lsp/mvp.md:8`. Modelled (`Initialize`).
* Formatting yields one line (`main.c:750-788`; `mvp.md:45`). Modelled.
* A kill between remove and rename loses the list (`nprt-pkg/main.c:100-101`).
  Modelled (`lost`).
* The compressed bytes are stored under the hash of the uncompressed data
  (`cas.c:70-76`; `registry-protocol.md:82`). Modelled.
* A cycle through the second line of a name is not found
  (`resolver.c:129-133`). Modelled: `CyclesAreFound` is about the edges the code
  follows.
* The result of the dump is overwritten by that of the C emitter: a dump that
  could not be written is reported as success (`aegc1/driver/main.c:249-253`).
  Modelled (`CloseOutput`, exempted by `SuccessMeansBuilt`).
* Any attribute disables an item in the emitted C, not in the object file
  (`parser.c:179-187`, `lowering.c:9`); `docs/aegc1/ir-contract.md:17` speaks of
  a branch that is not selected. Modelled (`Lowered`, `Assembled`).
* The lexer of `aegc1` takes a character it does not know for the end of the file
  (`lexer.c:156-157`), so that the rest is dropped without an error, and braces
  that are not closed are accepted. Modelled (`ends`: `"eof"`, `"open"`).
* A function without a body that has an arrow or a `where` swallows the next item
  without an error (`parser.c:158-161,220-223`). Modelled (`Take`);
  `VerdictIsStable` is about programs whose items end by themselves.
* `a1_ir_validate` asks for a name where there is a contract, and a depth, which
  earlier gates have asked for already (`nprt_ir.c:60,64`). Modelled (`IrValid`);
  `GatesSuffice` says that it finds nothing but an async function with an
  attribute.
* The word `borrow` contains `row`, so that a program with it needs every item
  to be generic (`parser.c:92-95`, `monomorphize.c:15`). Modelled as words that
  come together.
* A path with a blank cuts the build graph at the next load
  (`build_graph.c:12`). Modelled (`Blank`).
* `- -x` is emitted as `--x` (`emit_c.c:31-33`); `spec/seed/minimal-subset.md`
  has no minus of one operand. Modelled; `SameMeaning` exempts it (`TwoMinus`).
* A variable that shadows another is checked with the type of the outer one
  (`sema.c:27`); the document does not speak of shadowing. Modelled;
  `SemaIsScoped` is about functions that declare no name twice.
* All commands of `aegc0` without `--emit-c` write `aegc0_out.c` (`driver.c:37`).
  Modelled; `BuildsOwnProgram` is about commands on paths of their own.

Known hazards that no property here reaches: a reply under another id than that
of the request, or none for an unknown method (`nprt-lsp/main.c:1407`); a
refactor preview that belongs to another document (`main.c:948`); texts cut at a
quotation mark, so that all answers are about a part of them (`main.c:123`);
uris cut at 511 characters by the index alone (`index.c:68`); a problem list
that only grows (`MainWindow.cpp:55`); a full disk under the package list
(`nprt-pkg/main.c:95`). The first three and the list of problems are part of the
models as they are in the code; the others are left out.

## 9. What is not modelled

* Of the language server: formatting and wording of replies, fixed reply
  buffers, positions within a line; `json_min.c` (not called); the index's
  reference table (filled, never read); uris beyond the index's field.
* Everywhere: memory exhaustion, and a disk that fills up but where a module
  says so. `aegc0` writes calls of undeclared functions; the C compiler is taken
  to be one that refuses them, as C99 does.
* Of the package manager: SHA-256 and WinHTTP (a hash without collisions, a body
  of any content), empty or malformed versions, the advanced commands, which
  are stubs that print or append one line.
* Of the debugger: commands that overlap, and the platform and analysis helpers,
  which print constants.
* Of `aegc1`: tokens and bytes, the reports under `build/`, paths of more than
  511 characters, which the build graph never finds again, the configuration
  layers, which have no caller, and the tables and back ends that return
  constants.
* `nprt-fmt`: its rules lengthen the text within a buffer of the size of the
  original (`fmt/nprt-fmt/main.c:110-113`, `format_core.c:66-77`), so that for
  most texts it would change, the code does not define what comes out; there is
  nothing a model could promise.
* `nprt-doc` and `nprt-prof` print reports from one pass over their input and
  keep no state. The platform layer wraps single system calls, and none of the
  programs above calls it. Studio's DapClient starts a debug adapter that does
  not exist (`nprt-debug` takes one command and ends); its other widgets show
  what Qt gives them. Scripts, fixtures and packaging.

`PROJECT.json` lists each part with its status and reason.

## 10. Plan

Done, in this order: the language server with its proofs; Studio around it; the
package manager (list, blobs, resolver), each with proofs; the debugger's session
with proofs; `aegc1`, frontend and driver, the driver with proofs; `aegc0`, all
of its parts, the driver, the arena, the check and the emitter with proofs.

Left: a proof for the parser of `aegc0`; overlapping commands of the debugger; a
full disk under the package list.
