# A verification development for omniparser

omniparser reads csv, fixed-length, EDI, JSON and XML streams record by record, turns each record
into a small tree (an IDR node), and transforms that tree into JSON as a schema says. This directory
holds TLA+ modules for the parts of it that keep state, the TLC configurations that check them, and
proofs, checked by TLAPS, of what matters most. Paths below are relative to the root of the
repository; `ff/` is short for `extensions/omniv21/fileformat/`.

## 1. The system

```
 caller --Read/RawRecord--> transform --Read--> ingester --Read/Release--> FormatReader
 (transform.go)             (transform.go)      (omniv21/ingester.go)      (ff/*/reader.go)
                                                   |                          |
                                             ParseNode(node)            csv2, fixedlength2:
                                             (omniv21/transform)        HierarchyReader over a RecReader;
                                                   |                    edi: its own stack machine;
                                             custom functions, JS       json, xml: stream readers;
                                                                        old csv, old fixedlength
                        everything above shares idr.Node trees from one sync.Pool
```

| component | state it keeps | operations | how it interacts |
|---|---|---|---|
| Schema API (`schema.go`) | header, handler | NewSchema, NewTransform | tries the schema handlers in order, makes an ingester per input |
| transform (`transform.go`) | last error, last raw record | Read, RawRecord | calls the ingester; remembers that the stream ended |
| ingester (`extensions/omniv21/ingester.go`) | the one raw record and its node | Read, IsContinuableError | releases the node of the previous record, reads, transforms, marshals |
| HierarchyReader (`ff/flatfile/hierarchyReader.go`) | stack, target, IDR tree | Read, Release | calls the RecReader it was given, which is the reader that owns it |
| csv2 reader (`ff/flatfile/csv/`) | lines read ahead, their values in one shared slice | MoreUnprocessedData, ReadAndMatch | called back by the HierarchyReader |
| fixedlength2 reader (`ff/flatfile/fixedlength/`) | lines read ahead, the last one possibly a reference into the bufio buffer | the same | the same |
| EDI reader (`ff/edi/`) | stack, target, one unprocessed segment | Read, Release | over a segment scanner |
| stream readers (`idr/{xml,json}reader.go`) | partial tree, current node, stream candidate | Read, Release | over the token streams of encoding/xml and encoding/json; xpath |
| old csv, old fixedlength readers (`ff/csv`, `ff/fixedlength`) | header checked, envelope index, target | Read, Release | |
| IDR (`idr/node.go`) | tree links, node pool, ID counter | CreateNode, AddChild, RemoveAndReleaseTree | shared by everything, across goroutines |
| ParseCtx (`extensions/omniv21/transform/`) | a cache of results per node and declaration, for one record | ParseNode | xpath, custom functions |
| declaration validation (`transform/validate.go`) | the declaration tree, being resolved | ValidateTransformDeclarations | |
| JavaScript (`omniv21/customfuncs/javascript.go`) | program cache, node JSON cache, pool of VMs, all global | JavaScript, JavaScriptWithContext | called from ParseCtx, from any goroutine |
| file format selection (`omniv21/schemahandler.go`) | list of formats | CreateSchemaHandler | |
| cli, datetime and other custom functions, JSON schema texts | none worth a model | | |

### What is hard here

Nearly everything runs in the goroutine of the caller (only the node pool, the ID counter and the caches
are shared between goroutines), so the difficulty is less in interleaving than in
*state that outlives the call which made it*: the stack of a reader outlives the node its entries point
at (which the caller released), lines are read ahead for a declaration that then does not match, a line
is a window into a buffer that the next read reuses, the raw record handed to the caller is a pointer
that the next Read rewrites, errors must stick. A stream reader decides with xpath queries on a tree that
is only partly there. `PROJECT.json` lists these hazards line by line.

### What makes each component correct

- *transform, ingester*: records come in order and at most once; a final error stays; RawRecord answers
  for the last Read; every node taken from the pool goes back exactly once, whichever way a Read ends.
- *HierarchyReader*: it never panics; it only attaches to live nodes; it never returns a record that is
  still being filled, that fails the filter, or that was released; it delivers the records that a
  straightforward recursive descent of the declarations finds; min and max hold; Read returns.
- *csv2, fixedlength2 readers*: reading ahead does not show. Every call answers as a reader would that
  looks at the unprocessed lines only, and no line loses or mixes up its text.
- *EDI reader*: as HierarchyReader, but for the restart of a completed root.
- *stream readers*: the node returned matches the xpath, is complete, and the tree does not keep
  finished targets.
- *IDR pool*: no node is in the pool twice or in the pool and in a tree; IDs are never reused while a
  cache may still hold them.
- *declaration validation*: a schema is rejected for a cause and only then; what is resolved in advance
  means what was written.
- *ParseCtx and JavaScript caches*: a cached value is the value that would be computed now.
- *old csv, old fixedlength readers*: rows and envelopes are where the declaration says, none is lost or
  comes twice, the tree holds what later records may refer to and nothing else, and Read returns.

## 2. Modules

| module | models | extends / instantiates |
|---|---|---|
| `RecReader` | pure operators: which lines of the unprocessed input a declaration matches, and when looking fails | |
| `RecReaderSpec` | the RecReader interface as a state machine that never reads ahead (abstract) | `RecReader` |
| `HierarchyReader` | `hierarchyReader.go` on top of a RecReader, and its caller | `RecReader` |
| `HierarchyReference` | reference definitions: recursive descent, and the language of a declaration | `HierarchyReader` |
| `CsvReader` | `flatfile/csv/reader.go`, the RecReader half | implements `RecReaderSpec` |
| `FixedLengthReader` | `flatfile/fixedlength/reader.go`, the RecReader half | implements `RecReaderSpec` |
| `EdiReader` | `ff/edi/reader.go`, and its caller | |
| `EdiReference` | reference definitions, as for the HierarchyReader | `EdiReader` |
| `StreamReader` | what `idr/xmlreader.go` and `idr/jsonreader.go` have in common: tree, xpath matching, candidate and target checks, Read, Release | |
| `XmlStreamReader`, `JsonStreamReader` | their token loops, and the reference: the targets of the whole document | `StreamReader` |
| `StreamReaders` | either of the two, and what both promise | both |
| `OldReader` | what the old csv and fixed-length readers have in common: creation, inputs, replies, what is continuable | |
| `OldCsvReader`, `OldFixedLengthReader` | `ff/csv` and `ff/fixedlength`: validation of the file declaration, Read, Release | `OldReader` |
| `OldReaders` | either of the two, and that Read returns | both |
| `Declarations` | the JSON schema of transform_declarations; `transform/decl.go` and `transform/validate.go` as operators | |
| `ParseCtx` | `schemahandler.go`; `transform/parse.go`, `value.go` and `invokeCustomFunc.go` | `Declarations` |
| `ParseReference` | reference: what a schema means, without resolving, sorting or caching | `ParseCtx` |
| `JavaScript` | `customfuncs/javascript.go` and its caches; `idr/marshal2.go` | |
| `Idr` | `idr/node.go`: links, IDs and pool, step by step, several goroutines | |
| `Transform` | `transform.go` over `ingester.go` over any FormatReader | implements `TransformContract` |
| `TransformContract` | the comments of the Transform interface as a state machine (abstract) | |
| `HierarchyReaderProofs`, `CsvReaderProofs`, `FixedLengthReaderProofs`, `EdiReaderProofs`, `StreamReaderProofs`, `IdrProofs`, `TransformProofs`, `OldReadersProofs` | theorems | the module they are about |
| `MC*` | constants for TLC | |

### RecReader and HierarchyReader

A line is one of a few *kinds*; a regular expression is the set of kinds it matches. The unprocessed
input is a sequence of lines and a tail: `"EOF"`, or `"ERR"` when the read past the last line fails.
`MatchedLines(f, rest)` is how many lines `ReadAndMatch` would turn into a record (0: no match), and
`MatchFails` when it returns an error instead. That a real reader, with its buffer, answers like this is
what the runs of `CsvReader` and `FixedLengthReader` show, so the three modules compose.

`HierarchyReader` keeps the names of the code: `stack` is a sequence of entries (declaration, node,
current child, occurrences), `target` is `r.target`. A declaration is a number, a schema a record of
functions from declarations; a run explores many schemas at once because `fileDecl` is chosen in `Init`.
The IDR tree is `nodes`, a function from the IDs of the live record nodes; release removes a subtree, so
"points at a recycled node" is "is not in DOMAIN nodes". Column nodes are left out: they live and die
with their record. `pc` is where `Read` is:

| code | actions |
|---|---|
| `Release` (121-131) | `Release` |
| `Read`, its entry (50-55) | `Read` |
| head of the loop (56-90) | `ReturnTarget`, `MoreUnprocessedDataFails`, `NoMoreData`, `UnexpectedData` |
| `readRec` and the rest of the loop (91-163) | `ReadRecFails`, `ReadRecNoMatch`, `ReadRecMatch` |
| `recDone` (219-246) | `RecDone` |
| `recNext` (253-272) | `RecNextFails`, `RecNextRoot`, `RecNextUp` |

`recDone` and `recNext` call each other in tail position only, so one `pc` and the name of the caller
(`caller`: `recDone` drops the error of `recNext`, `Read` returns it) replace the Go stack. `kids` (how
many instances of each child a node was given in its life) and `delivered` (the line ranges of the
targets returned) are history variables; the actions do not read them.

### CsvReader and FixedLengthReader

One action per step that touches the buffer: the two interface methods, one read of a line, one
comparison, one match. In `CsvReader` the line records hold `recordStart` and `recordNum`, offsets into
`records`; `PopFront` shifts both as `popFrontLinesBuf` does. The cached joined text of a line is the
sequence of values it was joined from, so that a text joined from the wrong values is told apart. In
`FixedLengthReader` every read lets the bufio.Reader overwrite any subset of the buffered lines that are
not copies. Both refine `RecReaderSpec`, with `pos`, the number of lines consumed, mapped to the number
read minus the number buffered; empty lines of a fixed-length input do not exist for the abstract reader
(`NonBlankLines`), which numbers those that are left (`NonBlank`). A csv line has one value at least,
because encoding/csv returns no record without (`CsvAssumption`). What it passes over between two of them, and the
physical lines one takes, are in `Upto`: a line is kept with the number after the last one read (`LastLine`), which is that
of a blank line if one comes first. The columns of a fixed-length format are
within every line, the part of a line that is not there being an empty one (`FixedLengthAssumption`).

### EdiReader

The same kind of machine with other seams, hence a module of its own: a segment is matched by its name
alone (a group by that of its first segment, `FirstSeg`), the segment at hand (`unprocessedRawSeg`) stays
until a declaration takes it, a matching segment may fail for lack of an element (`MatchFails`), and when
only the root is left on the stack, a segment that could start the file starts it over. `segNext` and
`segDone` call each other from inside, not only in tail position, so here one step is one iteration of
the loop of Read: `Leaves` says which frames a call of `segNext` leaves, `Doing` which frames it finishes
on the way, `SegDone` and `SegNext` what they do to the stack, the target and the tree. `segDone` panics in
the model, as in the code, when a frame of the target has no node or a target waits already, be it one that
the same call has marked in a frame above. Elements are a
set of numbers a segment has; cutting a segment up is left out.

| code (`ff/edi/reader.go`) | actions |
|---|---|
| `Release` | `Release` |
| `Read`, up to its loop | `Read` |
| one iteration of the loop | `ReturnTarget`, `NoMoreSegs`, `NoMatch`, `MatchFails`, `Match` |

### StreamReader, XmlStreamReader, JsonStreamReader

The input is a sequence of the tokens that encoding/xml or encoding/json return; reading the next one may
fail at any point. An xpath is a sequence of steps, each `child::` or `descendant::`, with a name test and
perhaps a filter that asks for a child of some name; `Select` is what antchfx/xpath makes of it on the
part of the tree that exists when the reader asks: the nodes that a walk from the root leads to, one node
for each step (`Walks`). That is the point of the model: a filter can come to
hold as more of the tree is read, and both checks of the readers are made on unfinished trees. Left out
are texts and attributes (a filter on them is decided while the node is read, as one on children is),
namespaces, and a filter on the root itself. `kind` of a node is its JSONType, a set of flags, so
that "a property that holds an array" is both flags; a number, string, boolean or null is one token.
The inputs of the xml reader never end an element that is not open, for which encoding/xml fails
(`XmlAssumption`). The decoder of json returns only tokens of well-formed values, which `JsonAssumption` says with
the stack of what is open in it (`OpenAfter`); there may be more than one value at the top.

`XmlDocument`, `JsonDocument` and `TargetsOf` give the reference: the tree of the whole document, the outermost nodes the
xpath selects in it, and where they end.

### OldCsvReader and OldFixedLengthReader

A row of csv is the number of its last line (`upto`), whether encoding/csv can parse it, and its cells; a blank
line has no cells and is passed over within the next read, which is the point: `lineNum` counts lines,
`jumpTo` counts on rows. Each iteration of `jumpTo` and of the loop of `Read` is an action (`JumpToHeader`,
`JumpToData`, `DataRow`), the header check is one. An input ends well or fails for good (`tail`); a read
that fails counts as a line, which is what ends `jumpTo` then. A line of a fixed-length input is the set of
the patterns that it matches; an envelope by header and footer takes its lines one action at a time
(`ReadHeader`, `ReadBody`), one by rows in `ReadRow`; `Complete` is the rest of `Read`: keep a global
envelope, drop a target that the xpath filters out, return one that it does not. Creating the reader
(`CsvCreate`, `FixedLengthCreate`) validates the declaration, so that declarations that are not valid are
among the inputs. The children of the root and the target are sets: a node is known by the lines it was
read from, and `EnvelopesTile` says that no two envelopes have the same. It speaks of the *pieces*, which are the lines of
each envelope and last those that are taken for the one being read.

### Declarations, ParseCtx, ParseReference

A declaration is a record of the fields of `Decl`. `Declarations` turns the schema into the resolved tree
that `ValidateTransformDeclarations` returns, or fails, with one operator per function of `validate.go`;
`ParseCtx` evaluates it on a record, one operator per function of `parse.go`, with the cache handed from
call to call, so that what is in it at any point is what the Go map holds. The state machine above them is
small: a schema is loaded (`InvalidSchema`, `InvalidDeclarations`, `SelectFormat`), then records are
transformed (`Ingest`), each with an empty cache. Texts are model values with what is left of them without
spaces (`Trimmed`) and whether they are integers; custom functions are four that tell arguments, node and
failure apart. An array that nothing came into is a value of its own (`NilSlice`), a nil slice in Go:
kept, it comes out as null. `ParseReference` says what the outcome should be: which schemas are well formed, in terms of
all declarations that FINAL_OUTPUT needs, and what a declaration means, a template being looked up where it
is used. These modules use recursive operators, so their properties stay with TLC.

### JavaScript

`nodes` is a node that stays, such as the document node or a global envelope, with one record below it at
a time; a record is replaced by the next (`NextRecord`), under IDs that were never used. A call of either
function is one action: program cache, arguments, the JSON of the node, a runtime from the pool or a new
one, and what stays in it.

### Idr

A goroutine owns the trees it builds and releases, so `AddChild` and the unlinking are one step each. The
pool and the counter are shared, so `recycle` is taken apart: one step per child it calls itself for,
one for the reset and `Put` of a node. In between, another goroutine may get a node out of the pool whose
former parent and siblings are still being recycled. `frames` is the Go stack of the recursion with its
saved next sibling. `kids`, the children of a node in order that are not recycled yet, and `used`, the IDs
that were ever in a tree, are history variables; `Subtree` is the least set with a node and, for each node
in it, its `kids`.

### Transform

`transform.Read` and `ingester.Read` run in one action; the reader below is external and may do whatever
the FormatReader interface allows: return a node, an error, or both. `pool` counts how often each node is
in the node pool, so a double release is a count of 2 and a leak a count of 0. `rawRecord` is one struct
inside the ingester, and what `RawRecord()` returns is a pointer to it: the model therefore reads the
content of the node at the time of the call.

## 3. Runs

| run | instance | what it shows |
|---|---|---|
| `hierarchy` | 58 schemas (flat, nested, grouped, grouped twice, some with a max of 0; each declaration as the target, with and without filter), all inputs of up to 4 lines of 3 kinds, both tails | the invariants below, agreement with the recursive descent, conformance of accepted files, and that every Read returns |
| `csv_lines` | all inputs of up to 5 lines of 2 kinds of different width, one on a single physical line and one on two, blank ones in between, 6 formats, any order of calls | offsets and texts stay with their lines; refinement of `RecReaderSpec` |
| `fixed_length_lines` | all inputs of up to 4 lines of 2 kinds and empty ones, 6 formats, any order of calls | no buffered line is overwritten; refinement of `RecReaderSpec` |
| `edi` | 50 schemas (flat, some with a max of 0, an envelope, a group that starts with a group; each declaration as the target, with and without filter), all inputs of up to 4 segments of 4 kinds (one lacks an element), both tails | the same for EDI, the restarts of the root included |
| `streams` | xml: all documents of up to 4 elements with 2 names, 11 xpaths; json: 337 values of up to 4 levels and 49 pairs of values, 10 xpaths; each cut off anywhere | the current node is live; only the candidate matches; a json value never makes the reader panic before it is complete; the targets are those of the whole document |
| `parse` | schemas with one, or two of 45 declarations in an object or an array, over 7 templates (nested, conflicting, cyclic); 3 records | schemas are rejected for a cause; records come out as declared |
| `array_order` | arrays of 1 to 11 constants | from ten elements on, the order changes (section 5) |
| `old_formats` | csv: inputs of up to 3 of 6 rows (blank, of two lines, that cannot be parsed), 21 declarations; fixed-length: inputs of up to 4 of 6 lines, 18 declarations; both tails | rows and envelopes are as declared; the tree holds the global envelopes and one target; Read returns |
| `csv_data_row` | rows and blank lines, up to 4 | a data row is lost behind a blank line (section 5) |
| `javascript_stale` | 2 records, 12 scripts, 4 lists of arguments | a script gets the JSON of an earlier record (section 5) |
| `idr` | 4 nodes, 2 goroutines, 5 IDs | links agree, pooled nodes are clean, recycle keeps to its own nodes, IDs are unique |
| `transform` | 3 nodes, 4 records, any outcome of each Read, RawRecord at any time | nodes are owned once; the raw record is current; refinement of `TransformContract` |

*Bounds.* Four lines are enough for a record with a child, a second instance and a trailer, and for a
group within a group to repeat; every comparison of the machine (min, max, last sibling, root) is hit from
both sides, and the mutants of each of them are found. `max` is 0, 1, 2 or 9 ("unbounded": longer than any
input). Five lines let the csv buffer hold the three lines of the longest format, lose some, and grow
again while older lines are still in it. With three nodes, a node released twice can be handed out while
it is still in use. Four segments let an envelope be complete and start over, and an inner group repeat.
Four elements are a candidate with two children, or one nested in another, and a sibling after it; the
json values put each kind of value into each kind of context. Three rows are a header, one to skip and one of data, in each order with blank and two-line ones between;
no Read starts behind line 6 (`MaxLineNum`), which all inputs end before. Four lines hold two envelopes of
two lines, or three of which one is global. The pairs of declarations are what lets one result be taken for
another's; three levels of templates let the site with the xpath be any of them. Four nodes are a parent with three children,
so that one in the middle can be unlinked; five IDs let nodes be recycled while others are in use
(`MaxID` stops the creation of nodes, the counter itself runs on by as many resets as are then under way).

`CHECK_DEADLOCK FALSE` in the two line-reader runs: a reader whose last call failed is not called again,
because the error is fatal for the HierarchyReader's caller. In `idr`: no node is left to release and
`MaxID` is reached. In `old_formats`: a reader that has ended or was not created is not called; in
`parse` a schema may be rejected, and in `javascript_stale` IDs run out at `MaxID`. The nodes of `idr` and goroutines are symmetric: that module does not tell them apart.

The agreement with the document is stated for xpaths that have no filter before the last step, and no
descendant step together with a filter at the last (`Simple`). For the others it does not hold: see
section 5.

`OutputAsDeclared` is stated for arrays of fewer than ten elements and for schemas that are `Ordinary`: no
`xpath_dynamic` contains an array, no object or array is empty, and no declaration with an xpath is both an
element of an array and used elsewhere. For each of these the code departs from `ParseReference`; see
section 5. `RowsAsDeclared` is stated for inputs in which each line before the data row is a row (`Plain`).

*Fairness.* `HierarchyReader` and `EdiReader` assume `WF_vars(ReadStep)`, `OldReaders` assumes `WF_vars(InRead)`: a call of Read that was made keeps running,
which is what a Go function does. Calls of Read and Release are not assumed: the caller may stop. The
underlying `io.Reader` is assumed to answer.

## 4. Proofs

The theorems hold for every value of the constants: every number of nodes, goroutines and records, every
schema that passes validation, every declaration, every input and every xpath. Each component has one
inductive invariant, `IInv`, and a theorem `Invariance == Spec => []IInv` with a lemma per action; the
properties that the runs check follow from it. Each `IInv` was checked with TLC before it was proved.

- *Transform.* The inductive invariant is `TypeOK /\ NodesOwnedOnce /\ RawRecordIsCurrent` with one more
  conjunct, that the last reply is the error the transform remembers. From it: `TypeCorrect`,
  `ReleasedOnce`, `RawCurrent`, and `Refinement`, that every step is a step of the contract or none.
  The contract's final errors stay because `ReadCeased` is then the only step that is enabled, and
  records are at most once because `ingested` only grows.
- *HierarchyReader.* `Spec => []IInv`, where IInv is a conjunction of

  | part | says | needed for |
  |---|---|---|
  | `TypeOK` | types | everything |
  | `CallInv` | a node on offer is the waiting target; while recDone or recNext runs with a target waiting, no open entry is of the target declaration | NoPanic, ReturnedTargetIntact |
  | `StackInv` | the stack is a path of declarations from the root, in the order of declaration, and every entry points at the child above it | that the two panics need one target declaration twice on the stack |
  | `OccurredInv` | an instance is only started while there is room for it | RecDoneNeverFails, OccursHonoured |
  | `TreeInv` | a live node has a live, older parent, and its path is its parent's and itself | TreeClosed; that a release takes whole subtrees |
  | `ChainInv` | the nodes of the open entries are each the parent of the next, and are the path of the innermost one | OpenChainLive; that a released target is not among them |
  | `TargetInv` | a waiting target is of the target declaration, passed the filter, and is not open | ReturnedTargetIntact; that releasing it leaves the chain alone |
  | `KidsInv` | the children an open node was given are in range up to the current child, and those of a complete node altogether | OccursHonoured |

  None of the properties is inductive alone: that `AddChild` gets a live parent depends on the returned
  target never being an ancestor of an open entry, which depends on where the target declaration lies on
  the stack. IInv itself was checked with TLC before it was proved. The assumption on the constants,
  `SchemaAssumption`, is what `validate.go` enforces; TLC evaluates it in the runs.

- *CsvReader.* `IInv` says of every buffered line that it has its line number, points at its own values, that
  these begin where those of the line before end, and that its cached text is none or its own (`Aligned`);
  that a call under way is of a reader that did not fail; and, in `FooterInv`, that none of the lines
  compared so far is a footer. `BufferAligned` is not inductive: what `popFrontLinesBuf` shifts by is the
  sum of the lengths of the lines that go, which is where the first line left begins only because there is no gap.
  `Refinement`: every step is a step of `RecReaderSpec` or none. Reading a line ahead is none; the answer is a step, and it is
  the one the specification gives because `FooterInv` says which footer is the first.
- *FixedLengthReader.* The same with `Intact`: every buffered line but the last is a copy, so that the next
  read, which copies the last one first, overwrites none of them; and the lines in the buffer are the last ones read
  that are not empty. The refinement mapping counts these, which the lemmas on `NonBlank` are about.
- *EdiReader.* `IInv` has, besides the types with a tree that is closed under paths (`Tree`):

  | part | says | needed for |
  |---|---|---|
  | `CallInv` | what is on offer is the waiting target, and only between two calls | that Release and Read take the target away before the loop goes on |
  | `StackInv` | the frames are a path of declarations from the root; between two iterations the top one is at its first child; all but the top one hold a path of live nodes | OpenChainLive; NoPanic, since no two frames are of the target declaration |
  | `TargetInv` | a waiting target is live, of the target declaration, passed the filter, and none of the frames is at it or below it | ReturnedTargetIntact; that releasing it leaves the frames alone |

  It is smaller than that of HierarchyReader because one step is one iteration of the loop; what happens inside, where
  `segDone` and `segNext` call each other, is in lemmas on `Leaves` and `Doing`: which frames are finished and in which
  order (`DoingFacts`), that at most one of them is of the target declaration (`SegDoneFacts`), and what the stack is after it
  (`SegNextFacts`). That the frames are of the current tree survives the restart of the root since
  a new root has no open frame below it (`AgainFacts`).
- *Stream readers.* `IInv` is the types with a tree of nodes that know their paths; `StreamInv`, that the current node
  is within the stream candidate until the candidate is complete, and not within it from then on, because both readers go up before they
  look at what they leave; `DepthInv`, that an xml reader is as deep in its tree as elements are open, so
  that it always has a current node; and `OnlyStreamMatches`. `CurrentAlive` and `StreamMatches` follow. That a new node, or another kind for one,
  makes nothing match but that node is since a walk to a node passes only the nodes above it
  (`MatchLocal`); the last filter is the only one of a `Simple` xpath, and without filters children do not matter.
  `CurInValue` adds `JsonInv`: the nodes from the root of a json tree to the current one are what is open in the
  decoder, one for one, an object for each brace, an array for each bracket, and neither for a value that is due after
  a key (`Along`). It is what makes the cases of the reader, which looks only at the flags of its current node, those of the decoder;
  and that the reader never counts brackets does no harm, since both go up one at the end of a value.
- *Idr.* The invariants that the runs check are about nodes that are in use, pooled or in a frame of `recycle`; none is inductive, because what
  a `recycle` will reach is still to be found through links that it resets on its way. `IInv` says that a node has one parent and one place
  (`OneParent`), that a tree is in use or dying as a whole and has one owner (`Together`), that nodes do
  not hang below each other in a circle (`NoCircle`, stated for every set of nodes, so that no induction is needed), that what is not in
  a tree has no links (`Unlinks`), that each frame is at the first of the children that are left (`FramesInv`), that what is dying hangs below a frame and is linked as it was (`DyingInv`),
  and that pooled IDs are distinct and were never used (`PoolIDs`). From it: `LinksCorrect`, `PoolCorrect`,
  `RecycleCorrect`, and the action property `IDsCorrect`.

- *Old readers.* `IInv` has a part for each format, since a run reads only one of them. For csv: the number of the line and
  that of the row are the same until the data row (`InStep`), provided that each line up to there is a row; where each
  iteration of `jumpTo` is, with the row it goes to still ahead; that rows before the data row are behind once there
  (`AtData`); and that what was returned is what it should be up to the row that was read last, which is inductive because a row
  that is passed over does not pass (`KeptRows`). For fixed-length: that each envelope is a declared
  one over lines of the input; `TakenInv`, that the lines taken so far begin with the header of the current envelope,
  and of none between it and the last one, and have no footer; and `TargetInv`, that the target is the last envelope, so
  that what is removed at the next Read is just the target. That the pieces tile the lines is one lemma (`PiecesGrow`): a
  line goes behind all others, whether it completes its envelope or not. From it: `RowsCorrect`, `Tiling`, `GlobalsCorrect`.

The assumptions are those named in the modules (`SchemaAssumption`, `CsvAssumption`,
`FixedLengthAssumption`, `FormatsAssumption`, `StreamAssumption`, `XmlAssumption`, `JsonAssumption` and so on); TLC evaluates each of them in
the runs.

*Only model-checked*, and why:

- `ReadTerminates` and `ReadReturns`: liveness under fairness is out of TLAPS's reach.
- `AgreesWithDescent` and `AcceptedFileConforms` of both machines, `RejectedForCause` and `OutputAsDeclared`: they compare with recursive
  definitions, which need induction over data.
- `AgreesWithDocument`: the document of an input is a fold over all its tokens.
- All else of `Declarations`, `ParseCtx` and `JavaScript`: resolving and evaluating a declaration are recursive.
- The runs that expect a violation.

`TreeClosed` is proved and not run.

## 5. Findings

Three runs show a disagreement between the code and what a doc says:

- *Arrays of ten elements or more change their order* (`transform/validate.go:136`). The children of an
  array are sorted by their fully qualified names, as strings, so that `elem[10]` comes before `elem[2]`.
  The comment says that the sort is for the stability of test snapshots; doc/transforms.md:117 describes
  an array of a first query, a constant and a second query as coming out in that order. Run `array_order`.
- *A blank line can cost the first data row* (`ff/csv/reader.go:104`). `jumpTo` reads rows until the line
  number is just before the data row; encoding/csv passes over blank lines within a read, so the read that
  begins at a blank line just before the data row takes the data row. doc/csv_in_depth.md:76 says that
  `data_row_index` is the "line number (1-based) where the first actual data line starts". Run
  `csv_data_row`; `RowsAsDeclared` states what holds without such lines.
- *A script may see an earlier record* (`customfuncs/javascript.go:67`). The JSON of a node is cached by its
  ID and kept, but the nodes above a record stay while their sub-trees change. doc/use_of_custom_funcs.md:175
  says that the script gets "the current IDR node and its sub-tree". Run `javascript_stale`.

The following were seen while modelling and have no run:

- *`"max": 0` means 1* (`ff/flatfile/hierarchyReader.go:237`). `recDone` counts an instance before it
  compares with max, and nothing compares before the first one, so a record declared with `"max": 0` is
  accepted once, against doc/csv2_in_depth.md:115; `segDone` of the EDI reader does the same. `MaxEffective`
  is the max that holds; `OccursHonoured`, `AgreesWithDescent` and `AcceptedFileConforms` are stated with it,
  and both runs have declarations with a max of 0.
- *A top-level EDI max does not bound* (`ff/edi/reader.go:238`). With every declaration done and only the
  root on the stack, Read compares the next segment with the root, which matches as its first descendant
  does, and the root starts over. A test ("multiple root level segments, success") shows that this is meant;
  doc/edi_in_depth.md:167 is silent about it. `AgreesWithDescent` states what does hold.
- *A filter can be satisfied by another node* (`idr/jsonreader.go:61`, and the same in
  `idr/xmlreader.go:45`). The last check asks whether anything in the tree matches the whole xpath. With
  `//a[b]`, the document `{"a": {"a": {"b": 1}}}` yields the outer `a`, which has no `b`. The candidate
  check (`idr/xmlreader.go:27`, `idr/jsonreader.go:43`) can err likewise when an earlier step has a filter:
  with `/a[b]/a`, `<a><a/><b/></a>` yields the `b`, because the inner `a` only comes to match once `b` is
  there.
- *A second JSON value panics* (`idr/jsonreader.go:56`). When the value at the top is complete, the
  current node is nil; json.Decoder returns the tokens of a further value, and the reader dereferences it.
  The action `NilCur` of `JsonStreamReader`.
- *The key of the result cache leaves out where a declaration is used* (`transform/parse.go:40`). An element
  of an array is evaluated at the nodes its xpath selects, any other declaration selects its node itself;
  the hash is that of the fields only. If the same declaration with an xpath is an element of an array and
  also used elsewhere, at a node that it selects, one takes the result of the other.
- *An empty object or array in a template becomes a field* (`transform/decl.go:182-190`). The copy of a
  template drops it, so that a declaration `{"array": []}` used through a template yields the text of the node.
- *An array in an `xpath_dynamic`* (`transform/validate.go:85-102`, `:211-216`). A site that refers to a template
  hands its `xpath_dynamic`, which is validated by then, to the copy of the template, whose validation
  validates it again, so that its children are appended a second time; and the parents in an `xpath_dynamic`
  are not linked (`linkParent`), so that the elements of an array in there are queried twice. The JSON schema
  means to exclude arrays from `xpath_dynamic`, but says "items" of something that is an object
  (`validation/transformDeclarations.go:75`), so its content is not looked at.
- *A failing medium goes on for ever* (`ff/csv/reader.go:54`). An input that fails from some point on gives a
  continuable error at every further Read of a data row; the comment at csv/reader.go:97-102 expects the
  reader to "fail out entirely". Each Read returns (`ReadReturns`), but a caller that goes on as long as
  errors are continuable does not stop.
- *A script's own globals stay* (`customfuncs/javascript.go:85`). Only the arguments are wiped from a runtime
  before it goes back to the pool; the next script that gets it, in any transform, sees the rest.

## 6. Plan

Done: the modules above, and the proofs of what is in reach of them. Next, in this order:

1. A `FormatReader` contract (at most one node on offer; a released node is not touched again; an error is
   final unless the reader says it is continuable) that `HierarchyReader`, `EdiReader` and `StreamReader`
   implement, as a property of their runs, and that `Transform` uses in place of its external reader.
2. The JavaScript functions called by several goroutines, with runtimes in use at the same time.
3. The splitting of an EDI segment into elements and components (`ff/edi/reader2.go`).

## 7. Not modelled

- The JSON schemas other than that of transform_declarations, header validation, error wording and, but for the ones that `CsvReader`
  keeps with its lines, line numbers in messages: no state.
- What Go slices and pointers share: a value of the model is never changed by way of another one. That the
  stack of template references is copied (`transform/validate.go:193`), or a template (`:202`), is how the code
  comes by such values; `ParseCtx` says what they are.
- Custom functions other than JavaScript: pure functions of their arguments.
- cli and samples: I/O around NewSchema and Read.
- Texts, attributes and namespaces in the stream readers; elements and components in the EDI reader
  beyond their presence; the splitting of a segment into them.
- In `ParseCtx`: booleans, arguments of custom functions of other types than text and lists, and what a
  custom_parse function returns beyond the text of its node.
- In the old readers: cutting a column out of a line by runes, the delimiter and the replacement of quotes.
- The limited size of the caches of programs and of the JSON of nodes; two calls of a script at the same time.
- The moves of the xpath navigator over attributes, and the LRU cache of compiled xpaths.
- Column values inside HierarchyReader: nodes there are records only; columns are in the line readers.
- encoding/csv, encoding/xml, encoding/json, bufio, xpath, goja: external, modelled by what the code
  expects of them.
