# Verification of cppast

cppast parses C++ source files, through libclang, into trees of `cpp_entity`
objects. This directory holds TLA+ models of it, the TLC configurations that
check them and theorems about them that TLAPS checks. Paths below are relative to
the repository.

## 1. The system

Data flows through it once per file:

    parse_files / caller threads
        -> parser::parse -> libclang_parser::do_parse
             -> detail::preprocess: one or two clang processes, read by a thread,
                then the text is split into source, macros, includes, comments
             -> libclang: translation unit -> cursors
             -> detail::parse_entity, one builder per cursor  -> cpp_entity_index
             -> cpp_file::builder::finish                     -> cpp_entity_index
        -> the caller owns the cpp_file; visit(), generate_code() and
           cpp_entity_ref::get() read it together with the index

Several threads may call `parse` at the same time. They share the
`cpp_entity_index`, the parser's error flag and the logger, nothing else.

### Inventory

| Component | State | Operations | Interacts with | Hard behaviour | Correct when |
|---|---|---|---|---|---|
| Entity index (`src/cpp_entity_index.cpp`) | `map_`: id to entity and definition flag; `ns_`: id to namespace blocks; one mutex | `register_definition/file/forward_declaration/namespace`, `lookup*` | every builder's `finish`, `cpp_entity_ref`, class resolution | holds bare references to entities it does not own; `register_definition` reads other entities; `lookup_namespace` returns a view that outlives the lock | the answers are the documented function of the call history; one file per id; no answer is taken back |
| Parser life-cycle (`parser.hpp`, `libclang_parser.cpp`, `cpp_file.hpp`) | per call: builder, `parse_context`; per parser: atomic `error_`; per `simple_file_parser`: the files | `parse`, `do_parse`, `set_error`, `reset_error`, `parse_files` | preprocessing, entity parsers, index | threads racing on a path; exceptions before, during and after the visit; a refused file is destroyed after its entities were registered | one file per path, lost declarations are reported, nothing dangles unannounced |
| Entity parsers and builders (`src/libclang/*_parser.cpp`, `builder` classes) | the open builders of the call | build, `finish`, `finish_declaration`, wrapping by templates and friends | index (registration), parent builder (`add_child`) | `parse_error` at any depth; registration precedes ownership by the parent | every entity is owned once and its parent holds it |
| Entity tree (`cpp_entity.hpp`, `intrusive_list.hpp`) | parent pointer, sibling list | `push_back`, `on_insert`, destruction | builders, visitor | raw ownership in an intrusive list | `parent()` stays in the tree; nothing leaks |
| Preprocessing run (`clang_preprocess` in `preprocessor.cpp`) | macro file, result, the two handlers' locals | run the macro command, run the preprocess command, clean up | child processes | handlers run on another thread than the code that waits; several failures and exceptions | output complete, failure reported, temporary file removed, the call ends |
| Child process (`external/tpl/process_unix.cpp`) | pipes, reader thread, pid | open, poll and read, wait, join | the shell and clang | full pipes, end of file, fork failure, a killed child | no byte lost or repeated, no deadlock |
| Preprocessed text (rest of `preprocessor.cpp`) | position: line, flags, output | linemarkers, macros, includes, pragmas | comments | line numbers over sequences of markers | lines of the output are those of the file |
| Documentation comments | pending comment, list of comments | collect, merge, match | entity parsers | order of entities and comments | a comment belongs to one entity |
| Token stream (`cxtokenizer.cpp`) | cursor in the tokens | skip, brackets, attributes | entity parsers | `>>` and `<` as brackets or operators, attempts that fail | nothing is skipped that belongs to the declaration, no loop stands still |
| Visitor (`visitor.cpp`) | recursion, current access | events, filter, abort | entity tree | abort and skip in nested containers | events nest, each member has its access |
| Class resolution, references | none | `cpp_entity_ref::get`, `get_class`, `get_definition` | index | stale answers, chains of aliases | reaches the definition |
| Code generator (`code_generator.cpp`) | the sections under way, access written last | one routine per entity kind | entity tree, the callbacks of its user | items that are excluded, replaced or only declared | everything is written once, inside its parent, with separators between; what is written is parsed as the same entity |
| Types, tokens, expressions, attributes | none (immutable values) | parsing a spelling, printing | entity parsers, code generator | types taken apart by their suffix | a type is written as it was |
| Compile configuration | flags | parse flags, find a database entry | preprocessing | tokenising of flags | no flag lost |
| Logger, tool, libclang | | | | outside the models | |

## 2. Modules

Each specification module is parameterised by CONSTANTS with named assumptions;
no module that is proved about reaches a RECURSIVE operator. Operators whose
comment begins "A seeded fault" are variants of the operator defined after them;
no specification uses them, they exist to show that a property notices the fault.

* **EntityIndex** - `map_` and `ns_` as the functions `map` and `ns`, and each
  member function as an operator. All of them run under the mutex from first to
  last statement, hence are atomic. An id that is no key has the value `Absent`.
* **IndexHistory** extends it with arbitrary clients and the auxiliary variable
  `log`, the accepted calls per id. The contract is stated on `log`.
* **ParseService** is the abstract contract of `parser::parse`: a path is won by
  one call for ever; a call returns the file, or nothing only if the path is
  taken, or ends by an exception before it has any effect.
* **ParseFiles** composes the index with threads that run `do_parse`. A thread is
  in a `phase` of the call and holds a `stack` of open builders; a builder owns a
  set of entities, the `unique_ptr` returned by `finish()` is in `done` until
  `AddChild` or `WrapEntity` takes it. One action per step of the code:
  `BeginEntity` (builder constructed), `FinishDefinition`, `FinishDeclaration`,
  `FinishNamespace`, `FinishUnregistered` (the variants of `finish`), `AddChild`
  (`push_back` and `on_insert`), `ParseError` and `ParseErrorLate` (unwinding, and
  the handlers in `parse_entity`), `FinishVisit` (`set_error`), `FinishFile`
  (`register_file`), `Deliver`, `EscapeParse` (`libclang_error`), `ResetError`.
  The content of a source file is left open: any sequence of entities.
  Reads of destroyed entities (`SaysTemplate`) return anything.
* **ChildProcess** is `tpl::Process`: a child that writes to two bounded pipes and
  ends or is killed, and the reader in rounds of `Poll` and `Serve`. `revents` is
  the outcome of the last poll, used while the pipes change. The child, the kernel
  and `poll` are external.
* **PreprocessRun** composes it with the thread that calls `clang_preprocess`. The
  handlers are part of the reader's steps (`ReadOut`, `ReadErr`). With fast
  preprocessing the call has two processes, one after the other.
  Abstracted: whitespace conversion, the command line, the text of diagnostics
  except whether it is a missing include, another quoted diagnostic, or neither.
  `AppendUndef` races with the stdout handler on one `ofstream`; the model keeps
  only those outcomes in which the two writes exclude each other.
* **ClangOutput** says what `clang -E` prints for a small source file (external, with
  `-CC -dD`): lexemes, linemarkers, directives, the text of headers. **SourceText**
  takes that text back apart: `rest`, `source`, `cur_line` and `write_disabled_count`
  are `class position`, and the loop of `detail::preprocess` is one action per branch of
  its if-chain. In the phases "includes" and "entities" `do_parse` puts macros, includes
  and entities together again by their lines, and `comment_context::match` hands out the
  comments.
* **TokenStream** is `cxtoken_stream` and the functions on it: a stream is a sequence of
  tokens and a position, a function returns the new position and what it has read.
  **CppDeclaration** (external: the grammar of C++ and what libclang reports) spells a
  declaration as tokens. **Types** parses the spelling of a type (`type_parser.cpp`) and
  writes it again (`cpp_type.cpp`); a type is the sequence of its layers, from the
  name outwards. **FunctionGenerator** is the part of `code_generator.cpp` that writes
  functions and variables. **FunctionParser** is `function_parser.cpp` and
  `variable_parser.cpp`: `pc` says which part of the declaration is read next, a loop of
  the code is a step that is repeated, `prefix` and `suffix` are `prefix_info` and
  `suffix_info`. When the entity is built, it is written, and what was written is parsed
  again in its place. **Declarations** states what should come of it.
* **EntityParser** is `do_parse` and `parse_entity` over the cursors of one file: `stack`
  holds a frame for each container that is open, with the builder's entity and the
  cursor that is visited next; one action per parser function, each of which matches the
  comment and registers the entity as its code does, in that order. **TemplateParser**
  extends it with classes, templates and friends, whose parsers build one entity and
  wrap it in another, and with the exceptions: `Unwind` destroys what the failed
  parser had built, up to the catch of the innermost `parse_entity`. It uses EntityIndex.
  What the cursors of a file may be is `WellFormed`, the assumption of the module on its
  constant `Files`.
  **EntityReferences** is `get_definition` and `get_class` on the tree and the index.
  **Visitor** is `detail::visit` with a filter and any answers of the callback: `open` is
  the stack of `handle_container`, `events` what the callback was told. **CodeGenerator**
  writes the tree as a sequence of marks: `writing` is the stack of calls of
  `generate_code_impl`, each with the list it writes and where it is in it, `text` the
  marks. **EntityTree** composes them all: a file is parsed, and its tree is visited or
  generated; every property relates what comes out to the cursors that went in.
* **MC\*** modules give small values to the constants.
* **IndexHistoryProofs**, **ParseFilesProofs**, **PreprocessRunProofs**,
  **ParseTreeProofs**, **VisitorProofs**, **GeneratorProofs** and **AccessProofs** hold the
  theorems; each extends the module it is about, and the proofs it cites. **FoldProofs** is about no code: it has what folds and maxima of finite
  sets compute, for the operator that the module that instantiates it names.

## 3. Runs

| Run | Shows | Bounds |
|---|---|---|
| `IndexHistory` | lookups answer as documented for every order of calls; a file is registered once and first; no step demotes | 2 ids, 2 objects, 3 calls per id: a declaration before, a definition, and one more of either after; objects may repeat |
| `ParseFiles` | ownership, parents, one file per path, namespaces listed once, errors reported, refinement of ParseService | 2 threads, 2 paths, 1 entity id, 3 entities per thread |
| `ParseFilesReparse` | *violated*: a file parsed twice leaves references to destroyed entities although no error occurred | as above, no failures |
| `ParseFilesDuplicate` | *violated*: a duplicate definition is not rejected | as above, no failures, no reparse |
| `PreprocessRun` | output and diagnostics complete, none left over, failure reported, handlers in scope, macro file removed, the call ends | pipe of 2 tokens, outputs of 2 to 4 tokens, every command may fail, be killed or not start |
| `PreprocessRunGuard` | *violated*: the include guard is still defined | as above |
| `PreprocessRunTerminate` | *violated*: an exception leaves the reader thread | as above |
| `SourceText` | the lines of the stripped text are those of the file; comments are kept once, merged and found by the entity they document; includes and macros are those of the file, in order | every file of up to 3 parts; of 5 parts with comments, of 4 with headers and macros; both preprocessing modes |
| `SourceTextEndOfLine` | *violated*: the comment behind a declaration of several lines is not found | as above |
| `Declarations` | declarations are accepted and parsed as written; types and scopes survive; what is written parses back; exclusions leave no trace; the loops end | every two of the variations of a kind of declaration, 9 kinds; variables of every type of two layers, and of three over some names |
| `DeclarationsExplicit` | *violated*: `explicit constexpr` constructors | as above |
| `EntityTree` | the tree is that of the file, comments and definitions and bases are found, visits nest, access is right in visit and code, separators and sections are right | 14 files with every kind of entity, and each with any one cursor the parser does not understand; 2 refusals of the callback, 1 filtered entity, 2 entities with options |

Why the bounds suffice. In the index, ids are independent, so two of them only show
that; three calls contain every pair of adjacent calls with a predecessor. In
ParseFiles three entities are a file, a container and a member (an entity registered
and then destroyed with its container), or a file, a template and its templated
entity, or three files of a thread; two threads contain every race for a path, for an
id and for the flag. `Capacity` bounds the entities and hence the length of a
behaviour. In PreprocessRun outputs longer than a pipe make the child block, and lines
of two tokens are cut by chunks.

In SourceText a part stands for a line or a few, and what happens to one depends on the
part before it, the kind of text around it and whether a header was seen: three parts
have every pair of neighbours with a predecessor, the longer files hold several comments
in a row and headers that include headers. In Declarations the defects of a parser that
looks for tokens are collisions of two things that stand side by side, so every pair
of variations of each kind is parsed; static functions are parsed as the other member
functions and have single variations. Three layers of a type have every pair of layers
with something inside. In EntityTree the files together hold each kind of
entity, nested in each kind of container that treats it differently; one cursor that is
not understood shows each exit of each parser. After an error nothing is filtered or
excluded, as the shape of the tree is then that of a smaller file. Two options in one
list are what its separators depend on: the item before and the one after. Filters and
options of an entity do not depend on those of another, so one and two of them suffice.

Deadlock is checked in EntityTree, which stutters only when it is done. In the other
runs it is not: a model stops when its bounds are used up (`MaxCalls`, `Capacity`), when
the file or the declaration is done, or when the one call of PreprocessRun has ended;
there `CallEnds` says that it does, and of declarations `ParsingEnds`. Symmetry is used for ids, objects, threads and paths in the runs without
liveness properties. `ImplementsService` has no fairness: it is a safety property.

Fairness is assumed in PreprocessRun and FunctionParser. Of the parser of declarations
it is weak fairness of its next step, which only says that a sequential function goes on
running: `ParsingEnds` is about loops that would run for ever. In PreprocessRun it is
weak fairness of the calling thread, of the reader and of the command. The first two are
threads of one process, whose blocking calls (`poll`, `waitpid`, `join`) return when
their condition holds; the third is the assumption that the compiler ends by itself if it
can write. Nothing is assumed of signals: a command may be killed or not.

### What the violated properties say

* `register_*` requires that "the entity must live as long as the index lives". A
  second parse of a path overrides the entries of the first file and is then
  destroyed. With failures, entities of a failed container dangle too; then the error
  flag says so, which is what `DanglingIsAnnounced` states of the code.
* `register_definition` reads `entity->parent()`, but all builders register before
  the entity has a parent, so `duplicate_definition_error` is never thrown.
* `write_macro_file` appends `#undef GUARD`, without line end, before it waits for
  the command whose output contains `#define GUARD`.
* `parse_missing_file` throws on the reader thread, where nothing catches.
* `pp_doc_comment::matches` compares the line of an end-of-line comment with the line in
  which the entity begins, not with the one in which it ends.
* `parse_cpp_constructor` tells the builder of `constexpr` or else of `explicit`.

### Known divergences

The other properties hold of the code as it is, so what the code does not do is named in
them, each exception as narrow as it could be made; most of the properties also say that
the exception does happen, so that it has to go when the code is mended.

Declarations (`Rejected`, `Lost`, `TypeChanged`, and the conditions of the properties):

* `virtual` without an overridden function gets the flag `override` if `virtual` is not
  written at the declaration in view, and a pure function that overrides does not get it
  unless it says so (`calculate_virtual`).
* `prefix_end` takes the name of a function for the function: a constructor written
  `A<T>(...)`, a function named as its return type, `int (f<int>)()`.
* `can_extend_suffix` has its condition the wrong way round, `is_const` ends in `const`;
  qualifiers of a pointer are read off the end of the spelling; `need_to_remove_scope`
  takes a leading `const` away with the scope.
* `write_member_object_suffix` writes no suffix of the object's type.
* `parse_attribute_impl` returns false after `alignas`, which ends the sequence, and has
  then skipped a `[` that began no attribute; attributes are looked for in front of the
  qualifiers but not in front of `override` and `final`; a second `)` left over by the
  declarator stops the suffix.
* `find_closing_bracket` ends one token behind a `>>` that closes one bracket only.
* `parse_cpp_conversion_op` tests for `()` with `skip_if("(") && skip_if(")")`: the first
  of them has consumed the parenthesis when the second fails, so `skip_brackets` begins on
  the token behind it (`function_parser.cpp:725-728`). `operator decltype(x)()` is not
  understood; `operator decltype((x))()` is, as another parenthesis comes first.
* `explicit(false)` is explicit; `constexpr` of a destructor is dropped; `constexpr` in the lambda a variable is initialised with
  makes the variable constexpr; `alignas` behind the name of a variable loses its default.
* `constexpr virtual` is written without `virtual`, definitions without virtual specifiers.

Assertions with `assert_handler` are off unless `CPPAST_ASSERTION_LEVEL` is set
(`assert.hpp:9-11`). Declarations are parsed as they are without it: the one of
`parse_cpp_destructor` (line 826) refuses nothing. The value `Assertion` of
EntityReferences marks the lookups in which such an assertion does not hold.

Trees (stated with the properties of EntityTree):

* A concept never gets its comment. Variables are declared but never registered.
* Includes come before all other children, whatever stands in front of them.
* A friend that names alone a class which is not understood dereferences a null pointer
  (`friend_parser.cpp:55`); a friend that names an alias is written as that alias.
* When the parameters or arguments of a template are not understood, its members are
  destroyed but stay in the index (`DefinitionsResolve` allows that after an error only).
  So `get_class` may find a class that is destroyed, as the member of a specialization
  (`BasesResolve` allows that after an error only).
* A function that is not understood behind its name has matched its comment, and the
  comment is lost with it. Bit-fields without a name are not registered.
* `get_definition` of the declaration inside a template gives the template, or an
  assertion when asked for its own kind; `get_class` of an alias of a qualified type
  asserts.
* A visit does not show what a friend declares, bases or parameters; shows the inside of
  templates as public; and leaves containers without an exit event when it is aborted.
* `write_container` takes the need for a separator from the last item alone, so there is
  none behind an item the user writes; `write_bases` leaves a comma behind if the last
  bases are excluded.
* `on_container_end` is not called for a language linkage or an empty file, and a linkage
  block with one declaration is written without its braces.

## 4. Proofs

Checked by TLAPS for all values of the constants that satisfy the named assumptions
(any number of ids, objects, threads, paths and entities, files of any size).

* **The index.** `LookupContract` is not inductive: after a definition the map must
  be known to hold the last one, before it the first declaration, and the flag must
  agree with the log. `IndInv` states this per id; it is preserved by each of the five
  calls, and implies `TypeOK`, `LookupContract` and `OneFilePerId`. `NoStepDemotes`
  follows from it step by step.
* **Parsing.** `TypeCorrect` first. Then the steps are classified once
  (`StepKinds`): steps that leave references and the living alone, steps that destroy
  a builder, steps that register, and the end of a file. `DanglingAnnounced` needs that
  every root that may be registered is alive (`RootsAlive`) and that every loss is on
  record (`Reported`). `OneFilePath` needs that a file on its way to the caller is the
  one the index names. `IncompleteReported` needs that the flag of a parse that
  destroyed a declaration is set and stays set until the file is delivered, which is
  why `ResetError` may not run during a parse.
* **Refinement.** `ServiceImplemented`: under the mapping catalog = files in the
  index, winner = the file a thread is about to deliver, the initial states map to
  initial states and every step to a step of ParseService or a stutter.

* **Preprocessing.** `OutputArrives` and `HandlersStayInScope` follow from `RunInv`.
  Its core is what one reader and one writer of a pipe keep: a pipe that is polled no
  more is closed and empty (`GivenUpEmpty`). That is not inductive without
  `ReportsValid`: what poll() reported of a pipe still to be served stays true while the
  child goes on, because a closed pipe cannot fill again, and a read takes all of it
  (`BufferSize >= PipeCapacity`, the named assumption this rests on). The rest is that
  the handler's text followed by the content of the pipe is what has been written, with
  the `#undef` at one place in it (`MacroStream`, `TextStream`), and that the caller is
  past a process only when its reader has ended (`Joined`).

* **Ownership.** `OwnershipUnique` speaks of builders alone and is not inductive: an entity
  is in a builder, then in the `unique_ptr` that `finish()` returned, then in a builder
  again, or in the file, and what is destroyed must be nobody else's. `OwnInv` says that the
  sets held by the open builders, the pointers under way and the delivered files are
  disjoint, and that together they are `alive`. `ParentInv` needs that of it: an entity and
  its parent are always in the same one of these sets, so they are destroyed together.
  `ListInv` adds what the index holds of a namespace: blocks listed once, and the one being
  finished not listed yet.
* **Diagnostics.** `RunTypeCorrect` is the type invariant of the composed run.
  `DiagnosticsComplete`, `DiagnosticEmpty` and `FailureReported` follow from `LinesInv`: the
  lines logged, the line begun and the bytes still in the pipe are, in this order, what the
  command has written (`ErrStream`); the handler's locals are those of the process that is
  read, and a handler not yet used has seen nothing (`ErrUsed`, `ErrFresh`); outputs end with
  a line end, so nothing is left of a line when the pipe is closed (`ErrEnds`); and the
  caller, past `get_exit_status`, has decided on the status of a process whose reader has
  been joined (`Waited`, `Decided`). What the handler does to a chunk is the fold
  `Diagnosed` over its tokens: that folding two chunks is folding their concatenation holds
  for every operator (FoldProofs), by induction on the length, with the set of lengths at
  which it fails in place of a predicate.

* **The tree.** `TreeIsForest` is about every file that is `WellFormed`: libclang reports a
  cursor behind the one it is below of, bases and access specifiers below classes,
  parameters below templates other than full specializations of functions, which have
  none, and parameters of macros below macros used like functions, no class directly below a friend,
  as the friend names it by a reference (`friend_parser.cpp:51-53`), an alias below an alias
  template, nested namespaces below namespaces; a reference has its target in the same
  file, as the model has one file only, and a friend that names a type names a class, an
  alias or a type parameter; and includes and macros are at the top, where the
  preprocessor put them. Nothing is
  assumed of which of them the parser understands. That parents go round in no circle
  (`Forest`) is not inductive, as a template becomes the parent of an entity that was there
  before it. `TreeInv` adds what the calls of `parse_entity` hold (`Held`): no two of them
  the same entity, and each an entity without a parent. Then giving such an entity a parent that it
  is not around of closes no circle. It also says which call may be inside which
  (`StackOK`), because the wrapping depends on it, and a call that is thrown out of leaves
  its entity without a parent for ever. `Placed` says who owns what: an entity is in the
  role of a base, a parameter or a child only of an owner that has a place for it, which
  needs that an entity is made from a cursor of its own kind (`Made`). Forests are stated without paths: a set of entities
  that has the parent of each of its members is empty; what `Ancestors` computes follows
  from that (`AncestorsEquation`).
* **Comments.** `CommentsGivenOnce` is the half of `CommentsFound` that says a comment is never
  given to two entities and never to one it does not stand beside, over all files of
  `TreeIsForest`. A comment is taken once when it is matched, as the position in the list
  moves past it, but then it changes hands: from a class to its template, from a namespace
  to the one nested in it, from a declaration to the call for the friend around it and from
  that call to the friend. `CommentsInv` therefore counts entities and calls under way
  together (`OnceIn`): all comments that are held come from before the current one and
  differ. What is destroyed by an exception only makes fewer of them (`FewerGiven`,
  `FewerHeld`). Includes, which are parsed out of order and look at a comment without
  taking it, are left out of the count. Where a comment was taken over from is kept as a
  cursor below the friend or around the namespace (`Within`, `Fits`), so nothing is assumed of the lines
  on which libclang reports the parts of one declaration.
* **The visit.** `CallbackSeesTree` proves `EventsNest`, over any forest of `TreeInv`, for
  every filter and every answer of the callback. `VisitInv` says of a visit under way
  (`Visiting`) that the calls of `handle_container` are for the path from the file to the
  entity of the last call (`CallOK`); that each call is through with some of the children,
  the first ones, and the call behind it is for the last of these; and
  that the callback was told about exactly what the calls are around of and are through with
  (`Done`, `ToldOK`): "enter" of the former, all there is of the latter. The order of two
  events then follows from the place of the entities in the tree: the child that is visited
  next is below all that is entered, and behind all that is done. A call whose children
  were skipped has none to do and is the last one.
* **The code.** `EntitiesWrittenOnce` proves `WrittenOnce`, over the same forest, for all
  options of all entities. The calls in `writing` are nested (`Nested`): each is for an
  entity that the call in front of it has begun, and what their lists have `Left` is
  directly below their entities and in one place only (`Unique`). `GenInv` divides the
  entities by that. What some call is through with (`Told`) is `Settled`: it has one
  on_begin and one on_end with all that is below it in between, or is excluded and was only
  asked about. What a call is for is `Opened`, begun and not ended. Of the rest there is no
  mark. A step adds marks at the end of `text` (`Extends`), of the next item or of the
  entity that is being written, so what is settled stays so, as the item is below none of
  it. That every item is in some list, and in one, needs the lists of each kind of
  entity to be exactly what it owns (`Placed`): nothing would write a parameter of a full
  specialization, or a base of anything but a class.

* **Access.** `MembersHaveTheirAccess` proves `AccessAgrees`. C++ gives a member the access
  of the last specifier before it in the file; the visitor and the generator give it that of
  the last specifier they came past in the list of members. The two are the same only if
  that list is in the order of the file and has all specifiers, which is `MembersInOrder`.
  It is not inductive: `MembersInv` says, while a class is parsed, that the members it has
  stand before all cursors it has left to visit (`Ready`), and before the one that is
  visited (`Awaits`), and that each specifier is a member or still to come. An entity that
  is built for a class must be younger than the members the class has (`Younger`), as
  children are listed in the order of their entities. Of a visit, `VisitAccess` says that
  `child_access` is the access behind the members the call is through with, whatever was
  filtered or skipped (`AccessAfter`). Of the generator, `WritingAccess` says the same of
  `last_access`, and that `last_written_access` is the access of the last specifier of this
  class in the text (`WrittenIn`), or the default one. That needs that nobody else writes a
  specifier of the class, so the calls under way are for different entities, and that there
  is none before the call begins (`ItemFresh`).

Only model-checked: all of SourceText (`LinesPreserved`, `CommentsKept`,
`CommentsDocument`, `IncludesKept`, `FileInOrder`), of Declarations (`AcceptsDeclarations`,
`ParsedAsWritten`, `TypesSurvive`, `ScopeResolves`, `WrittenParsesBack`,
`ExcludedIsHidden`) and of EntityTree `TreeMatchesFile`, the rest of
`CommentsFound` (that a comment in front of a declaration the parser understands is not
lost), `DefinitionsResolve`, `BasesResolve` and `SeparatorsBetween`.
Most of them compare a whole output with a whole input through functions
that run over tokens, lines or the layers of a type, several of which call each other.
Liveness under fairness (`CallEnds`, `MacroFileRemoved`, `ParsingEnds`) and ENABLED are
beyond the prover. Induction has to be written out for each set that is descended on, as
the library's induction theorems take a predicate as their parameter, which no backend
here can instantiate; RECURSIVE operators have no proofs at all.

## 5. Plan

1. **EntityReferences**: `DefinitionsResolve`, which needs that the index holds for each id
   what the tree has registered.
2. **SeparatorsBetween** follows from `GenInv` for a list without excluded items; otherwise
   it needs what `SelectSeq` leaves out of a list, which is induction over data.

## 6. Not modelled

* The command line of clang and the lookup in a compilation database: strings of
  flags, built once; no later step depends on what they hold.
* Tokenising a string (`cpp_token.cpp`), names of kinds, user data, and value classes
  without behaviour. Whitespace and indentation of the generator.
* The data race of an iteration over `lookup_namespace` while the vector grows: its outcome
  is undefined, a model could only say that it happens.
* An empty USR, with which `get_entity_id` throws (`parse_functions.cpp:16`): it would fail
  a container or variable at its end. For which cursors libclang has none, the source does
  not say; the cursors of `Files` all have one, but for bit-fields without a name.
* A friend that names an enum, which the language ignores; the parser builds all of it.
* `reset_error()` during a parse (the model lets callers use it between parses), and two
  processes that use one directory for macro files.
* The logger, the command line tool, libclang itself, the Windows half of `tpl::Process`.
