----------------------------- MODULE ParseFiles -----------------------------
(***************************************************************************)
(* Several threads parse source files into one shared cpp_entity_index.    *)
(*                                                                         *)
(* libclang_parser::do_parse builds one tree of entities per call: the     *)
(* visitor opens a builder for each cursor (BeginEntity), the finish()     *)
(* function of the builder registers the entity in the index, and only     *)
(* then is it added to its parent (AddChild), so the index refers to       *)
(* entities whose tree is not complete, not yet in any file and, if the    *)
(* parse fails later, about to be destroyed.                               *)
(*                                                                         *)
(* What a source file contains is left open: every sequence of cursors of  *)
(* at most Capacity entities is explored.    Ownership (unique_ptr) is     *)
(* modelled by the set of objects each builder owns; destroying a builder  *)
(* destroys that set.                                                      *)
(***************************************************************************)
EXTENDS EntityIndex, SequencesExt

CONSTANTS
    Thread,     \* threads that call parser::parse
    Path,       \* paths of source files; a path is the id of its cpp_file
    NoPath,     \* no parse under way
    Capacity,   \* bound on the entities each thread creates (model checking only)
    Reparse,    \* whether callers parse a path more than once
    Failures    \* whether parse_error is thrown for some cursor

ASSUME ParseAssumption ==
    /\ Path \subseteq Id
    /\ NoPath \notin Path
    /\ Capacity \in [Thread -> Nat]
    /\ Object = UNION {{t} \X (1 .. Capacity[t]) : t \in Thread}
    /\ Reparse \in BOOLEAN
    /\ Failures \in BOOLEAN

VARIABLES
    kind,       \* cpp_entity::kind(), as far as the control flow looks at it
    parent,     \* cpp_entity::parent_
    alive,      \* the entities that have been constructed and not destroyed
    created,    \* number of entities each thread has created
    phase,      \* where a thread is in parse()
    path,       \* the path it parses
    stack,      \* the open builders, outermost (the file) first
    done,       \* the entity parse_entity returned, not yet added to its parent
    context_error, \* parse_context::error
    error,      \* parser::error_, shared by all threads
    files,      \* the trees the callers received and keep
    spent,      \* the paths the callers will not parse again
    lossy,      \* auxiliary: the current parse destroyed a declaration
    everError,  \* auxiliary: error_ was set at some time
    refused     \* auxiliary: some parse() returned nullptr

entityVars == <<kind, parent, alive, created>>
treeVars == <<stack, done>>
flagVars == <<context_error, error, lossy, everError, refused>>
callVars == <<phase, path, files, spent>>

vars == <<indexVars, entityVars, treeVars, flagVars, callVars>>

EntityId == Id \ Path

Kind == {"file", "namespace", "template", "friend", "plain"}

\* A unique_ptr to an entity: the entity and everything it owns.
Tree == [root : Object, members : SUBSET Object, registered : BOOLEAN]
NoTree == [root |-> NoObject, members |-> {}, registered |-> FALSE]

Leaf(o) == [root |-> o, members |-> {o}, registered |-> FALSE]

----------------------------------------------------------------------------
(* Helpers on the open builders of a thread. *)

\* The innermost builder.
Top(t) == Last(stack[t])

NewObject(t) == <<t, created[t] + 1>>

\* new cpp_X(...): a fresh object without a parent.
Create(t, k) ==
    /\ created[t] < Capacity[t]
    /\ created' = [created EXCEPT ![t] = @ + 1]
    /\ kind' = [kind EXCEPT ![NewObject(t)] = k]
    /\ alive' = alive \cup {NewObject(t)}

\* A cursor may be visited: the last entity has been added to its parent.
Visiting(t) == phase[t] = "visit" /\ done[t] = NoTree

\* The current entity is below the file.
InEntity(t) == Visiting(t) /\ Len(stack[t]) > 1

----------------------------------------------------------------------------
(* parse() up to the visit of the translation unit. *)

BeginParse(t, p) ==
    /\ phase[t] = "idle"
    /\ p \notin spent
    /\ phase' = [phase EXCEPT ![t] = "preprocess"]
    /\ path' = [path EXCEPT ![t] = p]
    /\ spent' = IF Reparse THEN spent ELSE spent \cup {p}
    /\ UNCHANGED <<indexVars, entityVars, treeVars, flagVars, files>>

\* preprocess() or get_cxunit() throws libclang_error: do_parse does not catch it,
\* the caller gets the exception and neither the index nor error_ has changed.
EscapeParse(t) ==
    /\ phase[t] = "preprocess"
    /\ phase' = [phase EXCEPT ![t] = "idle"]
    /\ path' = [path EXCEPT ![t] = NoPath]
    /\ UNCHANGED <<indexVars, entityVars, treeVars, flagVars, files, spent>>

\* The cpp_file::builder and the parse_context of the call are constructed.
OpenFile(t) ==
    /\ phase[t] = "preprocess"
    /\ Create(t, "file")
    /\ stack' = [stack EXCEPT ![t] = <<Leaf(NewObject(t))>>]
    /\ phase' = [phase EXCEPT ![t] = "visit"]
    /\ context_error' = [context_error EXCEPT ![t] = FALSE]
    /\ lossy' = [lossy EXCEPT ![t] = FALSE]
    /\ UNCHANGED <<indexVars, parent, done, error, everError, refused, path, files, spent>>

----------------------------------------------------------------------------
(* parse_entity: one builder per cursor. *)

BeginEntity(t, k) ==
    /\ Visiting(t)
    /\ Create(t, k)
    /\ stack' = [stack EXCEPT ![t] = Append(@, Leaf(NewObject(t)))]
    /\ UNCHANGED <<indexVars, parent, done, flagVars, callVars>>

\* The unique_ptr moves from the builder to the caller of finish().
ReturnEntity(t, registered) ==
    /\ done' = [done EXCEPT ![t] = [Top(t) EXCEPT !.registered = registered]]
    /\ stack' = [stack EXCEPT ![t] = Front(@)]

\* A seeded fault: the handler logs the exception and forgets the flag.
DropEntitySilently(t) ==
    /\ alive' = alive \ Top(t).members
    /\ stack' = [stack EXCEPT ![t] = Front(@)]
    /\ lossy' = [lossy EXCEPT ![t] = TRUE]
    /\ UNCHANGED <<done, context_error, error, everError, refused>>

\* Unwinding destroys the innermost builder with all it owns; parse_entity catches
\* the exception, sets the flag of the context and returns nullptr.
DropEntity(t) ==
    /\ alive' = alive \ Top(t).members
    /\ stack' = [stack EXCEPT ![t] = Front(@)]
    /\ context_error' = [context_error EXCEPT ![t] = TRUE]
    /\ lossy' = [lossy EXCEPT ![t] = TRUE]
    /\ UNCHANGED <<done, error, everError, refused>>

\* What kind() of the registered entity says; the memory of a destroyed one may
\* hold anything.
SaysTemplate(o) ==
    IF o = NoObject THEN {FALSE}
    ELSE IF o \in alive THEN {kind[o] = "template"} ELSE BOOLEAN

HasPlainParent(o) ==
    parent[o] # NoObject /\ kind[parent[o]] # "template"

\* finish() that registers a definition.
FinishDefinition(t, id) ==
    /\ InEntity(t)
    /\ kind[Top(t).root] \in {"plain", "template"}
    /\ \E oldIsTemplate \in SaysTemplate(map[id].entity) :
          IF RejectsDefinition(id, oldIsTemplate, HasPlainParent(Top(t).root))
          THEN DropEntity(t) /\ UNCHANGED indexVars
          ELSE /\ RegisterDefinition(id, Top(t).root)
               /\ ReturnEntity(t, TRUE)
               /\ UNCHANGED <<alive, flagVars>>
    /\ UNCHANGED <<kind, parent, created, callVars>>

\* finish_declaration() or finish() of a declaration.
FinishDeclaration(t, id) ==
    /\ InEntity(t)
    /\ kind[Top(t).root] \in {"plain", "template"}
    /\ RegisterForwardDeclaration(id, Top(t).root)
    /\ ReturnEntity(t, TRUE)
    /\ UNCHANGED <<entityVars, flagVars, callVars>>

FinishNamespace(t, id) ==
    /\ InEntity(t)
    /\ kind[Top(t).root] = "namespace"
    /\ RegisterNamespace(id, Top(t).root)
    /\ ReturnEntity(t, TRUE)
    /\ UNCHANGED <<entityVars, flagVars, callVars>>

\* Entities without an id, friends, and classes and functions that a template will own.
FinishUnregistered(t) ==
    /\ InEntity(t)
    /\ kind[Top(t).root] \in {"plain", "friend"}
    /\ ReturnEntity(t, FALSE)
    /\ UNCHANGED <<indexVars, entityVars, flagVars, callVars>>

\* The parsed entity becomes the child of an entity constructed after it: a
\* templated entity of its template, the befriended entity of a cpp_friend.
WrapEntity(t, k) ==
    /\ phase[t] = "visit"
    /\ done[t] # NoTree
    /\ k = "template" => kind[done[t].root] = "plain" /\ ~done[t].registered
    /\ k = "friend" => kind[done[t].root] \in {"plain", "template"}
    /\ Create(t, k)
    /\ parent' = [parent EXCEPT ![done[t].root] = NewObject(t)]
    /\ stack' = [stack EXCEPT ![t] =
                    Append(@, [Leaf(NewObject(t)) EXCEPT !.members = @ \cup done[t].members])]
    /\ done' = [done EXCEPT ![t] = NoTree]
    /\ UNCHANGED <<indexVars, flagVars, callVars>>

\* A seeded fault: the tree keeps the child, which never hears of its parent.
AddChildOrphaned(t) ==
    /\ phase[t] = "visit"
    /\ done[t] # NoTree
    /\ stack' = [stack EXCEPT ![t][Len(stack[t])].members = @ \cup done[t].members]
    /\ done' = [done EXCEPT ![t] = NoTree]
    /\ UNCHANGED <<indexVars, entityVars, flagVars, callVars>>

\* A seeded fault: the unique_ptr is released as a raw pointer and not handed on.
AddChildLeaking(t) ==
    /\ phase[t] = "visit"
    /\ done[t] # NoTree
    /\ parent' = [parent EXCEPT ![done[t].root] = Top(t).root]
    /\ done' = [done EXCEPT ![t] = NoTree]
    /\ UNCHANGED <<indexVars, kind, alive, created, stack, flagVars, callVars>>

\* builder.add_child(): push_back on the intrusive list, then on_insert.
AddChild(t) ==
    /\ phase[t] = "visit"
    /\ done[t] # NoTree
    /\ parent' = [parent EXCEPT ![done[t].root] = Top(t).root]
    /\ stack' = [stack EXCEPT ![t][Len(stack[t])].members = @ \cup done[t].members]
    /\ done' = [done EXCEPT ![t] = NoTree]
    /\ UNCHANGED <<indexVars, kind, alive, created, flagVars, callVars>>

\* A parse_error (or std::logic_error) while an entity is being built.  An error that
\* unwinds several builders (a template template parameter, then its template) is as
\* many steps.
ParseError(t) ==
    /\ Failures
    /\ InEntity(t)
    /\ DropEntity(t)
    /\ UNCHANGED <<indexVars, kind, parent, created, callVars>>

\* The error strikes when finish() has returned the entity and nobody owns it yet: an
\* alias is registered before its attributes are parsed, a befriended entity and a
\* templated one wait for the rest of their cursor.
ParseErrorLate(t) ==
    /\ Failures
    /\ phase[t] = "visit"
    /\ done[t] # NoTree
    /\ kind[done[t].root] \in {"plain", "template"}
    /\ alive' = alive \ done[t].members
    /\ done' = [done EXCEPT ![t] = NoTree]
    /\ context_error' = [context_error EXCEPT ![t] = TRUE]
    /\ lossy' = [lossy EXCEPT ![t] = TRUE]
    /\ UNCHANGED <<indexVars, kind, parent, created, stack, error, everError, refused, callVars>>

----------------------------------------------------------------------------
(* The end of do_parse. *)

\* A seeded fault: error_ is assigned the outcome of the last parse.
FinishVisitOverwriting(t) ==
    /\ Visiting(t)
    /\ Len(stack[t]) = 1
    /\ error' = context_error[t]
    /\ everError' = (everError \/ context_error[t])
    /\ phase' = [phase EXCEPT ![t] = "register"]
    /\ UNCHANGED <<indexVars, entityVars, treeVars, context_error, lossy, refused,
                   path, files, spent>>

\* The visitor returned: if (context.error) set_error();
FinishVisit(t) ==
    /\ Visiting(t)
    /\ Len(stack[t]) = 1
    /\ error' = (error \/ context_error[t])
    /\ everError' = (everError \/ context_error[t])
    /\ phase' = [phase EXCEPT ![t] = "register"]
    /\ UNCHANGED <<indexVars, entityVars, treeVars, context_error, lossy, refused,
                   path, files, spent>>

\* The locals of the call go out of scope.
EndParse(t) ==
    /\ phase' = [phase EXCEPT ![t] = "idle"]
    /\ path' = [path EXCEPT ![t] = NoPath]
    /\ stack' = [stack EXCEPT ![t] = <<>>]
    /\ context_error' = [context_error EXCEPT ![t] = FALSE]
    /\ lossy' = [lossy EXCEPT ![t] = FALSE]

\* return builder.finish(idx): the file is handed out if the index had no file of
\* that path, else the builder destroys it and parse() returns nullptr.
FinishFile(t) ==
    /\ phase[t] = "register"
    /\ RegisterFile(path[t], Top(t).root)
    /\ IF FileInserted(path[t])
       THEN /\ phase' = [phase EXCEPT ![t] = "deliver"]
            /\ UNCHANGED <<alive, stack, path, context_error, lossy, refused>>
       ELSE /\ EndParse(t)
            /\ alive' = alive \ Top(t).members
            /\ refused' = TRUE
    /\ UNCHANGED <<kind, parent, created, done, error, everError, files, spent>>

\* The caller stores the file (simple_file_parser: files_.push_back).
Deliver(t) ==
    /\ phase[t] = "deliver"
    /\ files' = files \cup {[file |-> Top(t).root, path |-> path[t],
                             members |-> Top(t).members, lossy |-> lossy[t]]}
    /\ EndParse(t)
    /\ UNCHANGED <<indexVars, entityVars, done, error, everError, refused, spent>>

\* parser::reset_error(): not const, so not to be called while a parse is running.
ResetError ==
    /\ error
    /\ \A t \in Thread : phase[t] = "idle"
    /\ error' = FALSE
    /\ UNCHANGED <<indexVars, entityVars, treeVars, context_error, lossy, everError,
                   refused, callVars>>

----------------------------------------------------------------------------
Init ==
    /\ IndexInit
    /\ kind = [o \in Object |-> "plain"]
    /\ parent = [o \in Object |-> NoObject]
    /\ alive = {}
    /\ created = [t \in Thread |-> 0]
    /\ phase = [t \in Thread |-> "idle"]
    /\ path = [t \in Thread |-> NoPath]
    /\ stack = [t \in Thread |-> <<>>]
    /\ done = [t \in Thread |-> NoTree]
    /\ context_error = [t \in Thread |-> FALSE]
    /\ error = FALSE
    /\ files = {}
    /\ spent = {}
    /\ lossy = [t \in Thread |-> FALSE]
    /\ everError = FALSE
    /\ refused = FALSE

EntityStep(t) ==
    \/ \E k \in {"namespace", "plain"} : BeginEntity(t, k)
    \/ \E id \in EntityId :
          \/ FinishDefinition(t, id)
          \/ FinishDeclaration(t, id)
          \/ FinishNamespace(t, id)
    \/ FinishUnregistered(t)
    \/ \E k \in {"template", "friend"} : WrapEntity(t, k)
    \/ AddChild(t)
    \/ ParseError(t)
    \/ ParseErrorLate(t)

ThreadStep(t) ==
    \/ \E p \in Path : BeginParse(t, p)
    \/ EscapeParse(t)
    \/ OpenFile(t)
    \/ EntityStep(t)
    \/ FinishVisit(t)
    \/ FinishFile(t)
    \/ Deliver(t)

Next == ResetError \/ \E t \in Thread : ThreadStep(t)

Spec == Init /\ [][Next]_vars

----------------------------------------------------------------------------
(* Correctness *)

Phase == {"idle", "preprocess", "visit", "register", "deliver"}

TypeOK ==
    /\ IndexTypeOK
    /\ kind \in [Object -> Kind]
    /\ parent \in [Object -> Object \cup {NoObject}]
    /\ alive \subseteq Object
    /\ created \in [Thread -> Nat] /\ \A t \in Thread : created[t] <= Capacity[t]
    /\ phase \in [Thread -> Phase]
    /\ path \in [Thread -> Path \cup {NoPath}]
    /\ stack \in [Thread -> Seq(Tree)]
    /\ done \in [Thread -> Tree \cup {NoTree}]
    /\ context_error \in [Thread -> BOOLEAN]
    /\ lossy \in [Thread -> BOOLEAN]
    /\ error \in BOOLEAN /\ everError \in BOOLEAN /\ refused \in BOOLEAN
    /\ spent \subseteq Path
    /\ files \subseteq [file : Object, path : Path, members : SUBSET Object, lossy : BOOLEAN]

\* Every object the index hands out through a lookup.
References ==
    {map[id].entity : id \in {i \in Id : Registered(i)}} \cup UNION {Range(ns[id]) : id \in Id}

\* The documented requirement of register_*: "the entity must live as long as the
\* index lives".
IndexReferencesAlive == References \subseteq alive

\* What the code achieves instead.  A lookup can return a destroyed entity only
\* after a parse that lost a declaration, which parser::error() reports no later
\* than at the end of that parse, or after a parse() that returned nullptr.
DanglingIsAnnounced ==
    IndexReferencesAlive \/ everError \/ refused \/ \E t \in Thread : context_error[t]

\* Every entity is owned exactly once: by one open builder, one returned unique_ptr
\* or one delivered file; nothing leaks and nothing is destroyed twice.
OwnedBy(t) == (UNION {tree.members : tree \in Range(stack[t])}) \cup done[t].members

OwnershipUnique ==
    /\ alive = (UNION {OwnedBy(t) : t \in Thread}) \cup (UNION {f.members : f \in files})
    /\ \A t \in Thread :
          /\ \A i, j \in DOMAIN stack[t] :
                i # j => stack[t][i].members \cap stack[t][j].members = {}
          /\ \A i \in DOMAIN stack[t] : stack[t][i].members \cap done[t].members = {}
          /\ \A u \in Thread \ {t} : OwnedBy(t) \cap OwnedBy(u) = {}
          /\ \A f \in files : OwnedBy(t) \cap f.members = {}
    /\ \A f, g \in files : f # g => f.members \cap g.members = {}

\* However many threads race on a path, the callers hold at most one file per path,
\* and the index names that file.
OneFilePerPath ==
    \A f \in files :
        /\ Lookup(f.path) = f.file
        /\ \A g \in files : f.path = g.path => f = g

\* In a delivered file parent() leads from every entity to one of the same tree,
\* and only the file itself has none: no entity is an orphan, none points into
\* the tree of another parse.
ParentsStayInTree ==
    \A f \in files : \A o \in f.members :
        IF o = f.file THEN parent[o] = NoObject ELSE parent[o] \in f.members \ {o}

\* Every namespace block of a delivered file is listed by the index exactly once,
\* also when other threads add blocks to the same namespace.
NamespacesListedOnce ==
    \A f \in files : \A o \in f.members :
        kind[o] = "namespace" =>
            \E id \in Id : \E i \in DOMAIN ns[id] :
                /\ ns[id][i] = o
                /\ \A jd \in Id : \A j \in DOMAIN ns[jd] :
                      ns[jd][j] = o => jd = id /\ j = i

\* A caller that receives an incomplete file finds error() set, whatever the other
\* threads did since the declaration was lost.
IncompleteFileIsReported ==
    [][\A f \in files' \ files : f.lossy => error']_vars

\* parse() as its callers see it: every behaviour is one of ParseService.
Contract ==
    INSTANCE ParseService WITH
        File <- Object,
        NoFile <- NoObject,
        catalog <- [p \in Path |-> map[p].entity],
        request <- path,
        started <- {t \in Thread : phase[t] \in {"visit", "register", "deliver"}},
        winner <- [t \in Thread |-> IF phase[t] = "deliver" THEN Top(t).root ELSE NoObject],
        held <- {<<f.path, f.file>> : f \in files}

ImplementsService == Contract!Service

\* What register_definition documents: it throws if the entity has been registered
\* as a definition before (templates excepted), so the definition that a delivered
\* file put on record stays on record.
DuplicateDefinitionRejected ==
    [][\A id \in EntityId, f \in files :
          (map[id].is_definition /\ map[id].entity \in f.members
              /\ kind[map[id].entity] # "template")
          => map'[id].entity = map[id].entity]_vars
=============================================================================
