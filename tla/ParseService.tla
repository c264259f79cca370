---------------------------- MODULE ParseService ----------------------------
(***************************************************************************)
(* What parser::parse promises its callers, without the trees, the visitor *)
(* or the entries of entities in the index: parser.hpp says that the       *)
(* result "can be nullptr, if ... the specified file [is] already          *)
(* registered in the index" and that the "function is thread safe".        *)
(*                                                                         *)
(* A path is won by one call, for ever.  Once a call has started to read   *)
(* the translation unit it hands out a file or, only if the path is taken, *)
(* nothing; before that it may end by an exception.                        *)
(***************************************************************************)
CONSTANTS
    Thread, Path, NoPath,
    File,       \* cpp_file objects
    NoFile

VARIABLES
    catalog,    \* path -> the file that won it
    request,    \* thread -> the path it is parsing
    started,    \* the threads whose call can no longer throw
    winner,     \* thread -> the file it is about to hand to its caller
    held        \* what the callers hold: pairs of a path and its file

serviceVars == <<catalog, request, started, winner, held>>

ServiceInit ==
    /\ catalog = [p \in Path |-> NoFile]
    /\ request = [t \in Thread |-> NoPath]
    /\ started = {}
    /\ winner = [t \in Thread |-> NoFile]
    /\ held = {}

Request(t, p) ==
    /\ request[t] = NoPath
    /\ request' = [request EXCEPT ![t] = p]
    /\ UNCHANGED <<catalog, started, winner, held>>

Start(t) ==
    /\ request[t] # NoPath
    /\ t \notin started
    /\ started' = started \cup {t}
    /\ UNCHANGED <<catalog, request, winner, held>>

Win(t, f) ==
    /\ t \in started
    /\ winner[t] = NoFile
    /\ catalog[request[t]] = NoFile
    /\ catalog' = [catalog EXCEPT ![request[t]] = f]
    /\ winner' = [winner EXCEPT ![t] = f]
    /\ UNCHANGED <<request, started, held>>

Return(t) ==
    /\ winner[t] # NoFile
    /\ held' = held \cup {<<request[t], winner[t]>>}
    /\ request' = [request EXCEPT ![t] = NoPath]
    /\ winner' = [winner EXCEPT ![t] = NoFile]
    /\ started' = started \ {t}
    /\ UNCHANGED catalog

\* nullptr: somebody else has won the path.
Lose(t) ==
    /\ t \in started
    /\ winner[t] = NoFile
    /\ catalog[request[t]] # NoFile
    /\ request' = [request EXCEPT ![t] = NoPath]
    /\ started' = started \ {t}
    /\ UNCHANGED <<catalog, winner, held>>

\* The call ends by an exception before it has touched the index.
Escape(t) ==
    /\ request[t] # NoPath
    /\ t \notin started
    /\ request' = [request EXCEPT ![t] = NoPath]
    /\ UNCHANGED <<catalog, started, winner, held>>

ServiceNext ==
    \E t \in Thread :
        \/ \E p \in Path : Request(t, p)
        \/ Start(t)
        \/ \E f \in File : Win(t, f)
        \/ Return(t)
        \/ Lose(t)
        \/ Escape(t)

Service == ServiceInit /\ [][ServiceNext]_serviceVars
=============================================================================
