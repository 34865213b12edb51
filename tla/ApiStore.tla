------------------------------ MODULE ApiStore ------------------------------
(***************************************************************************)
(* Objects of one kind at the Kubernetes API server, as client-go and      *)
(* controller-runtime show them to the code (external): optimistic         *)
(* concurrency, finalizers, the watch stream of each object, the shared    *)
(* informer's cache, and a pointer into that cache which the code obtained *)
(* from a lister and writes through.                                       *)
(*                                                                         *)
(* Resource versions are not counted: what matters of one is whether it is *)
(* still the server's, which `cur` records for the cached objects and      *)
(* ptr.cur for the object the pointer designates.                          *)
(***************************************************************************)
EXTENDS Naturals, Sequences

CONSTANTS Names,     \* object names
          Objects,   \* records with at least the fields phase and fin
          Gone,      \* the absent object
          NoName

VARIABLES server,    \* the stored objects
          watch,     \* versions each went through that the informer has not seen
          cache,     \* the informer's cache
          cur,       \* the names whose cached object has the server's resource version
          ptr        \* the object held by the goroutine that writes through the cache

\* alias: obj is still the object the cache hands out; cur: its resource
\* version is the server's.
PtrRec == [name : Names \cup {NoName}, obj : Objects, alias : BOOLEAN, cur : BOOLEAN]
NoPtr == [name |-> NoName, obj |-> Gone, alias |-> FALSE, cur |-> FALSE]

StoreInit ==
    /\ server = [n \in Names |-> Gone]
    /\ watch = [n \in Names |-> <<>>]
    /\ cache = [n \in Names |-> Gone]
    /\ cur = Names
    /\ ptr = NoPtr

\* A write that does not go through the pointer: it outdates every copy.
Write(n, rec) ==
    /\ server' = [server EXCEPT ![n] = rec]
    /\ watch' = [watch EXCEPT ![n] = Append(@, rec)]
    /\ cur' = cur \ {n}
    /\ ptr' = IF ptr.name = n THEN [ptr EXCEPT !.cur = FALSE] ELSE ptr
    /\ UNCHANGED cache

\* The server accepts an Update of rec through the pointer.
Accepts(rec) ==
    /\ ptr.cur
    /\ server[ptr.name].phase # "absent"
    /\ ~(server[ptr.name].phase = "deleting" /\ rec.fin /\ ~server[ptr.name].fin)

\* The caller has changed the object in place, so the cache changes with it
\* whether or not the server accepts.
InPlace(rec) == cache' = IF ptr.alias THEN [cache EXCEPT ![ptr.name] = rec] ELSE cache

\* Update of rec through the pointer, of which the server stores `stored`; the
\* caller's object then has the new resource version.
UpdateOK(rec, stored) ==
    /\ Accepts(rec)
    /\ InPlace(rec)
    /\ server' = [server EXCEPT ![ptr.name] = stored]
    /\ watch' = [watch EXCEPT ![ptr.name] = Append(@, stored)]
    /\ cur' = IF ptr.alias THEN cur \cup {ptr.name} ELSE cur \ {ptr.name}
    /\ ptr' = [ptr EXCEPT !.obj = rec]

\* The object is changed in place and the server does not see it, because the
\* Update was refused or because there was none.
Mutate(rec) ==
    /\ InPlace(rec)
    /\ ptr' = [ptr EXCEPT !.obj = rec]
    /\ UNCHANGED <<server, watch, cur>>

\* The server applied the Update and its answer was lost.
UpdateLost(rec, stored) ==
    /\ Accepts(rec)
    /\ InPlace(rec)
    /\ server' = [server EXCEPT ![ptr.name] = stored]
    /\ watch' = [watch EXCEPT ![ptr.name] = Append(@, stored)]
    /\ cur' = cur \ {ptr.name}
    /\ ptr' = [ptr EXCEPT !.obj = rec, !.cur = FALSE]

\* The lister hands out a pointer to the cached object.
Hold(n) ==
    /\ ptr' = [name |-> n, obj |-> cache[n], alias |-> TRUE, cur |-> n \in cur]
    /\ UNCHANGED <<server, watch, cache, cur>>

\* The informer replaces the cached object by the next version.
Deliver(n) ==
    /\ watch[n] # <<>>
    /\ cache' = [cache EXCEPT ![n] = Head(watch[n])]
    /\ watch' = [watch EXCEPT ![n] = Tail(@)]
    /\ cur' = IF Len(watch[n]) = 1 THEN cur \cup {n} ELSE cur \ {n}
    /\ ptr' = IF ptr.name = n THEN [ptr EXCEPT !.alias = FALSE] ELSE ptr
    /\ UNCHANGED server

\* A new process lists everything afresh.
Relist ==
    /\ cache' = server
    /\ watch' = [n \in Names |-> <<>>]
    /\ cur' = Names
    /\ ptr' = NoPtr
    /\ UNCHANGED server

StoreTypeOK ==
    /\ server \in [Names -> Objects]
    /\ watch \in [Names -> Seq(Objects)]
    /\ cache \in [Names -> Objects]
    /\ cur \subseteq Names
    /\ ptr \in PtrRec
=============================================================================
