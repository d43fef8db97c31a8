------------------------------ MODULE MemCache ------------------------------
(***************************************************************************)
(* The shared cache of mod_mem_cache in Apache httpd 2.0.49 (modules/      *)
(* experimental: mod_mem_cache.c, cache_cache.c) and the way mod_cache.c   *)
(* uses it: the threads of a server look objects up, serve them, create,   *)
(* fill and remove them, while the garbage collector of the cache ejects   *)
(* whatever does not fit.                                                  *)
(*                                                                         *)
(* A section under sconf->lock is one step, and so is every access to a    *)
(* reference count or a flag outside of it.  Which entry the priority      *)
(* queue ejects is left open here.                                         *)
(***************************************************************************)
EXTENDS Integers, Sequences, SequencesExt, FiniteSets

CONSTANTS
    Threads,        \* the threads of the server, each with one request at a time
    Keys,
    Objects,        \* bound: the cache_object_t blocks the allocator has
    NoObj,
    Lens,           \* the lengths of bodies, and max_streaming_buffer_size
    MaxCount,       \* max_object_cnt
    MaxSize         \* max_cache_size

ASSUME LensFit == Lens \subseteq 0..MaxSize /\ IsFiniteSet(Lens)
ASSUME LimitsPositive == MaxCount \in Nat \ {0} /\ MaxSize \in Nat
ASSUME NoObjOutside == NoObj \notin Objects
ASSUME KeysExist == Keys # {}

VARIABLES
    heap,           \* of an object: "free", "live" or freed "twice"
    key, refcount, cleanup, complete, m_len,    \* its fields
    queue, table, current_size,                 \* cache_cache_t: pq, ht
    atomics,        \* the build: USE_ATOMICS of mod_cache.h
    pc, url, handle,
    held            \* the cleanups a request has registered, an object each

objectVars == <<heap, key, refcount, cleanup, complete, m_len>>
cacheVars == <<queue, table, current_size>>
threadVars == <<pc, url, handle, held>>
vars == <<objectVars, cacheVars, atomics, threadVars>>

Init ==
    /\ heap = [o \in Objects |-> "free"]
    /\ key = [o \in Objects |-> CHOOSE k \in Keys : TRUE]
    /\ refcount = [o \in Objects |-> 0]
    /\ cleanup = [o \in Objects |-> FALSE] /\ complete = [o \in Objects |-> FALSE]
    /\ m_len = [o \in Objects |-> 0]
    /\ queue = {} /\ table = [k \in Keys |-> NoObj] /\ current_size = 0
    /\ atomics \in BOOLEAN
    /\ pc = [t \in Threads |-> "idle"] /\ url = [t \in Threads |-> CHOOSE k \in Keys : TRUE]
    /\ handle = [t \in Threads |-> NoObj] /\ held = [t \in Threads |-> <<>>]

Goto(t, l) == pc' = [pc EXCEPT ![t] = l]

\* The size of a set of objects, a unit of each after the other.
Units(S, len) == {u \in S \X (1..MaxSize) : u[2] <= len[u[1]]}
SizeOf(S, len) == Cardinality(Units(S, len))

\* The references a request owns: those of its cleanups, but for the one
\* that it has just given back.
Owned(t) == Range(IF pc[t] = "check" THEN Front(held[t]) ELSE held[t])

Referenced(o) ==
    \/ o \in queue
    \/ \E t \in Threads : o \in Range(held[t]) \/ o = handle[t]
-----------------------------------------------------------------------------
(***************************************************************************)
(* cache_cache.c, called under sconf->lock.                                *)
(***************************************************************************)
\* cleanup_cache_object: gives the block back to the allocator.
FreedHeap(S) ==
    [o \in Objects |-> IF o \in S THEN (IF heap[o] = "live" THEN "free" ELSE "twice")
                                  ELSE heap[o]]

Forget(tab, S) == [k \in Keys |-> IF \E o \in S : key[o] = k THEN NoObj ELSE tab[k]]

\* What cache_insert may eject of q to make room for an object of a length:
\* it stops at the first entry that makes enough.
Fits(q, size, len) == Cardinality(q) < MaxCount /\ size + len <= MaxSize
Ejectable(q, size, len) ==
    {E \in SUBSET q :
        /\ Fits(q \ E, size - SizeOf(E, m_len), len)
        /\ E # {} => \E last \in E :
              LET before == E \ {last}
              IN ~Fits(q \ before, size - SizeOf(before, m_len), len)}

\* Mutants: the garbage collector frees objects in use, or leaves them to
\* others, or does not mark them.
Unreferenced_All(E) == E

\* memcache_cache_free of the entries E: it raises the count of each, marks it
\* and lowers the count again.  Only what nobody refers to is freed.
Unreferenced(E) == {o \in E : refcount[o] = 0}

Marked(E) == [o \in Objects |-> o \in E \/ cleanup[o]]

\* cache_insert(o) with length len into the queue q, where E is ejected.
Insert(o, k, len, q, tab, size, E) ==
    /\ queue' = (q \ E) \union {o}
    /\ table' = [Forget(tab, E) EXCEPT ![k] = o]
    /\ current_size' = size - SizeOf(E, m_len) + len

\* cache_remove, as remove_entity, remove_url and decrement_refcount call it.
CacheRemove(o) ==
    /\ queue' = queue \ {o}
    /\ table' = [table EXCEPT ![key[o]] = NoObj]
    /\ current_size' = current_size - m_len[o]

\* remove_entity, and the first half of decrement_refcount.
RemoveAndMark(o) ==
    /\ IF cleanup[o] THEN UNCHANGED <<cacheVars, cleanup>>
       ELSE CacheRemove(o) /\ cleanup' = [cleanup EXCEPT ![o] = TRUE]
    /\ UNCHANGED <<heap, key, refcount, complete, m_len>>
-----------------------------------------------------------------------------
(***************************************************************************)
(* A request.                                                              *)
(***************************************************************************)
\* Mutant: the object is handed out without a reference.
OpenEntity_NoCount(t) ==
    /\ pc[t] = "idle"
    /\ Goto(t, "respond")
    /\ \E k \in Keys :
        /\ url' = [url EXCEPT ![t] = k]
        /\ LET o == table[k] IN
           IF o # NoObj /\ (o # NoObj => complete[o])
           THEN /\ UNCHANGED refcount
                /\ held' = [held EXCEPT ![t] = <<o>>]
                /\ \E h \in {o, NoObj} : handle' = [handle EXCEPT ![t] = h]
           ELSE UNCHANGED <<refcount, held, handle>>
    /\ UNCHANGED <<heap, key, cleanup, complete, m_len, cacheVars, atomics>>

\* open_entity, called by cache_select_url.  Where the Vary headers differ,
\* the handle is dropped while the cleanup stays registered.
OpenEntity(t) ==
    /\ pc[t] = "idle"
    /\ Goto(t, "respond")
    /\ \E k \in Keys :
        /\ url' = [url EXCEPT ![t] = k]
        /\ LET o == table[k] IN
           IF o # NoObj /\ (o # NoObj => complete[o])
           THEN /\ refcount' = [refcount EXCEPT ![o] = @ + 1]
                /\ held' = [held EXCEPT ![t] = <<o>>]
                /\ \E h \in {o, NoObj} : handle' = [handle EXCEPT ![t] = h]
           ELSE UNCHANGED <<refcount, held, handle>>
    /\ UNCHANGED <<heap, key, cleanup, complete, m_len, cacheVars, atomics>>

\* The object is fresh, or the response is not for the cache.
Respond(t) ==
    /\ pc[t] = "respond"
    /\ Goto(t, "end")
    /\ UNCHANGED <<objectVars, cacheVars, atomics, url, handle, held>>

\* remove_url, under the lock: with a thread's own reference in "urldrop",
\* in the build without atomics with the lock alone.
RemoveUrl(t, k) ==
    /\ url' = [url EXCEPT ![t] = k]
    /\ LET o == table[k] IN
       IF o = NoObj
       THEN Goto(t, "end") /\ UNCHANGED <<objectVars, cacheVars, atomics, handle>>
       ELSE /\ CacheRemove(o)
            /\ cleanup' = [cleanup EXCEPT ![o] = TRUE]
            /\ IF atomics
               THEN /\ refcount' = [refcount EXCEPT ![o] = @ + 1]
                    /\ handle' = [handle EXCEPT ![t] = o]
                    /\ Goto(t, "urldrop")
                    /\ UNCHANGED heap
               ELSE /\ heap' = FreedHeap(Unreferenced({o}))
                    /\ Goto(t, "end")
                    /\ UNCHANGED <<refcount, handle>>
            /\ UNCHANGED <<key, complete, m_len, atomics>>
    /\ UNCHANGED held

\* A request that forbids storing, and a response that is not cacheable.
NoStore(t) == pc[t] = "idle" /\ \E k \in Keys : RemoveUrl(t, k)
Uncacheable(t) == pc[t] = "respond" /\ RemoveUrl(t, url[t])

\* remove_url, after the lock.
RemoveUrlDrop(t) ==
    /\ pc[t] = "urldrop"
    /\ LET o == handle[t] IN
        /\ refcount' = [refcount EXCEPT ![o] = @ - 1]
        /\ IF refcount'[o] = 0 THEN heap' = FreedHeap({o}) ELSE UNCHANGED heap
    /\ handle' = [handle EXCEPT ![t] = NoObj]
    /\ Goto(t, "end")
    /\ UNCHANGED <<key, cleanup, complete, m_len, cacheVars, atomics, url, held>>

\* remove_entity: the object of the handle is stale and gets replaced.
RemoveEntity(t) ==
    /\ pc[t] = "respond" /\ handle[t] # NoObj
    /\ RemoveAndMark(handle[t])
    /\ Goto(t, "create")
    /\ UNCHANGED <<atomics, url, handle, held>>

\* create_entity where the key is not in the table.  An object that is being
\* freed by somebody is not handed out again by the allocator.
CreateEntity(t) ==
    /\ pc[t] = "create" \/ (pc[t] = "respond" /\ handle[t] = NoObj)
    /\ table[url[t]] = NoObj
    /\ \E o \in Objects, len \in Lens :
        /\ heap[o] = "free" /\ ~Referenced(o)
        /\ \E E \in Ejectable(queue, current_size, len) :
            /\ heap' = [FreedHeap(Unreferenced(E)) EXCEPT ![o] = "live"]
            /\ cleanup' = [Marked(E) EXCEPT ![o] = FALSE]
            /\ Insert(o, url[t], len, queue, table, current_size, E)
        /\ key' = [key EXCEPT ![o] = url[t]]
        /\ refcount' = [refcount EXCEPT ![o] = 1]
        /\ complete' = [complete EXCEPT ![o] = FALSE]
        /\ m_len' = [m_len EXCEPT ![o] = len]
        /\ handle' = [handle EXCEPT ![t] = o]
        /\ held' = [held EXCEPT ![t] = Append(@, o)]
    /\ Goto(t, "write")
    /\ UNCHANGED <<atomics, url>>

\* create_entity where another thread is, or was, faster, where the length is
\* out of the limits for an object, or without memory for the object.
CreateDeclined(t) ==
    /\ pc[t] = "create" \/ (pc[t] = "respond" /\ handle[t] = NoObj)
    /\ Goto(t, "end")
    /\ UNCHANGED <<objectVars, cacheVars, atomics, url, handle, held>>

\* Mutant: the size is set before the object is removed.
CorrectSize_SizeFirst(t) ==
    /\ pc[t] = "write"
    /\ LET o == handle[t]
           other == table[key[o]]
           out == IF cleanup[o] THEN {other} \ {NoObj} ELSE {o}
           marked == out \ {o}
           q == queue \ out
       IN \E count \in Lens : LET size == current_size - SizeOf(out, [m_len EXCEPT ![o] = count]) IN
          /\ count < m_len[o]
          /\ m_len' = [m_len EXCEPT ![o] = count]
          /\ \E E \in Ejectable(q, size, count) :
              /\ heap' = FreedHeap(Unreferenced(E \union marked))
              /\ cleanup' = [Marked(E \union marked) EXCEPT ![o] = FALSE]
              /\ Insert(o, key[o], count, q, Forget(table, out), size, E)
    /\ Goto(t, "written")
    /\ UNCHANGED <<key, refcount, complete, atomics, url, handle, held>>

\* write_body, at the end of a body that is shorter than the object: removes
\* the object, corrects its size and adds it again.  If it was taken out of
\* the cache meanwhile, another one with its key makes room for it.
CorrectSize(t) ==
    /\ pc[t] = "write"
    /\ LET o == handle[t]
           other == table[key[o]]
           out == IF cleanup[o] THEN {other} \ {NoObj} ELSE {o}
           marked == out \ {o}
           q == queue \ out
           size == current_size - SizeOf(out, m_len)
       IN \E count \in Lens :
          /\ count < m_len[o]
          /\ m_len' = [m_len EXCEPT ![o] = count]
          /\ \E E \in Ejectable(q, size, count) :
              /\ heap' = FreedHeap(Unreferenced(E \union marked))
              /\ cleanup' = [Marked(E \union marked) EXCEPT ![o] = FALSE]
              /\ Insert(o, key[o], count, q, Forget(table, out), size, E)
    /\ Goto(t, "written")
    /\ UNCHANGED <<key, refcount, complete, atomics, url, handle, held>>

\* write_body: the object is open for business.
Complete(t) ==
    /\ pc[t] \in {"write", "written"}
    /\ complete' = [complete EXCEPT ![handle[t]] = TRUE]
    /\ Goto(t, "end")
    /\ UNCHANGED <<heap, key, refcount, cleanup, m_len, cacheVars, atomics, url, handle, held>>

\* write_headers or write_body fails, or the body never gets to its end.
WriteFails(t) ==
    /\ pc[t] = "write"
    /\ Goto(t, "end")
    /\ UNCHANGED <<objectVars, cacheVars, atomics, url, handle, held>>

\* decrement_refcount, run by the cleanup of the request's pool, in the reverse
\* order of the registrations: first, for an object that is not complete.
DropIncomplete(t) ==
    /\ pc[t] = "end" /\ held[t] # <<>>
    /\ ~complete[Last(held[t])]
    /\ RemoveAndMark(Last(held[t]))
    /\ Goto(t, "drop")
    /\ UNCHANGED <<atomics, url, handle, held>>

\* decrement_refcount with atomics: the count is lowered ...
Drop(t) ==
    /\ atomics
    /\ pc[t] = "drop" \/ (pc[t] = "end" /\ held[t] # <<>> /\ (held[t] # <<>> => complete[Last(held[t])]))
    /\ LET o == Last(held[t]) IN
        /\ refcount' = [refcount EXCEPT ![o] = @ - 1]
        /\ IF refcount'[o] = 0
           THEN Goto(t, "check") /\ UNCHANGED <<held, handle>>
           ELSE /\ Goto(t, "end")
                /\ held' = [held EXCEPT ![t] = Front(@)]
                /\ handle' = [handle EXCEPT ![t] = NoObj]
    /\ UNCHANGED <<heap, key, cleanup, complete, m_len, cacheVars, atomics, url>>

\* ... and, if it came to zero, the flag is looked at.  A freed block keeps
\* its contents here; reading it is where the behaviour gets undefined.
CheckCleanup(t) ==
    /\ pc[t] = "check"
    /\ LET o == Last(held[t]) IN
        IF cleanup[o] THEN heap' = FreedHeap({o}) ELSE UNCHANGED heap
    /\ held' = [held EXCEPT ![t] = Front(@)]
    /\ handle' = [handle EXCEPT ![t] = NoObj]
    /\ Goto(t, "end")
    /\ UNCHANGED <<key, refcount, cleanup, complete, m_len, cacheVars, atomics, url>>

\* decrement_refcount without atomics: both under the lock.
DropLocked(t) ==
    /\ ~atomics
    /\ pc[t] = "drop" \/ (pc[t] = "end" /\ held[t] # <<>> /\ (held[t] # <<>> => complete[Last(held[t])]))
    /\ LET o == Last(held[t]) IN
        /\ refcount' = [refcount EXCEPT ![o] = @ - 1]
        /\ IF cleanup[o] /\ refcount'[o] = 0 THEN heap' = FreedHeap({o}) ELSE UNCHANGED heap
    /\ held' = [held EXCEPT ![t] = Front(@)]
    /\ handle' = [handle EXCEPT ![t] = NoObj]
    /\ Goto(t, "end")
    /\ UNCHANGED <<key, cleanup, complete, m_len, cacheVars, atomics, url>>

\* The request is done; the thread waits for the next one.
EndRequest(t) ==
    /\ pc[t] = "end" /\ held[t] = <<>>
    /\ Goto(t, "idle")
    /\ handle' = [handle EXCEPT ![t] = NoObj]
    /\ url' = [url EXCEPT ![t] = CHOOSE k \in Keys : TRUE]
    /\ UNCHANGED <<objectVars, cacheVars, atomics, held>>
-----------------------------------------------------------------------------
Finish(t) ==
    \/ DropIncomplete(t) \/ Drop(t) \/ CheckCleanup(t) \/ DropLocked(t) \/ EndRequest(t)
Answer(t) ==
    \/ Respond(t) \/ Uncacheable(t) \/ RemoveUrlDrop(t) \/ RemoveEntity(t)
    \/ CreateEntity(t) \/ CreateDeclined(t) \/ CorrectSize(t) \/ Complete(t) \/ WriteFails(t)
Next ==
    \E t \in Threads : OpenEntity(t) \/ NoStore(t) \/ Answer(t) \/ Finish(t)

Spec == Init /\ [][Next]_vars
-----------------------------------------------------------------------------
(***************************************************************************)
(* Properties.                                                             *)
(***************************************************************************)
CleanupNotCached ==
    \A o \in Objects : heap[o] = "live" => (cleanup[o] <=> o \notin queue)

TableMatchesQueue ==
    /\ \A o \in queue : table[key[o]] = o
    /\ \A k \in Keys : table[k] # NoObj => table[k] \in queue /\ key[table[k]] = k

SizeExact ==
    /\ current_size = SizeOf(queue, m_len) /\ current_size <= MaxSize
    /\ Cardinality(queue) <= MaxCount

\* The cleanup flag is never set on an object in the hash table, and an object
\* that lives without it is there (remove_url); the hash table and the priority
\* queue hold the same entries, a key once; and current_size is the sum of
\* the sizes of the entries although the size of an entry changes while it is
\* cached or ejected (write_body), so that the limits of the cache are kept.
CacheConsistent == CleanupNotCached /\ TableMatchesQueue /\ SizeExact

\* The references to an object: each has a place among the cleanups of a
\* request, which are two at most; that of remove_url comes before them.
Refers(t, i, o) ==
    IF i = 0 THEN pc[t] = "urldrop" /\ handle[t] = o
    ELSE /\ i \in DOMAIN held[t] /\ held[t][i] = o
         /\ ~(pc[t] = "check" /\ i = Len(held[t]))
References(o) == {r \in Threads \X (0..2) : Refers(r[1], r[2], o)}

RefcountExact == \A o \in Objects : heap[o] = "live" => refcount[o] = Cardinality(References(o))

NotLeaked ==
    \A o \in Objects :
        heap[o] = "live" => o \in queue \/ \E t \in Threads :
            o \in Range(held[t]) \/ (pc[t] = "urldrop" /\ o = handle[t])

\* The reference count of an object is the number of references the requests
\* own, and an object that has left the cache and that nobody is about to give
\* back has been freed: nothing is leaked (decrement_refcount, remove_url and
\* memcache_cache_free).
ReferencesExact == RefcountExact /\ NotLeaked

\* Where the counts are changed under the lock: what a request or the cache
\* refers to is not freed, nor is an object freed a second time.
HeldLive ==
    ~atomics =>
        /\ \A t \in Threads : \A o \in Owned(t) : heap[o] = "live"
        /\ \A o \in queue : heap[o] = "live"
        /\ \A o \in Objects : heap[o] # "twice"
=============================================================================
