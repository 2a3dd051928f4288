----------------------------- MODULE LastImage ------------------------------
(***************************************************************************)
(* The last-image cache of one connection in src/nabud/conn.c:            *)
(* conn_get_last_image(), conn_set_last_image() and                       *)
(* conn_set_last_image_if(), each one critical section of conn->mutex,    *)
(* used by a caller that caches a freshly loaded image the way spec 4.3   *)
(* and 8.6 describe (the image layer is not under src/): read the cached  *)
(* image, install the new one if the cache still holds what was read, and *)
(* release whichever reference the cache did not take.  Images are model  *)
(* values with a reference count.                                         *)
(***************************************************************************)
EXTENDS Naturals

CONSTANTS
    Images,   \* image objects the loader can hand out
    NULL      \* a NULL pointer

VARIABLES
    last,     \* conn->l_last_image
    refs,     \* each image's reference count
    used,     \* images the loader has handed out
    held,     \* the caller's own reference, or NULL
    match,    \* what the caller read with conn_get_last_image()
    pc        \* the caller: "idle", "get", "cache"

vars == <<last, refs, used, held, match, pc>>

Init ==
    /\ last = NULL
    /\ refs = [i \in Images |-> 0]
    /\ used = {}
    /\ held = NULL
    /\ match = NULL
    /\ pc = "idle"

\* image_release() of a reference (NULL is ignored).
Release(r, i) == IF i = NULL THEN r ELSE [r EXCEPT ![i] = @ - 1]

\* conn_set_last_image_if(conn, m, img): under the lock, if l_last_image
\* is m install img and return the old value, else return NULL.  The pair
\* is <<l_last_image afterwards, value returned>>.
conn_set_last_image_if(cur, m, img) ==
    IF cur = m THEN <<img, cur>> ELSE <<cur, NULL>>

-----------------------------------------------------------------------------

\* image_load(): a fresh image with one reference, the caller's.
Load(i) ==
    /\ pc = "idle"
    /\ i \notin used
    /\ used' = used \cup {i}
    /\ refs' = [refs EXCEPT ![i] = 1]
    /\ held' = i
    /\ pc' = "get"
    /\ UNCHANGED <<last, match>>

\* conn_get_last_image(): read l_last_image under the lock.
GetLast ==
    /\ pc = "get"
    /\ match' = last
    /\ pc' = "cache"
    /\ UNCHANGED <<last, refs, used, held>>

\* conn_set_last_image_if(conn, match, held), then the caller trusts the
\* result as spec 8.6 states it: non-NULL means the cache took held and
\* returned the old image, whose reference is released; NULL means it
\* did not, and held is released.
CacheIf ==
    /\ pc = "cache"
    /\ LET r == conn_set_last_image_if(last, match, held)
       IN  /\ last' = r[1]
           /\ refs' = IF r[2] # NULL THEN Release(refs, r[2])
                                     ELSE Release(refs, held)
    /\ held' = NULL
    /\ pc' = "idle"
    /\ UNCHANGED <<used, match>>

\* conn_set_last_image(conn, NULL) as conn_destroy() does: drop the cache
\* and release what it held.
Drop ==
    /\ pc = "idle"
    /\ last' = NULL
    /\ refs' = Release(refs, last)
    /\ UNCHANGED <<used, held, match, pc>>

Next ==
    \/ \E i \in Images : Load(i)
    \/ GetLast \/ CacheIf \/ Drop

Spec == Init /\ [][Next]_vars

-----------------------------------------------------------------------------

TypeOK ==
    /\ last \in Images \cup {NULL}
    /\ refs \in [Images -> Nat]
    /\ used \subseteq Images
    /\ held \in Images \cup {NULL}
    /\ match \in Images \cup {NULL}
    /\ pc \in {"idle", "get", "cache"}

\* Spec 8.6 and 4.3: an image in l_last_image still holds a reference,
\* so a caller that trusts conn_set_last_image_if()'s result never frees
\* the image the cache keeps.
CachedImageHeld ==
    last # NULL => refs[last] > 0

=============================================================================
