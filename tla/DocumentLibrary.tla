-------------------------- MODULE DocumentLibrary --------------------------
(***************************************************************************)
(* What the document store promises: an upload is answered, and afterwards *)
(* puts a whole document within reach of searches, or none at all; none    *)
(* after an answer that speaks of a failure.  A search finds pieces of its *)
(* own tenant's and project's documents only, no more than it may return,  *)
(* and misses one only when it has as many as that.                        *)
(***************************************************************************)
EXTENDS Chunker, FiniteSets

CONSTANTS Uploads, Readers, Tenants, Projects, Lengths, Attempts, TopK, Absent

VARIABLES
  told,   \* the answer each upload was given
  shelf,  \* the searchable document each upload has brought
  found   \* the pieces each reader was given

libraryVars == <<told, shelf, found>>

\* Answers after which a document may appear.
Promises == {"indexed", "ok", "completed"}
Regrets == {"index_failed", "failed", "400", "403", "413", "415", "422", "500", "503"}

Books == [ tenant : Tenants, project : Projects, copy : Attempts, length : Lengths \ {0} ]

Pages(u) ==
  { <<u, shelf[u].copy, i>> : i \in 0..(ChunkCount(shelf[u].length) - 1) }

Reach(t, p) ==
  UNION { Pages(u) : u \in { v \in Uploads :
    shelf[v] # Absent /\ shelf[v].tenant = t /\ shelf[v].project = p } }

Tell(u, answer) ==
  /\ told[u] = "none"
  /\ told' = [told EXCEPT ![u] = answer]
  /\ UNCHANGED <<shelf, found>>

Shelve(u, book) ==
  /\ told[u] \in Promises
  /\ shelf[u] = Absent
  /\ shelf' = [shelf EXCEPT ![u] = book]
  /\ UNCHANGED <<told, found>>

Look(s, t, p) ==
  /\ \E pages \in SUBSET Reach(t, p) :
       /\ Cardinality(pages) <= TopK
       /\ pages = Reach(t, p) \/ Cardinality(pages) = TopK
       /\ found' = [found EXCEPT ![s] = pages]
  /\ UNCHANGED <<told, shelf>>

LibraryInit ==
  /\ told = [u \in Uploads |-> "none"]
  /\ shelf = [u \in Uploads |-> Absent]
  /\ found = [s \in Readers |-> {}]

LibraryNext ==
  \/ \E u \in Uploads, answer \in Promises \cup Regrets : Tell(u, answer)
  \/ \E u \in Uploads, book \in Books : Shelve(u, book)
  \/ \E s \in Readers, t \in Tenants, p \in Projects : Look(s, t, p)

LibrarySpec == LibraryInit /\ [][LibraryNext]_libraryVars
=============================================================================
