----------------------------- MODULE ChunkSlab -----------------------------
(***************************************************************************)
(* utils::ChunkSlab<I, T>, the storage of the task registry: chunks of     *)
(* ChunkSize entries that never move, and a free list threaded through the *)
(* empty entries.  Keys are of the integer type I with KeyLimit values, so *)
(* the pointer past the last entry of a full slab wraps to 0.              *)
(***************************************************************************)
EXTENDS Integers, FiniteSets

CONSTANTS ChunkSize,  \* CHUNK_SIZE
          MaxChunks,  \* the chunks that the key type can address
          Values,     \* the values of type T
          NoValue     \* what an Entry::Empty holds

ASSUME SlabAssumption == /\ ChunkSize \in Nat \ {0, 1}
                         /\ MaxChunks \in Nat \ {0}
                         /\ NoValue \notin Values

KeyLimit == MaxChunks * ChunkSize   \* I::max_value() + 1
Keys == 0 .. KeyLimit - 1

VARIABLES chunks,   \* entries.len()
          content,  \* content[k]: v for Entry::Full(v), NoValue for Entry::Empty
          link,     \* link[k]: i for Entry::Empty(i), 0 for the others
          len,      \* ChunkSlab::len
          next,     \* ChunkSlab::next
          scan      \* the key retain is at, or Idle

vars == <<chunks, content, link, len, next, scan>>

Idle == -1
capacity == chunks * ChunkSize
Full == {k \in Keys : content[k] # NoValue}

TypeOK == /\ chunks \in 0 .. MaxChunks
          /\ content \in [Keys -> Values \cup {NoValue}]
          /\ link \in [Keys -> Keys]
          /\ len \in 0 .. KeyLimit
          /\ next \in Keys
          /\ scan \in Keys \cup {Idle}

Init == /\ chunks = 0
        /\ content = [k \in Keys |-> NoValue]
        /\ link = [k \in Keys |-> 0]
        /\ len = 0
        /\ next = 0
        /\ scan = Idle

\* insert panics with "ChunkSlab size overflow." when len is KeyLimit.
MayInsert == scan = Idle /\ len < KeyLimit

\* Mutant: a key type that does not wrap.
TruncateNot(i) == i

\* I::from_index truncates.
Truncate(i) == i % KeyLimit

\* Mutant: the loop over data[1..] starts one key too early.
InsertGrowLinksSelf(v) ==
  /\ MayInsert
  /\ next = capacity
  /\ len' = len + 1
  /\ chunks' = chunks + 1
  /\ content' = [content EXCEPT ![next] = v]
  /\ link' = [k \in Keys |-> IF k > next /\ k < next + ChunkSize THEN k ELSE link[k]]
  /\ next' = next + 1
  /\ UNCHANGED scan

\* insert, no free entry: a new chunk, Chunk::init(key, val).
InsertGrow(v) ==
  /\ MayInsert
  /\ next = capacity
  /\ len' = len + 1
  /\ chunks' = chunks + 1
  /\ content' = [content EXCEPT ![next] = v]
  /\ link' = [k \in Keys |-> IF k > next /\ k < next + ChunkSize
                               THEN Truncate(k + 1) ELSE link[k]]
  /\ next' = next + 1
  /\ UNCHANGED scan

\* Mutant: the free list does not advance.
InsertReuseStays(v) ==
  /\ MayInsert
  /\ next # capacity
  /\ len' = len + 1
  /\ content' = [content EXCEPT ![next] = v]
  /\ UNCHANGED <<chunks, link, next, scan>>

\* insert, the first entry of the free list.
InsertReuse(v) ==
  /\ MayInsert
  /\ next # capacity
  /\ len' = len + 1
  /\ content' = [content EXCEPT ![next] = v]
  /\ link' = [link EXCEPT ![next] = 0]
  /\ next' = link[next]
  /\ UNCHANGED <<chunks, scan>>

\* Mutant: the free list is cut behind the removed key.
VacateCut(k) == /\ content[k] # NoValue
                /\ content' = [content EXCEPT ![k] = NoValue]
                /\ link' = [link EXCEPT ![k] = Truncate(capacity)]
                /\ len' = len - 1
                /\ next' = k

\* Mutant: the length is not updated.
VacateUncounted(k) == /\ content[k] # NoValue
                      /\ content' = [content EXCEPT ![k] = NoValue]
                      /\ link' = [link EXCEPT ![k] = next]
                      /\ next' = k
                      /\ UNCHANGED len

\* An entry becomes empty and the first of the free list.
Vacate(k) == /\ content[k] # NoValue
             /\ content' = [content EXCEPT ![k] = NoValue]
             /\ link' = [link EXCEPT ![k] = next]
             /\ len' = len - 1
             /\ next' = k

\* remove; of an empty or absent entry it changes nothing.
Remove(k) == /\ scan = Idle
             /\ Vacate(k)
             /\ UNCHANGED <<chunks, scan>>

Clear == /\ scan = Idle
         /\ chunks' = 0
         /\ content' = [k \in Keys |-> NoValue]
         /\ link' = [k \in Keys |-> 0]
         /\ len' = 0
         /\ next' = 0
         /\ UNCHANGED scan

\* retain visits the entries in order and asks the closure about full ones.
RetainBegin == /\ scan = Idle
               /\ chunks > 0
               /\ scan' = 0
               /\ UNCHANGED <<chunks, content, link, len, next>>

Advance == scan' = IF scan + 1 < capacity THEN scan + 1 ELSE Idle

RetainKeep == /\ scan # Idle
              /\ Advance
              /\ UNCHANGED <<chunks, content, link, len, next>>

RetainDrop == /\ scan # Idle
              /\ Vacate(scan)
              /\ Advance
              /\ UNCHANGED chunks

\* The closure panics: what was visited stays as it is.
RetainPanics == /\ scan # Idle
                /\ content[scan] # NoValue
                /\ scan' = Idle
                /\ UNCHANGED <<chunks, content, link, len, next>>

Next == \/ \E v \in Values : InsertGrow(v) \/ InsertReuse(v)
        \/ \E k \in Keys : Remove(k)
        \/ Clear \/ RetainBegin \/ RetainKeep \/ RetainDrop \/ RetainPanics

Spec == Init /\ [][Next]_vars
----------------------------------------------------------------------------
(* The `unreachable!()` of insert: the key it is about to reuse belongs to *)
(* an empty entry of the slab, after any sequence of operations, also when *)
(* the pointer past the end has wrapped.                                   *)
NextIsFree == len < KeyLimit => \/ next = capacity
                                \/ next < capacity /\ content[next] = NoValue

(* No entry is lost from the free list: the slab grows only when all its   *)
(* entries are full, and is full when insert reports an overflow.          *)
NoEntryLost == /\ next = capacity => \A k \in Keys : k < capacity => content[k] # NoValue
               /\ len = KeyLimit => \A k \in Keys : content[k] # NoValue

(* len(), which the wheel compares with the count of suspended tasks, is   *)
(* the number of full entries between the operations, also after a retain  *)
(* whose closure panicked.  Inside a retain the docs of the registry       *)
(* promise nothing ("when iterating elements, the count is not updated");  *)
(* the code counts down with each entry it drops.                          *)
LenExact == scan = Idle => len = Cardinality(Full)

Map == INSTANCE SlabMap WITH map <- content

(* The slab is a map: insert never overwrites an entry, and no operation   *)
(* changes the value of another key.                                       *)
IsMap == Map!Spec
=============================================================================
