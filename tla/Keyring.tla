-------------------------------- MODULE Keyring -------------------------------
(***************************************************************************)
(* One credential in ChunkedKeyringStore (src/auth/keyring_store.rs): a    *)
(* value too large for one entry of the operating system's store is split  *)
(* over several, and a marker in the primary entry says into how many and  *)
(* how long it is altogether.  Entries are written one by one; sign-ins,   *)
(* refreshes and sign-outs follow each other, and each may die, or be      *)
(* refused by the store, between any two entries.  Only the Windows build  *)
(* splits values (chunk_writes).                                           *)
(***************************************************************************)
EXTENDS Naturals, Sequences

CONSTANTS
  Values,     \* token bundles
  Unit,       \* a bundle's length fills entries of this many units
  MaxChunks,  \* entries a bundle may need
  Size(_),    \* length of a bundle, in units
  None        \* no such entry

Indices == 1..MaxChunks

VARIABLES
  primary,  \* the primary entry: None, a plain value or a marker
  chunk,    \* per index: None, or the part of a value
  todo      \* the entries the running operation has still to write

vars == <<primary, chunk, todo>>

Init == primary = None /\ chunk = [i \in Indices |-> None] /\ todo = <<>>

-----------------------------------------------------------------------------
(* split_chunks: the parts of a value, all but the last of them full.      *)
Count(v) == (Size(v) + Unit - 1) \div Unit
Part(v, i) == [of |-> v, index |-> i,
               len |-> IF i < Count(v) THEN Unit ELSE Size(v) - (i - 1) * Unit]

Plain(v)  == [chunks |-> 0, value |-> v, len |-> Size(v)]
Marker(v) == [chunks |-> Count(v), value |-> None, len |-> Size(v)]

(* stored_chunk_count.                                                     *)
Stored == IF primary = None THEN 0 ELSE primary.chunks

Write(i, content) == [entry |-> i, content |-> content]
Deletes(from, to) == [n \in 1..(IF to < from THEN 0 ELSE to + 1 - from)
                        |-> Write(from + n - 1, None)]

(* set: chunks first, marker last, then what an earlier value left over.   *)
Set(v) ==
  /\ todo = <<>>
  /\ todo' = IF Count(v) = 1
             THEN <<Write(0, Plain(v))>> \o Deletes(1, Stored)
             ELSE [i \in 1..Count(v) |-> Write(i, Part(v, i))]
                    \o <<Write(0, Marker(v))>> \o Deletes(Count(v) + 1, Stored)
  /\ UNCHANGED <<primary, chunk>>

(* delete: the primary entry first.                                        *)
Delete ==
  /\ todo = <<>> /\ primary # None
  /\ todo' = <<Write(0, None)>> \o Deletes(1, Stored)
  /\ UNCHANGED <<primary, chunk>>

Entry ==
  /\ todo # <<>>
  /\ IF Head(todo).entry = 0
       THEN primary' = Head(todo).content /\ UNCHANGED chunk
       ELSE /\ chunk' = [chunk EXCEPT ![Head(todo).entry] = Head(todo).content]
            /\ UNCHANGED primary
  /\ todo' = Tail(todo)

(* The process dies, or an entry is refused.                               *)
Torn == todo # <<>> /\ todo' = <<>> /\ UNCHANGED <<primary, chunk>>

Next == (\E v \in Values : Set(v)) \/ Delete \/ Entry \/ Torn

Spec == Init /\ [][Next]_vars

-----------------------------------------------------------------------------
(* get: a plain value, or the chunks put together; None when one is        *)
(* missing or their length is not the marker's.                            *)
Lengths[n \in 0..MaxChunks] ==
  IF n = 0 THEN 0 ELSE Lengths[n - 1] + chunk[n].len

Get ==
  IF primary = None THEN None
  ELSE IF primary.chunks = 0 THEN <<Part(primary.value, 1)>>
  ELSE IF \/ \E i \in 1..primary.chunks : chunk[i] = None
          \/ Lengths[primary.chunks] # primary.len
       THEN None
       ELSE [i \in 1..primary.chunks |-> chunk[i]]

Whole(v) == [i \in 1..Count(v) |-> Part(v, i)]

(* keyring_store.rs:258-261: the length is recorded "so that a torn write  *)
(* ... leaving a stale marker describing a mix of old and new chunks - is  *)
(* detected on read instead of yielding a corrupt value": what get returns *)
(* between operations was stored as it is, or is nothing.                  *)
TornIsDetected ==
  todo = <<>> => Get \in {None} \cup {Whole(v) : v \in Values}
=============================================================================
