---------------------------- MODULE KeyValueStore ----------------------------
(***************************************************************************)
(* The persistent key/value store of subsys/storage                        *)
(* (fd_key_value_store.c): a circular log of flash pages.  A page holds    *)
(* key/value data growing up from its start and fixed size metadata        *)
(* records growing down from its end.  A pair is first written as data and *)
(* then committed by its metadata record.  When the current page cannot    *)
(* hold a new pair the store advances to the next page and, if that was    *)
(* the last erased page, copies the live pairs of the page after it and    *)
(* erases that page.                                                       *)
(*                                                                         *)
(* One action is the code between two writes of the flash, so that a power *)
(* loss (Reboot) can fall between any two of them.  fd_assert only logs,   *)
(* so no action is guarded by an assertion of the code.                    *)
(***************************************************************************)
EXTENDS Integers, Sequences

CONSTANTS
  Keys,         \* the keys in use
  Values,       \* the messages in use, identified with their encodings
  KeySize,      \* [Keys -> Nat]    strlen(key)
  ValueSize,    \* [Values -> Nat]  the encoded size of a message
  PageCount,    \* page_count: the pages of persist_partition
  PageSize,     \* page_size in bytes
  PowerLossAt,  \* the points of PC at which the power may fail
  NULL,         \* no key, no value
  Garbage       \* bytes read where the flash was written twice

MetadataSize == 12  \* sizeof(fd_key_value_store_metadata_t)
Pages == 0 .. PageCount - 1
PC == {"idle", "allocate", "commit", "collect", "collect_commit", "erase"}

ASSUME ConstantsAssumption ==
  /\ PageCount \in Nat /\ PageCount >= 2
  /\ PageSize \in Nat /\ PageSize >= MetadataSize
  /\ KeySize \in [Keys -> Nat]
  /\ ValueSize \in [Values -> Nat]
  /\ NULL \notin Keys \cup Values
  /\ Garbage \notin Keys \cup Values \cup {NULL}
  /\ PowerLossAt \subseteq PC

VARIABLES
  flash,             \* per page: its metadata records, oldest first, and the
                     \* bytes programmed past the data of the last record
  current,           \* fd_key_value_store.current
  is_full,           \* fd_key_value_store.is_full
  pc,                \* where the one thread using the store is
  request,           \* the pair being added
  index,             \* the loop index of garbage_collect and of erase
  collection_count,  \* the local of allocate
  landed             \* the data just written, as the flash now reads it

vars == << flash, current, is_full, pc, request, index, collection_count, landed >>

Request == [key : Keys, value : Values \cup {NULL}]
Data == [key : Keys \cup {Garbage}, value : Values \cup {NULL, Garbage}]
Metadata == [key : Keys \cup {Garbage}, value : Values \cup {NULL, Garbage},
             removed : BOOLEAN, offset : Nat, size : Nat]
Nothing == [key |-> NULL, value |-> NULL]
ErasedPage == [log |-> << >>, torn |-> 0]

TypeOK ==
  /\ flash \in [Pages -> [log : Seq(Metadata), torn : Nat]]
  /\ current \in [page : Pages, data_byte_count : Nat, metadata_count : Nat]
  /\ is_full \in BOOLEAN
  /\ pc \in PC
  /\ request \in Request \cup {Nothing}
  /\ index \in Nat
  /\ collection_count \in 0 .. PageCount
  /\ landed \in Data \cup {Nothing}
-----------------------------------------------------------------------------
(* Reading the flash.                                                      *)

\* Rounds up to the minimum write size of the flash, 4 bytes.
get_write_size(size) == 4 * ((size + 3) \div 4)

\* The records before the first one whose flags are erased.
get_metadata_count(p) ==
  IF Len(flash[p].log) < PageSize \div MetadataSize THEN Len(flash[p].log) ELSE 0

is_page_empty(p) == flash[p].log = << >>

\* Where the data of the next record of a page goes.
DataEnd(log) ==
  IF log = << >> THEN 0
  ELSE log[Len(log)].offset + get_write_size(log[Len(log)].size)

NextPage(p) == (p + 1) % PageCount

\* The newest record of k on page p, if there is one, is i.
IsNewest(p, k, i) ==
  /\ i \in 1 .. get_metadata_count(p)
  /\ flash[p].log[i].key = k
  /\ \A j \in 1 .. get_metadata_count(p) : flash[p].log[j].key = k => j <= i

\* lookup_on_page(p, k) # NULL.
LiveOn(p, k) ==
  \E i \in 1 .. get_metadata_count(p) :
    IsNewest(p, k, i) /\ ~flash[p].log[i].removed

lookup_on_page(p, k) ==
  flash[p].log[CHOOSE i \in 1 .. get_metadata_count(p) : IsNewest(p, k, i)].value

\* fd_key_value_store_has, fd_key_value_store_is_set.
has(k) == \E p \in Pages : LiveOn(p, k)

\* Mutant: the search starts from the oldest page.
BackFromOldest(d) == (current.page + 1 + d) % PageCount

\* The page d pages before the current one.
Back(d) == (current.page + PageCount - d) % PageCount

\* Walks back from the current page; a removed record ends the search of its
\* own page only.
lookup(k) ==
  IF has(k)
  THEN lookup_on_page(Back(CHOOSE d \in 0 .. PageCount - 1 :
                             /\ LiveOn(Back(d), k)
                             /\ \A e \in 0 .. d - 1 : ~LiveOn(Back(e), k)), k)
  ELSE NULL

\* Compares the encoding of v with the stored bytes; with no stored value the
\* comparison is with zero bytes.
is_set_to(k, v) == IF has(k) THEN lookup(k) = v ELSE ValueSize[v] = 0

current_free_bytes ==
  PageSize - (current.data_byte_count + current.metadata_count * MetadataSize)
-----------------------------------------------------------------------------
(* Finding the current page after a restart or an erase.                   *)

Occupied == {p \in Pages : ~is_page_empty(p)}

\* Page e is the first empty page after the lowest numbered occupied page.
IsFirstEmpty(e) ==
  \E first \in Occupied, d \in 1 .. PageCount - 1 :
    /\ \A p \in Occupied : first <= p
    /\ e = (first + d) % PageCount
    /\ is_page_empty(e)
    /\ \A c \in 1 .. d - 1 : ~is_page_empty((first + c) % PageCount)

\* Mutant: the first occupied page is taken for the current one.
get_current_page_first(found, page) ==
  \/ Occupied = {} /\ found /\ page = 0
  \/ Occupied = Pages /\ ~found /\ page = 0
  \/ /\ found
     /\ page \in Occupied
     /\ Occupied # Pages
     /\ \A p \in Occupied : page <= p

\* What get_current_page returns, and the page it finds.
get_current_page(found, page) ==
  \/ Occupied = {} /\ found /\ page = 0
  \/ Occupied = Pages /\ ~found /\ page = 0
  \/ /\ found
     /\ \E e \in Pages :
          IsFirstEmpty(e) /\ page = (e + PageCount - 1) % PageCount

\* Assigns current and is_full from what the flash holds.
update_current ==
  \E found \in BOOLEAN, page \in Pages :
    /\ get_current_page(found, page)
    /\ is_full' = ~found
    /\ current' =
         [page |-> page,
          metadata_count |-> IF found THEN get_metadata_count(page) ELSE 0,
          data_byte_count |->
            IF found /\ get_metadata_count(page) > 0 THEN DataEnd(flash[page].log) ELSE 0]
-----------------------------------------------------------------------------
(* Writing the flash.                                                      *)

\* Programs size bytes of a key and a value past the data of the current page.
\* Where bytes were already programmed the flash reads as neither.
WriteData(k, v, size) ==
  LET n == get_write_size(size)
      torn == flash[current.page].torn
      overlaps == torn > 0 /\ n > 0
  IN  /\ landed' \in [key : IF overlaps THEN {k, Garbage} ELSE {k},
                      value : IF overlaps /\ v # NULL THEN {v, Garbage} ELSE {v}]
      /\ flash' = [flash EXCEPT ![current.page].torn = IF n > torn THEN n ELSE torn]

\* fd_key_value_store_set_commit: one more metadata record on the current page.
set_commit(size, removed) ==
  LET n == get_write_size(size)
      record == [key |-> landed.key, value |-> landed.value, removed |-> removed,
                 offset |-> current.data_byte_count, size |-> size]
  IN  /\ flash' = [flash EXCEPT ![current.page] =
                     [log |-> Append(@.log, record),
                      torn |-> @.torn - n]]
      /\ current' = [current EXCEPT !.data_byte_count = @ + n,
                                    !.metadata_count = @ + 1]
      /\ landed' = Nothing

nvm_erase(p) == flash' = [flash EXCEPT ![p] = ErasedPage]
-----------------------------------------------------------------------------
(* Adding a pair: allocate, write the data, commit.                        *)

\* The size of the pair being added; a removal has a key and no value.
RequestSize ==
  KeySize[request.key] + (IF request.value = NULL THEN 0 ELSE ValueSize[request.value])

\* allocate_key_value: data, one metadata record and the end marker.
Required == get_write_size(RequestSize) + 2 * MetadataSize

Begin(k, v) ==
  /\ pc = "idle"
  /\ ~is_full
  /\ request' = [key |-> k, value |-> v]
  /\ pc' = "allocate"
  /\ UNCHANGED << flash, current, is_full, index, collection_count, landed >>

\* A set of the value the key already has returns early.
set(k, v) == ~is_set_to(k, v) /\ Begin(k, v)

remove(k) == has(k) /\ Begin(k, NULL)

\* The pair fits: its data is written.
AllocateFits ==
  /\ pc = "allocate"
  /\ Required <= current_free_bytes
  /\ WriteData(request.key, request.value, RequestSize)
  /\ pc' = "commit"
  /\ collection_count' = 0
  /\ UNCHANGED << current, is_full, request, index >>

\* Mutant: the page just advanced to is tested instead of the one after it.
SkipPageEmptyHere(page) == is_page_empty(page)

\* There is an erased page after the page allocate advances to.
SkipPageEmpty(page) == is_page_empty(NextPage(page))

\* The pair does not fit: advance_current_page and, when the page after it is
\* occupied, enter garbage_collect.
AllocateAdvance ==
  LET page == NextPage(current.page)
  IN  /\ pc = "allocate"
      /\ Required > current_free_bytes
      /\ current' = [page |-> page, data_byte_count |-> 0, metadata_count |-> 0]
      /\ pc' = IF SkipPageEmpty(page) THEN "allocate" ELSE "collect"
      /\ index' = IF SkipPageEmpty(page) THEN 0 ELSE 1
      /\ UNCHANGED << flash, is_full, request, collection_count, landed >>

\* The metadata of the new pair: add, and with it set or remove, returns true.
Commit ==
  /\ pc = "commit"
  /\ set_commit(RequestSize, request.value = NULL)
  /\ pc' = "idle"
  /\ request' = Nothing
  /\ UNCHANGED << is_full, index, collection_count >>
-----------------------------------------------------------------------------
(* garbage_collect: the page after the current one is emptied into it.     *)

Source == NextPage(current.page)
SourceRecord == flash[Source].log[index]

\* Mutant: a record is skipped when any page has its key.
IsSkippedElsewhere(r) == r.removed \/ has(r.key)

\* The record is not copied: it is a removal, its key was already copied, or no
\* page has the key.  A key that reads as garbage matches only itself.
IsSkipped(r) ==
  \/ r.removed
  \/ /\ r.key # Garbage
     /\ LiveOn(current.page, r.key) \/ ~has(r.key)

CollectSkip ==
  /\ pc = "collect"
  /\ index <= get_metadata_count(Source)
  /\ IsSkipped(SourceRecord)
  /\ index' = index + 1
  /\ UNCHANGED << flash, current, is_full, pc, request, collection_count, landed >>

\* The key and the value of this record are written to the current page.
CollectCopy ==
  /\ pc = "collect"
  /\ index <= get_metadata_count(Source)
  /\ ~IsSkipped(SourceRecord)
  /\ WriteData(SourceRecord.key, SourceRecord.value, SourceRecord.size)
  /\ pc' = "collect_commit"
  /\ UNCHANGED << current, is_full, request, index, collection_count >>

CollectCommit ==
  /\ pc = "collect_commit"
  /\ set_commit(SourceRecord.size, FALSE)
  /\ index' = index + 1
  /\ pc' = "collect"
  /\ UNCHANGED << is_full, request, collection_count >>

\* Mutant: a collection is not counted.
CollectionsUncounted == collection_count

Collections == collection_count + 1

GivesUp == Collections > PageCount

\* The page is erased and allocate looks again, or gives up.
CollectErase ==
  /\ pc = "collect"
  /\ index > get_metadata_count(Source)
  /\ nvm_erase(Source)
  /\ index' = 0
  /\ IF GivesUp
     THEN /\ is_full' = TRUE
          /\ pc' = "idle"
          /\ request' = Nothing
          /\ collection_count' = 0
     ELSE /\ pc' = "allocate"
          /\ collection_count' = Collections
          /\ UNCHANGED << is_full, request >>
  /\ UNCHANGED << current, landed >>
-----------------------------------------------------------------------------
(* Erasing the store; losing the power.                                    *)

erase ==
  /\ pc = "idle"
  /\ pc' = "erase"
  /\ index' = 0
  /\ UNCHANGED << flash, current, is_full, request, collection_count, landed >>

ErasePage ==
  /\ pc = "erase"
  /\ index < PageCount
  /\ nvm_erase(index)
  /\ index' = index + 1
  /\ UNCHANGED << current, is_full, pc, request, collection_count, landed >>

EraseEnd ==
  /\ pc = "erase"
  /\ index = PageCount
  /\ update_current
  /\ pc' = "idle"
  /\ index' = 0
  /\ UNCHANGED << flash, request, collection_count, landed >>

\* The power fails and fd_key_value_store_initialize runs on what is in flash.
Reboot ==
  /\ pc \in PowerLossAt
  /\ update_current
  /\ pc' = "idle"
  /\ request' = Nothing
  /\ index' = 0
  /\ collection_count' = 0
  /\ landed' = Nothing
  /\ UNCHANGED flash
-----------------------------------------------------------------------------
Init ==
  /\ flash = [p \in Pages |-> ErasedPage]
  /\ current = [page |-> 0, data_byte_count |-> 0, metadata_count |-> 0]
  /\ is_full = FALSE
  /\ pc = "idle"
  /\ request = Nothing
  /\ index = 0
  /\ collection_count = 0
  /\ landed = Nothing

Step ==
  \/ AllocateFits \/ AllocateAdvance \/ Commit
  \/ CollectSkip \/ CollectCopy \/ CollectCommit \/ CollectErase
  \/ ErasePage \/ EraseEnd

Next ==
  \/ \E k \in Keys, v \in Values : set(k, v)
  \/ \E k \in Keys : remove(k)
  \/ erase
  \/ Step
  \/ Reboot

Spec == Init /\ [][Next]_vars

\* The thread that called the store runs until the call returns.
FairSpec == Spec /\ WF_vars(Step)
-----------------------------------------------------------------------------
(* Properties.                                                             *)

\* The first byte after the data that the records of a page describe.
EndOfData(log) ==
  IF log = << >> THEN 0
  ELSE log[Len(log)].offset + get_write_size(log[Len(log)].size)

\* Every page is laid out as its header comment says: records describe
\* consecutive data from the start of the page, and that data, with whatever a
\* lost write left after it, stays clear of the metadata records and of one
\* erased record that ends them.
Layout ==
  \A p \in Pages :
    LET log == flash[p].log
    IN  /\ \A i \in 1 .. Len(log) :
             log[i].offset = IF i = 1 THEN 0
                             ELSE log[i-1].offset + get_write_size(log[i-1].size)
        /\ EndOfData(log) + flash[p].torn + (Len(log) + 1) * MetadataSize <= PageSize

\* What the store remembers of the current page (current.data_byte_count and
\* current.metadata_count, where the next pair will be written) is what the
\* flash holds, after any sequence of calls and restarts.
CacheAgrees ==
  ~is_full /\ pc # "erase" =>
    LET log == flash[current.page].log
    IN  /\ current.metadata_count = Len(log)
        /\ current.data_byte_count = EndOfData(log)

\* Unless the store is full, the page after the current one is free to advance to
\* (the assertion of advance_current_page), and while it is collected it is not
\* empty (the assertion of garbage_collect).
OnePageErased ==
  ~is_full =>
    (is_page_empty(NextPage(current.page)) <=> pc \notin {"collect", "collect_commit"})

\* The three together: wherever calls, collections and power losses fall, the next
\* write goes where the flash is erased and clear of the records, and there is a page
\* to collect into.
Structure == Layout /\ CacheAgrees /\ OnePageErased

\* Every call returns: allocate does not collect garbage for ever.
CallsReturn == (pc # "idle") ~> (pc = "idle")

\* Whether a key is in the store changes only by a set or remove of that key or
\* by erasing the store: neither garbage collection nor a restart loses a key or
\* brings one back.
PresencePreserved ==
  [][\A k \in Keys :
       has(k)' # has(k) => pc = "erase" \/ (pc = "commit" /\ request.key = k)]_vars

\* A restart outside garbage collection finds the page that was current, so every
\* key reads as it did before.
RestartKeepsValues ==
  [][Reboot /\ pc \notin {"collect", "collect_commit"}
       => \A k \in Keys : lookup(k)' = lookup(k)]_vars

\* A get after a set that returned true reads the value that was set, whatever
\* the pages held before.
SetIsRead ==
  [][Commit /\ request.value # NULL
       => \A k \in {request.key} : lookup(k)' = request.value]_vars

\* Garbage collection copies the live objects of the first used page (comment at
\* the head of fd_key_value_store.c): no key reads differently after it.
CollectKeepsValues ==
  [][CollectCopy \/ CollectCommit \/ CollectErase
       => \A k \in Keys : lookup(k)' = lookup(k)]_vars

\* A get after a remove that returned true fails (the tests of the store assert
\* !result after a remove).
RemoveIsRead ==
  [][Commit /\ request.value = NULL
       => \A k \in {request.key} : ~has(k)']_vars

\* A restart finds the store usable: the tests of the store assert !is_full after
\* every update_current.
RestartNotFull == [][Reboot => ~is_full']_vars

\* A page without metadata records is erased: is_page_empty checks the page and
\* asserts that it is actually empty.
EmptyPagesAreErased ==
  pc = "idle" => \A p \in Pages : is_page_empty(p) => flash[p].torn = 0
=============================================================================
