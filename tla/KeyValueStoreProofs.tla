------------------------- MODULE KeyValueStoreProofs -------------------------
(***************************************************************************)
(* Proofs about KeyValueStore for every number of pages, page size and set *)
(* of keys and values: the structural invariants Layout, CacheAgrees and   *)
(* OnePageErased; that collections and restarts keep the keys; and that a  *)
(* get reads what was set, also over restarts.  The power may fail at any  *)
(* point except between the data of a pair and its metadata                *)
(* (NoTornWrites).                                                         *)
(***************************************************************************)
EXTENDS KeyValueStore, WellFoundedInduction, TLAPS

NoTornWrites == PowerLossAt \cap {"commit", "collect_commit"} = {}

Collecting == pc \in {"collect", "collect_commit"}

\* A page's records describe consecutive data that leaves room for one more
\* metadata record, the end marker.
GoodLog(log) ==
  /\ \A i \in 1 .. Len(log) :
       log[i].offset = IF i = 1 THEN 0
                       ELSE log[i-1].offset + get_write_size(log[i-1].size)
  /\ \A i \in 1 .. Len(log) : log[i].offset + get_write_size(log[i].size) <= EndOfData(log)
  /\ EndOfData(log) + (Len(log) + 1) * MetadataSize <= PageSize

LogInv == \A p \in Pages : GoodLog(flash[p].log)

\* The size of the pair whose data is written and whose metadata is not.
PendingSize == IF pc = "commit" THEN RequestSize ELSE SourceRecord.size

\* Data without metadata exists only on the current page, only between the two
\* writes of one pair.
TornInv ==
  \A p \in Pages :
    flash[p].torn = IF p = current.page /\ pc \in {"commit", "collect_commit"}
                    THEN get_write_size(PendingSize) ELSE 0

RequestInv ==
  /\ pc \in {"allocate", "commit", "collect", "collect_commit"} =>
       request \in Request /\ ~is_full
  /\ pc \in {"commit", "collect_commit"} => landed \in Data
  /\ pc = "commit" => Required <= current_free_bytes

\* Where the data of record i of a log starts, or where it would.
StartOf(log, i) == IF i <= Len(log) THEN log[i].offset ELSE EndOfData(log)

\* What was copied so far takes no more room than the records it was copied from:
\* this is why garbage_collect never has to ask whether a copy fits.
CollectInv ==
  Collecting =>
    LET log == flash[Source].log
    IN  /\ index \in 1 .. Len(log) + 1
        /\ pc = "collect_commit" => index <= Len(log)
        /\ current.metadata_count <= index - 1
        /\ current.data_byte_count <= StartOf(log, index)

IInv ==
  /\ TypeOK
  /\ LogInv
  /\ TornInv
  /\ RequestInv
  /\ CacheAgrees
  /\ OnePageErased
  /\ CollectInv
-----------------------------------------------------------------------------
(* Lemmas about the operators.                                             *)

\* Rounding up to the write size never loses bytes.
LEMMA WriteSizeNat ==
  \A n \in Nat : get_write_size(n) \in Nat /\ get_write_size(n) >= n
  BY DEF get_write_size

\* What takes no more data and no more records than something that fits, fits.
LEMMA Room ==
  \A d, e, c, l \in Nat :
    d <= e /\ c <= l /\ e + l * MetadataSize <= PageSize
      => d + c * MetadataSize <= PageSize
  BY ConstantsAssumption DEF MetadataSize

\* The next page is another page.
LEMMA NextPageFacts ==
  \A p \in Pages : NextPage(p) \in Pages /\ NextPage(p) # p
  BY ConstantsAssumption DEF NextPage, Pages

\* The page before a page is the one that page follows.
LEMMA PreviousPage ==
  \A e \in Pages : NextPage((e + PageCount - 1) % PageCount) = e
  BY ConstantsAssumption DEF NextPage, Pages

\* The end of the data of a log is a number.
LEMMA EndOfDataNat ==
  \A log \in Seq(Metadata) : EndOfData(log) \in Nat
<1> SUFFICES ASSUME NEW log \in Seq(Metadata), log # << >>
             PROVE  EndOfData(log) \in Nat
    BY DEF EndOfData
<1>1. log[Len(log)] \in Metadata
    OBVIOUS
<1>2. log[Len(log)].offset \in Nat /\ log[Len(log)].size \in Nat
    BY <1>1 DEF Metadata
<1>3. get_write_size(log[Len(log)].size) \in Nat
    BY <1>2, WriteSizeNat
<1>4. EndOfData(log) = log[Len(log)].offset + get_write_size(log[Len(log)].size)
    BY DEF EndOfData
<1> QED
    BY <1>2, <1>3, <1>4

\* With room for an end marker, get_metadata_count sees every record.
LEMMA CountIsLength ==
  ASSUME TypeOK, LogInv
  PROVE  \A p \in Pages : get_metadata_count(p) = Len(flash[p].log)
<1> SUFFICES ASSUME NEW p \in Pages
             PROVE  get_metadata_count(p) = Len(flash[p].log)
    OBVIOUS
<1> DEFINE log == flash[p].log
<1>1. log \in Seq(Metadata)
    BY DEF TypeOK
<1>2. EndOfData(log) \in Nat /\ Len(log) \in Nat
    BY <1>1, EndOfDataNat
<1>3. EndOfData(log) + (Len(log) + 1) * 12 <= PageSize
    BY DEF LogInv, GoodLog, MetadataSize
<1>4. Len(log) < PageSize \div 12
    BY <1>2, <1>3, ConstantsAssumption
<1> QED
    BY <1>4 DEF get_metadata_count, MetadataSize

\* Committing a pair at the end of the data keeps a log good when data, record and
\* end marker fit.
LEMMA AppendGood ==
  ASSUME NEW log \in Seq(Metadata), GoodLog(log),
         NEW r \in Metadata, r.offset = EndOfData(log),
         r.offset + get_write_size(r.size) + (Len(log) + 2) * MetadataSize <= PageSize
  PROVE  /\ GoodLog(Append(log, r))
         /\ EndOfData(Append(log, r)) = r.offset + get_write_size(r.size)
<1> DEFINE new == Append(log, r)
<1>1. /\ new \in Seq(Metadata)
      /\ Len(new) = Len(log) + 1
      /\ new[Len(new)] = r
      /\ \A i \in 1 .. Len(log) : new[i] = log[i]
      /\ new # << >>
    OBVIOUS
<1>2. EndOfData(new) = r.offset + get_write_size(r.size)
    BY <1>1 DEF EndOfData
<1>3. r.size \in Nat /\ r.offset \in Nat /\ get_write_size(r.size) \in Nat
    BY WriteSizeNat DEF Metadata
<1>4. EndOfData(log) <= EndOfData(new)
    BY <1>2, <1>3, EndOfDataNat
<1>5. \A i \in 1 .. Len(new) :
        new[i].offset = IF i = 1 THEN 0
                        ELSE new[i-1].offset + get_write_size(new[i-1].size)
  <2> SUFFICES ASSUME NEW i \in 1 .. Len(new)
               PROVE  new[i].offset = IF i = 1 THEN 0
                                      ELSE new[i-1].offset + get_write_size(new[i-1].size)
      OBVIOUS
  <2>1. CASE i <= Len(log)
    <3>1. i \in 1 .. Len(log) /\ (i # 1 => i - 1 \in 1 .. Len(log))
        BY <2>1
    <3>2. new[i] = log[i] /\ (i # 1 => new[i-1] = log[i-1])
        BY <1>1, <3>1
    <3> QED  BY <3>1, <3>2 DEF GoodLog
  <2>2. CASE i = Len(log) + 1
    <3>1. CASE log = << >>
        BY <1>1, <2>2, <3>1 DEF EndOfData
    <3>2. CASE log # << >>
      <4>1. Len(log) >= 1 /\ i # 1 /\ i - 1 = Len(log)
          BY <2>2, <3>2
      <4>2. new[i-1] = log[Len(log)] /\ new[i] = r
          BY <1>1, <2>2, <4>1
      <4> QED  BY <4>1, <4>2, <3>2 DEF EndOfData
    <3> QED  BY <3>1, <3>2
  <2> QED  BY <1>1, <2>1, <2>2
<1>6. \A i \in 1 .. Len(new) :
        new[i].offset + get_write_size(new[i].size) <= EndOfData(new)
  <2> SUFFICES ASSUME NEW i \in 1 .. Len(new)
               PROVE  new[i].offset + get_write_size(new[i].size) <= EndOfData(new)
      OBVIOUS
  <2>1. CASE i <= Len(log)
    <3>1. new[i] = log[i] /\ log[i] \in Metadata /\ i \in 1 .. Len(log)
        BY <1>1, <2>1
    <3>2. log[i].offset \in Nat /\ get_write_size(log[i].size) \in Nat
        BY <3>1, WriteSizeNat DEF Metadata
    <3>3. log[i].offset + get_write_size(log[i].size) <= EndOfData(log)
        BY <3>1 DEF GoodLog
    <3> QED  BY <3>1, <3>2, <3>3, <1>2, <1>3, <1>4, EndOfDataNat
  <2>2. CASE i = Len(log) + 1
      BY <1>1, <1>2, <1>3, <2>2
  <2> QED  BY <1>1, <2>1, <2>2
<1>7. EndOfData(new) + (Len(new) + 1) * MetadataSize <= PageSize
    BY <1>1, <1>2, <1>3 DEF MetadataSize
<1> QED
    BY <1>2, <1>5, <1>6, <1>7 DEF GoodLog

\* get_current_page finds a page that a page without records follows, and
\* update_current caches what that page holds.
LEMMA UpdateCurrent ==
  ASSUME TypeOK, LogInv, update_current
  PROVE  /\ current' \in [page : Pages, data_byte_count : Nat, metadata_count : Nat]
         /\ is_full' \in BOOLEAN
         /\ ~is_full' =>
              LET log == flash[current'.page].log
              IN  /\ current'.metadata_count = Len(log)
                  /\ current'.data_byte_count = EndOfData(log)
                  /\ is_page_empty(NextPage(current'.page))
<1>1. PICK found \in BOOLEAN, page \in Pages :
        /\ get_current_page(found, page)
        /\ is_full' = ~found
        /\ current' =
             [page |-> page,
              metadata_count |-> IF found THEN get_metadata_count(page) ELSE 0,
              data_byte_count |->
                IF found /\ get_metadata_count(page) > 0 THEN DataEnd(flash[page].log) ELSE 0]
    BY DEF update_current
<1> DEFINE log == flash[page].log
<1>2. log \in Seq(Metadata) /\ Len(log) \in Nat /\ get_metadata_count(page) = Len(log)
    BY CountIsLength DEF TypeOK
<1>3. DataEnd(log) = EndOfData(log) /\ EndOfData(log) \in Nat /\ (Len(log) = 0 => EndOfData(log) = 0)
    BY <1>2, EndOfDataNat DEF DataEnd, EndOfData
<1>4. current' \in [page : Pages, data_byte_count : Nat, metadata_count : Nat]
    BY <1>1, <1>2, <1>3
<1>5. found => is_page_empty(NextPage(page))
  <2> SUFFICES ASSUME found PROVE is_page_empty(NextPage(page))
      OBVIOUS
  <2>1. CASE Occupied = {}
      BY <2>1, NextPageFacts DEF Occupied
  <2>2. CASE \E e \in Pages : IsFirstEmpty(e) /\ page = (e + PageCount - 1) % PageCount
      BY <2>2, PreviousPage DEF IsFirstEmpty
  <2> QED  BY <1>1, <2>1, <2>2 DEF get_current_page
<1>6. /\ current'.page = page
      /\ found => current'.metadata_count = Len(log)
      /\ found => current'.data_byte_count = EndOfData(log)
    BY <1>1, <1>2, <1>3
<1> HIDE DEF log
<1>7. ~is_full' => found
    BY <1>1
<1> QED
    BY <1>1, <1>4, <1>5, <1>6, <1>7 DEF log

\* The size of a requested pair is a number.
LEMMA RequestSizeNat ==
  ASSUME request \in Request
  PROVE  RequestSize \in Nat /\ get_write_size(RequestSize) \in Nat
<1>1. RequestSize \in Nat
    BY ConstantsAssumption DEF Request, RequestSize
<1> QED
    BY <1>1, WriteSizeNat
-----------------------------------------------------------------------------
(* The invariant holds initially and is preserved by every action.         *)

\* An empty store has sound pages.
LEMMA InitIInv == Init => IInv
<1> SUFFICES ASSUME Init PROVE IInv
    OBVIOUS
<1> USE ConstantsAssumption DEF Init
<1>0. ErasedPage \in [log : Seq(Metadata), torn : Nat]
    BY DEF ErasedPage
<1>1. TypeOK
  <2>1. flash \in [Pages -> [log : Seq(Metadata), torn : Nat]]
      BY <1>0
  <2>2. current \in [page : Pages, data_byte_count : Nat, metadata_count : Nat]
      BY DEF Pages
  <2>3. pc \in PC /\ index \in Nat /\ collection_count \in 0 .. PageCount
      BY DEF PC
  <2> QED  BY <2>1, <2>2, <2>3 DEF TypeOK
<1>2. \A p \in Pages : flash[p].log = << >> /\ flash[p].torn = 0
    BY DEF ErasedPage
<1>3. LogInv
    BY <1>2 DEF LogInv, GoodLog, EndOfData, MetadataSize
<1>4. TornInv
    BY <1>2 DEF TornInv
<1>5. 0 \in Pages
    BY DEF Pages
<1>6. CacheAgrees
    BY <1>2, <1>5 DEF CacheAgrees, EndOfData
<1>7. OnePageErased
    BY <1>2, <1>5, NextPageFacts DEF OnePageErased, is_page_empty
<1>8. RequestInv /\ CollectInv
    BY DEF RequestInv, CollectInv, Collecting
<1> QED
    BY <1>1, <1>3, <1>4, <1>6, <1>7, <1>8 DEF IInv

\* A set or a remove begins without touching a page.
LEMMA BeginIInv ==
  ASSUME IInv, NEW k \in Keys, NEW v \in Values \cup {NULL}, Begin(k, v)
  PROVE  IInv'
<1> USE DEF Begin
<1>1. TypeOK'
    BY DEF IInv, TypeOK, Request, PC
<1>2. LogInv' /\ RequestInv' /\ CollectInv'
    BY DEF IInv, LogInv, RequestInv, CollectInv, Collecting, Request, GoodLog, EndOfData
<1>3. TornInv'
    BY DEF IInv, TornInv
<1>4. CacheAgrees' /\ OnePageErased'
    BY DEF IInv, CacheAgrees, OnePageErased, is_page_empty, EndOfData
<1> QED
    BY <1>1, <1>2, <1>3, <1>4 DEF IInv

\* Writing data changes only the count of bytes past the last record of the
\* current page, and there it is the rounded size of the pair.
LEMMA WriteDataFacts ==
  ASSUME IInv, pc \notin {"commit", "collect_commit"},
         NEW k \in Keys \cup {Garbage}, NEW v \in Values \cup {NULL, Garbage},
         NEW size \in Nat, WriteData(k, v, size)
  PROVE  /\ flash' \in [Pages -> [log : Seq(Metadata), torn : Nat]]
         /\ \A p \in Pages : flash'[p].log = flash[p].log
         /\ \A p \in Pages :
              flash'[p].torn = IF p = current.page THEN get_write_size(size) ELSE 0
         /\ landed' \in Data
         /\ landed'.key = k
<1> DEFINE n == get_write_size(size)
<1>1. n \in Nat
    BY WriteSizeNat
<1>2. flash \in [Pages -> [log : Seq(Metadata), torn : Nat]] /\ current.page \in Pages
    BY DEF IInv, TypeOK
<1>3. \A p \in Pages : flash[p].torn = 0
    BY DEF IInv, TornInv
<1>4. flash' = [flash EXCEPT ![current.page].torn = IF n > 0 THEN n ELSE 0]
    BY <1>2, <1>3 DEF WriteData
<1>5. landed' \in [key : {k}, value : {v}]
    BY <1>2, <1>3 DEF WriteData
<1>6. landed' \in Data /\ landed'.key = k
    BY <1>5 DEF Data
<1> HIDE DEF n
<1>7. /\ flash' \in [Pages -> [log : Seq(Metadata), torn : Nat]]
      /\ \A p \in Pages : flash'[p].log = flash[p].log
      /\ \A p \in Pages : flash'[p].torn = IF p = current.page THEN n ELSE 0
    BY <1>1, <1>2, <1>3, <1>4
<1> QED
    BY <1>6, <1>7 DEF n

\* When every log and the position of the store are as they were, what depends on
\* them only is as it was.
LEMMA SameLogs ==
  ASSUME IInv, \A p \in Pages : flash'[p].log = flash[p].log
  PROVE  /\ LogInv'
         /\ \A p \in Pages : is_page_empty(p)' <=> is_page_empty(p)
<1>1. ASSUME NEW p \in Pages PROVE GoodLog(flash[p].log)'
  <2>1. GoodLog(flash[p].log) /\ flash'[p].log = flash[p].log
      BY DEF IInv, LogInv
  <2> QED  BY <2>1 DEF GoodLog, EndOfData
<1> QED
    BY <1>1 DEF LogInv, is_page_empty

\* A header goes to the page it fits on.
LEMMA AllocateFitsIInv ==
  ASSUME IInv, AllocateFits
  PROVE  IInv'
<1> USE DEF AllocateFits
<1>1. request \in Request /\ ~is_full
    BY DEF IInv, RequestInv
<1>2. /\ RequestSize \in Nat /\ get_write_size(RequestSize) \in Nat
      /\ request.key \in Keys /\ request.value \in Values \cup {NULL}
    BY <1>1, RequestSizeNat DEF Request
<1>3. /\ flash' \in [Pages -> [log : Seq(Metadata), torn : Nat]]
      /\ \A p \in Pages : flash'[p].log = flash[p].log
      /\ \A p \in Pages :
           flash'[p].torn = IF p = current.page THEN get_write_size(RequestSize) ELSE 0
      /\ landed' \in Data
    BY <1>2, WriteDataFacts
<1>4. current.page \in Pages /\ current.page' = current.page /\ NextPage(current.page) \in Pages
    BY NextPageFacts DEF IInv, TypeOK
<1>5. TypeOK'
    BY <1>3, ConstantsAssumption DEF IInv, TypeOK, PC
<1>6. LogInv' /\ (\A p \in Pages : is_page_empty(p)' <=> is_page_empty(p))
    BY <1>3, SameLogs
<1>7. RequestSize' = RequestSize
    BY DEF RequestSize
<1>8. TornInv'
    BY <1>3, <1>7 DEF TornInv, PendingSize
<1>9. RequestInv'
    BY <1>1, <1>3, <1>7 DEF RequestInv, Required, current_free_bytes
<1>10. CacheAgrees'
    BY <1>3, <1>4 DEF IInv, CacheAgrees, EndOfData
<1>11. OnePageErased'
    BY <1>4, <1>6 DEF IInv, OnePageErased, is_page_empty, NextPage
<1>12. CollectInv'
    BY DEF CollectInv, Collecting
<1> QED
    BY <1>5, <1>6, <1>8, <1>9, <1>10, <1>11, <1>12 DEF IInv

\* A full page is left for the next one, by way of a collection if need be.
LEMMA AllocateAdvanceIInv ==
  ASSUME IInv, AllocateAdvance
  PROVE  IInv'
<1> USE DEF AllocateAdvance
<1> DEFINE page == NextPage(current.page)
<1>1. /\ current.page \in Pages /\ page \in Pages /\ NextPage(page) \in Pages
      /\ request \in Request /\ ~is_full
    BY NextPageFacts DEF IInv, TypeOK, RequestInv
<1>2. flash[page].log = << >>
    BY <1>1 DEF IInv, OnePageErased, is_page_empty
<1>3. current' = [page |-> page, data_byte_count |-> 0, metadata_count |-> 0]
    OBVIOUS
<1>4. TypeOK'
    BY <1>1, <1>3 DEF IInv, TypeOK, PC
<1>5. LogInv'
    BY DEF IInv, LogInv, GoodLog, EndOfData
<1>6. TornInv'
    BY DEF IInv, TornInv
<1>7. RequestInv'
    BY <1>1 DEF RequestInv
<1>8. CacheAgrees'
    BY <1>2, <1>3 DEF CacheAgrees, EndOfData
<1>9. OnePageErased'
    BY <1>1, <1>3 DEF OnePageErased, is_page_empty, SkipPageEmpty, NextPage
<1>10. CollectInv'
  <2> DEFINE log == flash[NextPage(page)].log
  <2>1. log \in Seq(Metadata) /\ GoodLog(log)
      BY <1>1 DEF IInv, TypeOK, LogInv
  <2>2. StartOf(log, 1) = 0 \/ log = << >>
      BY <2>1 DEF GoodLog, StartOf
  <2>3. pc' = "collect" => log # << >> /\ index' = 1
      BY DEF SkipPageEmpty, is_page_empty
  <2>4. Source' = NextPage(page)
      BY <1>3 DEF Source, NextPage
  <2> QED
      BY <1>3, <2>1, <2>2, <2>3, <2>4 DEF CollectInv, Collecting, StartOf, EndOfData
<1> QED
    BY <1>4, <1>5, <1>6, <1>7, <1>8, <1>9, <1>10 DEF IInv

\* A log with one more record.
LEMMA AppendFacts ==
  ASSUME NEW log \in Seq(Metadata), NEW r \in Metadata
  PROVE  /\ Append(log, r) \in Seq(Metadata)
         /\ Append(log, r) # << >>
         /\ Len(Append(log, r)) = Len(log) + 1
<1>1. Append(log, r) \in Seq(Metadata) /\ Len(Append(log, r)) = Len(log) + 1
    OBVIOUS
<1>2. Len(log) \in Nat /\ Len(<< >>) = 0
    OBVIOUS
<1>3. Append(log, r) # << >>
    BY <1>1, <1>2
<1> QED
    BY <1>1, <1>3

\* Committing a pair that fits leaves every page good and the cache exact.
LEMMA SetCommitFacts ==
  ASSUME IInv, pc \in {"commit", "collect_commit"}, ~is_full,
         NEW size \in Nat, NEW removed \in BOOLEAN,
         flash[current.page].torn = get_write_size(size),
         current.data_byte_count + get_write_size(size)
           + (current.metadata_count + 2) * MetadataSize <= PageSize,
         set_commit(size, removed)
  PROVE  /\ flash' \in [Pages -> [log : Seq(Metadata), torn : Nat]]
         /\ \A p \in Pages \ {current.page} : flash'[p] = flash[p]
         /\ \A p \in Pages : flash'[p].torn = 0
         /\ LogInv'
         /\ \E r \in Metadata :
              /\ r.key = landed.key /\ r.removed = removed
              /\ flash'[current.page].log = Append(flash[current.page].log, r)
         /\ current' \in [page : Pages, data_byte_count : Nat, metadata_count : Nat]
         /\ current'.page = current.page
         /\ current'.data_byte_count = current.data_byte_count + get_write_size(size)
         /\ current'.metadata_count = current.metadata_count + 1
         /\ current'.data_byte_count = EndOfData(flash'[current.page].log)
         /\ current'.metadata_count = Len(flash'[current.page].log)
         /\ landed' = Nothing
<1> DEFINE n == get_write_size(size)
           log == flash[current.page].log
           r == [key |-> landed.key, value |-> landed.value, removed |-> removed,
                 offset |-> current.data_byte_count, size |-> size]
<1>1. /\ flash \in [Pages -> [log : Seq(Metadata), torn : Nat]]
      /\ current \in [page : Pages, data_byte_count : Nat, metadata_count : Nat]
      /\ landed \in Data
    BY DEF IInv, TypeOK, RequestInv
<1>2. n \in Nat
    BY WriteSizeNat
<1>3. r \in Metadata
    BY <1>1 DEF Metadata, Data
<1>4. log \in Seq(Metadata) /\ GoodLog(log)
    BY <1>1 DEF IInv, LogInv
<1>5. current.metadata_count = Len(log) /\ current.data_byte_count = EndOfData(log)
    BY DEF IInv, CacheAgrees
<1>6. /\ GoodLog(Append(log, r))
      /\ EndOfData(Append(log, r)) = current.data_byte_count + n
    BY <1>3, <1>4, <1>5, AppendGood
<1>7. /\ Append(log, r) \in Seq(Metadata)
      /\ Append(log, r) # << >>
      /\ Len(Append(log, r)) = Len(log) + 1
    BY <1>3, <1>4, AppendFacts
<1>8. flash' = [flash EXCEPT ![current.page] = [log |-> Append(log, r), torn |-> 0]]
  <2>1. flash' = [flash EXCEPT ![current.page] =
                    [log |-> Append(log, r), torn |-> flash[current.page].torn - n]]
      BY <1>1 DEF set_commit
  <2>2. flash[current.page].torn - n = 0
      BY <1>2
  <2> QED  BY <2>1, <2>2
<1>9. /\ current' = [current EXCEPT !.data_byte_count = @ + n, !.metadata_count = @ + 1]
      /\ landed' = Nothing
    BY DEF set_commit
<1> HIDE DEF r, n, log
<1>10. /\ flash' \in [Pages -> [log : Seq(Metadata), torn : Nat]]
       /\ \A p \in Pages \ {current.page} : flash'[p] = flash[p]
       /\ flash'[current.page].log = Append(log, r)
       /\ flash'[current.page].torn = 0
    BY <1>1, <1>7, <1>8
<1>11. \A p \in Pages : flash'[p].torn = 0
    BY <1>10 DEF IInv, TornInv
<1>12. LogInv'
  <2>1. ASSUME NEW p \in Pages PROVE GoodLog(flash[p].log)'
    <3>1. GoodLog(flash'[p].log)
        BY <1>6, <1>10 DEF IInv, LogInv
    <3> QED  BY <3>1 DEF GoodLog, EndOfData
  <2> QED  BY <2>1 DEF LogInv
<1>13. /\ current' \in [page : Pages, data_byte_count : Nat, metadata_count : Nat]
       /\ current'.page = current.page
       /\ current'.data_byte_count = current.data_byte_count + n
       /\ current'.metadata_count = current.metadata_count + 1
  <2>1. current' = [page |-> current.page,
                    data_byte_count |-> current.data_byte_count + n,
                    metadata_count |-> current.metadata_count + 1]
      BY <1>1, <1>9
  <2> QED  BY <1>1, <1>2, <2>1
<1>14. r.key = landed.key /\ r.removed = removed
    BY DEF r
<1> QED
    BY <1>3, <1>5, <1>6, <1>7, <1>9, <1>10, <1>11, <1>12, <1>13, <1>14 DEF n, log

\* The record in the request is committed in its place.
LEMMA CommitIInv ==
  ASSUME IInv, Commit
  PROVE  IInv'
<1> USE DEF Commit
<1>1. request \in Request /\ ~is_full /\ RequestSize \in Nat
    BY RequestSizeNat DEF IInv, RequestInv
<1>2. /\ current \in [page : Pages, data_byte_count : Nat, metadata_count : Nat]
      /\ get_write_size(RequestSize) \in Nat
    BY <1>1, WriteSizeNat DEF IInv, TypeOK
<1>3. flash[current.page].torn = get_write_size(RequestSize)
    BY <1>2 DEF IInv, TornInv, PendingSize
<1>4. Required <= current_free_bytes
    BY DEF IInv, RequestInv
<1>5. current.data_byte_count + get_write_size(RequestSize)
        + (current.metadata_count + 2) * MetadataSize <= PageSize
    BY <1>2, <1>4, ConstantsAssumption DEF Required, current_free_bytes, MetadataSize
<1>6. /\ flash' \in [Pages -> [log : Seq(Metadata), torn : Nat]]
      /\ \A p \in Pages \ {current.page} : flash'[p] = flash[p]
      /\ \A p \in Pages : flash'[p].torn = 0
      /\ LogInv'
      /\ current' \in [page : Pages, data_byte_count : Nat, metadata_count : Nat]
      /\ current'.page = current.page
      /\ current'.data_byte_count = EndOfData(flash'[current.page].log)
      /\ current'.metadata_count = Len(flash'[current.page].log)
      /\ landed' = Nothing
    BY <1>1, <1>3, <1>5, SetCommitFacts
<1>7. TypeOK'
    BY <1>6 DEF IInv, TypeOK, PC
<1>8. TornInv' /\ RequestInv' /\ CollectInv'
    BY <1>6 DEF TornInv, RequestInv, CollectInv, Collecting
<1>9. CacheAgrees'
    BY <1>6 DEF CacheAgrees, EndOfData
<1>10. OnePageErased'
    BY <1>2, <1>6, NextPageFacts DEF IInv, OnePageErased, is_page_empty, NextPage
<1> QED
    BY <1>6, <1>7, <1>8, <1>9, <1>10 DEF IInv

\* What is known of the page being collected.
LEMMA SourceFacts ==
  ASSUME IInv, Collecting
  PROVE  /\ ~is_full /\ request \in Request
         /\ current \in [page : Pages, data_byte_count : Nat, metadata_count : Nat]
         /\ Source \in Pages /\ Source # current.page
         /\ flash[Source].log \in Seq(Metadata)
         /\ GoodLog(flash[Source].log)
         /\ get_metadata_count(Source) = Len(flash[Source].log)
         /\ index \in 1 .. Len(flash[Source].log) + 1
         /\ index <= Len(flash[Source].log) =>
              /\ SourceRecord \in Metadata
              /\ SourceRecord.size \in Nat
              /\ get_write_size(SourceRecord.size) \in Nat
<1>1. /\ ~is_full /\ request \in Request
      /\ current \in [page : Pages, data_byte_count : Nat, metadata_count : Nat]
    BY DEF IInv, TypeOK, RequestInv, Collecting
<1>2. Source \in Pages /\ Source # current.page
    BY <1>1, NextPageFacts DEF Source
<1>3. /\ flash[Source].log \in Seq(Metadata)
      /\ GoodLog(flash[Source].log)
      /\ get_metadata_count(Source) = Len(flash[Source].log)
      /\ index \in 1 .. Len(flash[Source].log) + 1
    BY <1>2, CountIsLength DEF IInv, TypeOK, LogInv, CollectInv
<1>4. index <= Len(flash[Source].log) => SourceRecord \in Metadata
    BY <1>3 DEF SourceRecord
<1>5. index <= Len(flash[Source].log) => SourceRecord.size \in Nat
    BY <1>4 DEF Metadata
<1> QED
    BY <1>1, <1>2, <1>3, <1>4, <1>5, WriteSizeNat

\* The data of the record after record i starts where the data of record i ends.
LEMMA StartOfNext ==
  ASSUME NEW log \in Seq(Metadata), GoodLog(log), NEW i \in 1 .. Len(log)
  PROVE  /\ StartOf(log, i) = log[i].offset
         /\ StartOf(log, i + 1) = log[i].offset + get_write_size(log[i].size)
         /\ StartOf(log, i) \in Nat
         /\ StartOf(log, i) <= StartOf(log, i + 1)
         /\ StartOf(log, i + 1) <= EndOfData(log)
<1>1. log[i] \in Metadata
    OBVIOUS
<1>2. log[i].offset \in Nat /\ get_write_size(log[i].size) \in Nat
    BY <1>1, WriteSizeNat DEF Metadata
<1>3. StartOf(log, i) = log[i].offset
    BY DEF StartOf
<1>4. StartOf(log, i + 1) = log[i].offset + get_write_size(log[i].size)
  <2>1. CASE i < Len(log)
    <3>1. i + 1 \in 1 .. Len(log) /\ i + 1 # 1 /\ (i + 1) - 1 = i
        BY <2>1
    <3> QED  BY <3>1 DEF StartOf, GoodLog
  <2>2. CASE i = Len(log)
      BY <2>2 DEF StartOf, EndOfData
  <2> QED  BY <2>1, <2>2
<1>5. StartOf(log, i + 1) <= EndOfData(log)
    BY <1>4 DEF GoodLog
<1> QED
    BY <1>2, <1>3, <1>4, <1>5

\* The collection passes over a record that is skipped.
LEMMA CollectSkipIInv ==
  ASSUME IInv, CollectSkip
  PROVE  IInv'
<1> USE DEF CollectSkip
<1> DEFINE log == flash[Source].log
<1>1. Collecting
    BY DEF Collecting
<1>2. /\ current \in [page : Pages, data_byte_count : Nat, metadata_count : Nat]
      /\ log \in Seq(Metadata) /\ GoodLog(log) /\ index \in 1 .. Len(log)
    BY <1>1, SourceFacts
<1>3. TypeOK'
    BY <1>2 DEF IInv, TypeOK
<1>4. LogInv' /\ RequestInv'
    BY SameLogs DEF IInv, RequestInv, Required, RequestSize, current_free_bytes
<1>5. TornInv' /\ CacheAgrees' /\ OnePageErased'
    BY DEF IInv, TornInv, CacheAgrees, OnePageErased, is_page_empty, EndOfData
<1>6. /\ StartOf(log, index) \in Nat
      /\ StartOf(log, index) <= StartOf(log, index + 1)
      /\ StartOf(log, index + 1) \in Nat
  <2>1. log[index] \in Metadata
      BY <1>2
  <2>2. log[index].offset \in Nat /\ get_write_size(log[index].size) \in Nat
      BY <2>1, WriteSizeNat DEF Metadata
  <2> QED  BY <1>2, <2>2, StartOfNext
<1>7. /\ current.metadata_count <= index - 1
      /\ current.data_byte_count <= StartOf(log, index)
    BY <1>1 DEF IInv, CollectInv
<1>8. Source' = Source /\ log' = log /\ pc' = "collect" /\ index' = index + 1
    BY DEF Source, NextPage
<1>9. /\ index' \in 1 .. Len(log) + 1
      /\ current.metadata_count <= index' - 1
      /\ current.data_byte_count <= StartOf(log, index')
    BY <1>2, <1>6, <1>7, <1>8
<1>10. CollectInv'
    BY <1>8, <1>9 DEF CollectInv, StartOf, EndOfData
<1> QED
    BY <1>3, <1>4, <1>5, <1>10 DEF IInv

\* It allocates a place for the copy of a record.
LEMMA CollectCopyIInv ==
  ASSUME IInv, CollectCopy
  PROVE  IInv'
<1> USE DEF CollectCopy
<1> DEFINE log == flash[Source].log
<1>1. Collecting
    BY DEF Collecting
<1>2. /\ ~is_full /\ request \in Request
      /\ current \in [page : Pages, data_byte_count : Nat, metadata_count : Nat]
      /\ Source \in Pages /\ Source # current.page
      /\ log \in Seq(Metadata) /\ index \in 1 .. Len(log)
      /\ SourceRecord \in Metadata /\ SourceRecord.size \in Nat
    BY <1>1, SourceFacts
<1>3. /\ SourceRecord.key \in Keys \cup {Garbage}
      /\ SourceRecord.value \in Values \cup {NULL, Garbage}
    BY <1>2 DEF Metadata
<1>4. /\ flash' \in [Pages -> [log : Seq(Metadata), torn : Nat]]
      /\ \A p \in Pages : flash'[p].log = flash[p].log
      /\ \A p \in Pages :
           flash'[p].torn = IF p = current.page THEN get_write_size(SourceRecord.size) ELSE 0
      /\ landed' \in Data
    BY <1>2, <1>3, WriteDataFacts
<1>5. TypeOK'
    BY <1>4 DEF IInv, TypeOK, PC
<1>6. LogInv' /\ (\A p \in Pages : is_page_empty(p)' <=> is_page_empty(p))
    BY <1>4, SameLogs
<1>7. Source' = Source /\ index' = index /\ current' = current
    BY DEF Source, NextPage
<1>8. SourceRecord' = SourceRecord
    BY <1>2, <1>4, <1>7 DEF SourceRecord
<1>9. TornInv'
    BY <1>4, <1>7, <1>8 DEF TornInv, PendingSize
<1>10. RequestInv'
    BY <1>2, <1>4 DEF RequestInv
<1>11. CacheAgrees'
    BY <1>2, <1>4, <1>7 DEF IInv, CacheAgrees, EndOfData
<1>12. OnePageErased'
    BY <1>2, <1>4, <1>7 DEF IInv, OnePageErased, is_page_empty, NextPage, Source
<1>13. CollectInv'
  <2>1. log' = log
      BY <1>2, <1>4, <1>7
  <2>2. /\ current.metadata_count <= index - 1
        /\ current.data_byte_count <= StartOf(log, index)
      BY <1>1 DEF IInv, CollectInv
  <2> QED  BY <1>2, <1>7, <2>1, <2>2 DEF CollectInv, StartOf, EndOfData
<1> QED
    BY <1>5, <1>6, <1>9, <1>10, <1>11, <1>12, <1>13 DEF IInv

\* It commits the copy.
LEMMA CollectCommitIInv ==
  ASSUME IInv, CollectCommit
  PROVE  IInv'
<1> USE DEF CollectCommit
<1> DEFINE log == flash[Source].log
           n == get_write_size(SourceRecord.size)
<1>1. Collecting /\ pc = "collect_commit"
    BY DEF Collecting
<1>2. index <= Len(log)
    BY <1>1 DEF IInv, CollectInv
<1>3. /\ ~is_full /\ request \in Request
      /\ current \in [page : Pages, data_byte_count : Nat, metadata_count : Nat]
      /\ Source \in Pages /\ Source # current.page
      /\ log \in Seq(Metadata) /\ GoodLog(log) /\ index \in 1 .. Len(log)
      /\ SourceRecord.size \in Nat /\ n \in Nat
    BY <1>1, <1>2, SourceFacts
<1>4. flash[current.page].torn = n
    BY <1>1, <1>3 DEF IInv, TornInv, PendingSize
<1>5. /\ current.metadata_count <= index - 1
      /\ current.data_byte_count <= StartOf(log, index)
    BY <1>1 DEF IInv, CollectInv
<1>6. /\ StartOf(log, index) = log[index].offset
      /\ StartOf(log, index + 1) = log[index].offset + n
      /\ StartOf(log, index) \in Nat
      /\ StartOf(log, index + 1) <= EndOfData(log)
    BY <1>3, StartOfNext DEF SourceRecord
<1>7. EndOfData(log) \in Nat /\ EndOfData(log) + (Len(log) + 1) * MetadataSize <= PageSize
    BY <1>3, EndOfDataNat DEF GoodLog
<1>8. current.data_byte_count + n <= StartOf(log, index + 1)
    BY <1>3, <1>5, <1>6
<1> HIDE DEF n, log
<1>9. current.data_byte_count + n + (current.metadata_count + 2) * MetadataSize <= PageSize
  <2>1. /\ current.metadata_count + 2 <= Len(log) + 1
        /\ current.metadata_count + 2 \in Nat /\ Len(log) + 1 \in Nat
      BY <1>3, <1>5 DEF log
  <2>2. StartOf(log, index + 1) \in Nat
      BY <1>3, <1>6 DEF log
  <2>3. current.data_byte_count \in Nat /\ n \in Nat
      BY <1>3
  <2>4. current.data_byte_count + n <= EndOfData(log)
      BY <1>6, <1>7, <1>8, <2>2, <2>3
  <2> QED
      BY <1>7, <2>1, <2>3, <2>4, Room
<1>10. /\ flash' \in [Pages -> [log : Seq(Metadata), torn : Nat]]
       /\ \A p \in Pages \ {current.page} : flash'[p] = flash[p]
       /\ \A p \in Pages : flash'[p].torn = 0
       /\ LogInv'
       /\ current' \in [page : Pages, data_byte_count : Nat, metadata_count : Nat]
       /\ current'.page = current.page
       /\ current'.data_byte_count = current.data_byte_count + n
       /\ current'.metadata_count = current.metadata_count + 1
       /\ current'.data_byte_count = EndOfData(flash'[current.page].log)
       /\ current'.metadata_count = Len(flash'[current.page].log)
       /\ landed' = Nothing
    BY <1>1, <1>3, <1>4, <1>9, SetCommitFacts DEF n
<1>11. TypeOK'
    BY <1>3, <1>10 DEF IInv, TypeOK, PC
<1>12. TornInv' /\ RequestInv'
    BY <1>3, <1>10 DEF TornInv, RequestInv
<1>13. CacheAgrees'
    BY <1>10 DEF CacheAgrees, EndOfData
<1>14. Source' = Source /\ flash'[Source] = flash[Source] /\ index' = index + 1 /\ pc' = "collect"
    BY <1>3, <1>10 DEF Source, NextPage
<1>15. OnePageErased'
    BY <1>1, <1>3, <1>10, <1>14 DEF IInv, OnePageErased, is_page_empty, NextPage, Source
<1>16. CollectInv'
  <2>1. /\ index' \in 1 .. Len(log) + 1
        /\ current'.metadata_count <= index' - 1
        /\ current'.data_byte_count <= StartOf(log, index')
      BY <1>3, <1>5, <1>8, <1>10, <1>14 DEF log
  <2> QED  BY <1>14, <2>1 DEF CollectInv, StartOf, EndOfData, log
<1> QED
    BY <1>10, <1>11, <1>12, <1>13, <1>15, <1>16 DEF IInv

\* Erasing a page while no data waits for its metadata keeps every log good.
LEMMA NvmEraseFacts ==
  ASSUME IInv, pc \notin {"commit", "collect_commit"}, NEW p \in Pages, nvm_erase(p)
  PROVE  /\ flash' \in [Pages -> [log : Seq(Metadata), torn : Nat]]
         /\ flash'[p].log = << >>
         /\ \A q \in Pages \ {p} : flash'[q] = flash[q]
         /\ \A q \in Pages : flash'[q].torn = 0
         /\ LogInv'
<1>1. flash \in [Pages -> [log : Seq(Metadata), torn : Nat]]
    BY DEF IInv, TypeOK
<1>2. ErasedPage \in [log : Seq(Metadata), torn : Nat] /\ ErasedPage.log = << >> /\ ErasedPage.torn = 0
    BY DEF ErasedPage
<1>3. /\ flash' \in [Pages -> [log : Seq(Metadata), torn : Nat]]
      /\ flash'[p] = ErasedPage
      /\ \A q \in Pages \ {p} : flash'[q] = flash[q]
    BY <1>1, <1>2 DEF nvm_erase
<1>4. \A q \in Pages : flash'[q].torn = 0
    BY <1>2, <1>3 DEF IInv, TornInv
<1>5. ASSUME NEW q \in Pages PROVE GoodLog(flash[q].log)'
  <2>1. GoodLog(<< >>)
      BY ConstantsAssumption DEF GoodLog, EndOfData, MetadataSize
  <2>2. GoodLog(flash'[q].log)
      BY <1>2, <1>3, <2>1 DEF IInv, LogInv
  <2> QED  BY <2>2 DEF GoodLog, EndOfData
<1> QED
    BY <1>2, <1>3, <1>4, <1>5 DEF LogInv

\* It erases the page it has gone through.
LEMMA CollectEraseIInv ==
  ASSUME IInv, CollectErase
  PROVE  IInv'
<1> USE DEF CollectErase
<1>1. Collecting /\ pc = "collect"
    BY DEF Collecting
<1>2. /\ request \in Request /\ ~is_full
      /\ current \in [page : Pages, data_byte_count : Nat, metadata_count : Nat]
      /\ Source \in Pages /\ Source # current.page
    BY <1>1, SourceFacts
<1>3. /\ flash' \in [Pages -> [log : Seq(Metadata), torn : Nat]]
      /\ flash'[Source].log = << >>
      /\ \A q \in Pages \ {Source} : flash'[q] = flash[q]
      /\ \A q \in Pages : flash'[q].torn = 0
      /\ LogInv'
    BY <1>1, <1>2, NvmEraseFacts
<1>4. pc' \in {"idle", "allocate"} /\ current' = current
    OBVIOUS
<1>5. TypeOK'
  <2>1. collection_count \in 0 .. PageCount /\ PageCount \in Nat
      BY ConstantsAssumption DEF IInv, TypeOK
  <2>2. collection_count' \in 0 .. PageCount
      BY <2>1 DEF GivesUp, Collections
  <2>3. /\ is_full' \in BOOLEAN
        /\ request' \in Request \cup {Nothing}
        /\ index' \in Nat
      BY <1>2 DEF IInv, TypeOK
  <2> QED  BY <1>3, <1>4, <2>2, <2>3 DEF IInv, TypeOK, PC
<1>6. TornInv' /\ CollectInv'
    BY <1>3, <1>4 DEF TornInv, CollectInv, Collecting
<1>7. RequestInv'
    BY <1>2, <1>4 DEF RequestInv
<1>8. CacheAgrees'
    BY <1>1, <1>2, <1>3, <1>4 DEF IInv, CacheAgrees, EndOfData
<1>9. OnePageErased'
    BY <1>2, <1>3, <1>4 DEF OnePageErased, is_page_empty, NextPage, Source
<1> QED
    BY <1>3, <1>5, <1>6, <1>7, <1>8, <1>9 DEF IInv

\* Erasing the whole store begins.
LEMMA EraseIInv ==
  ASSUME IInv, erase
  PROVE  IInv'
<1> USE DEF erase
<1>1. TypeOK'
    BY DEF IInv, TypeOK, PC
<1>2. LogInv'
    BY SameLogs
<1>3. TornInv' /\ RequestInv' /\ CollectInv'
    BY DEF IInv, TornInv, RequestInv, CollectInv, Collecting
<1>4. CacheAgrees' /\ OnePageErased'
    BY DEF IInv, CacheAgrees, OnePageErased, is_page_empty
<1> QED
    BY <1>1, <1>2, <1>3, <1>4 DEF IInv

\* It erases one page after the other.
LEMMA ErasePageIInv ==
  ASSUME IInv, ErasePage
  PROVE  IInv'
<1> USE DEF ErasePage
<1>1. /\ index \in Pages /\ current.page \in Pages
      /\ NextPage(current.page) \in Pages
  <2>1. TypeOK
      BY DEF IInv
  <2>2. index \in Nat /\ current.page \in Pages
      BY <2>1 DEF TypeOK
  <2> QED  BY <2>2, ConstantsAssumption, NextPageFacts DEF Pages
<1>2. /\ flash' \in [Pages -> [log : Seq(Metadata), torn : Nat]]
      /\ flash'[index].log = << >>
      /\ \A q \in Pages \ {index} : flash'[q] = flash[q]
      /\ \A q \in Pages : flash'[q].torn = 0
      /\ LogInv'
    BY <1>1, NvmEraseFacts
<1>3. TypeOK'
    BY <1>2 DEF IInv, TypeOK
<1>4. TornInv' /\ RequestInv' /\ CollectInv' /\ CacheAgrees'
    BY <1>2 DEF TornInv, RequestInv, CollectInv, Collecting, CacheAgrees
<1>5. OnePageErased'
    BY <1>1, <1>2 DEF IInv, OnePageErased, is_page_empty, NextPage
<1> QED
    BY <1>2, <1>3, <1>4, <1>5 DEF IInv

\* Both the end of erase and a restart assign the position of the store from the
\* flash, with nothing in flight.
LEMMA RecoverIInv ==
  ASSUME IInv, update_current, pc \notin {"commit", "collect_commit"}, pc' = "idle",
         request' \in Request \cup {Nothing}, index' = 0, collection_count' \in 0 .. PageCount,
         landed' \in Data \cup {Nothing}, UNCHANGED flash
  PROVE  IInv'
<1>1. TypeOK /\ LogInv
    BY DEF IInv
<1>2. /\ current' \in [page : Pages, data_byte_count : Nat, metadata_count : Nat]
      /\ is_full' \in BOOLEAN
      /\ ~is_full' =>
           /\ current'.metadata_count = Len(flash[current'.page].log)
           /\ current'.data_byte_count = EndOfData(flash[current'.page].log)
           /\ is_page_empty(NextPage(current'.page))
    BY <1>1, UpdateCurrent
<1>3. TypeOK'
    BY <1>1, <1>2 DEF TypeOK, PC
<1>4. LogInv'
    BY SameLogs
<1>5. TornInv' /\ RequestInv' /\ CollectInv'
    BY DEF IInv, TornInv, RequestInv, CollectInv, Collecting
<1>6. CacheAgrees'
    BY <1>2 DEF CacheAgrees, EndOfData
<1>7. OnePageErased'
    BY <1>2 DEF OnePageErased, is_page_empty, NextPage
<1> QED
    BY <1>3, <1>4, <1>5, <1>6, <1>7 DEF IInv

\* Every step keeps the pages sound.
LEMMA NextIInv ==
  ASSUME NoTornWrites, IInv, [Next]_vars
  PROVE  IInv'
<1>1. ASSUME NEW k \in Keys, NEW v \in Values, set(k, v) PROVE IInv'
    BY <1>1, BeginIInv DEF set
<1>2. ASSUME NEW k \in Keys, remove(k) PROVE IInv'
    BY <1>2, BeginIInv DEF remove
<1>3. CASE EraseEnd
    BY <1>3, RecoverIInv DEF EraseEnd, IInv, TypeOK
<1>4. CASE Reboot
  <2>1. pc \notin {"commit", "collect_commit"}
      BY <1>4 DEF Reboot, NoTornWrites
  <2> QED
      BY <1>4, <2>1, RecoverIInv, ConstantsAssumption DEF Reboot
<1>5. CASE Step
    BY <1>3, <1>5, AllocateFitsIInv, AllocateAdvanceIInv, CommitIInv, CollectSkipIInv,
       CollectCopyIInv, CollectCommitIInv, CollectEraseIInv, ErasePageIInv DEF Step
<1>6. CASE UNCHANGED vars
  <2> USE <1>6 DEF vars
  <2>1. TypeOK'
      BY DEF IInv, TypeOK
  <2>2. LogInv'
      BY SameLogs
  <2>3. TornInv' /\ RequestInv' /\ CollectInv'
      BY DEF IInv, TornInv, PendingSize, RequestSize, RequestInv, Required, current_free_bytes,
             CollectInv, Collecting, Source, SourceRecord, NextPage, StartOf, EndOfData
  <2>4. CacheAgrees' /\ OnePageErased'
      BY DEF IInv, CacheAgrees, EndOfData, OnePageErased, is_page_empty, NextPage
  <2> QED  BY <2>1, <2>2, <2>3, <2>4 DEF IInv
<1> QED
    BY <1>1, <1>2, <1>4, <1>5, <1>6, EraseIInv DEF Next

\* The invariant is strong enough for the layout of pages: data pending for one
\* record is within the room that record was given.
LEMMA IInvLayout == IInv => Layout
<1> SUFFICES ASSUME IInv, NEW p \in Pages
             PROVE  /\ GoodLog(flash[p].log)
                    /\ EndOfData(flash[p].log) + flash[p].torn
                         + (Len(flash[p].log) + 1) * MetadataSize <= PageSize
    BY DEF Layout, GoodLog
<1> DEFINE log == flash[p].log
<1> HIDE DEF log
<1>1. /\ log \in Seq(Metadata) /\ GoodLog(log) /\ flash[p].torn \in Nat
      /\ EndOfData(log) \in Nat /\ Len(log) \in Nat
      /\ EndOfData(log) + (Len(log) + 1) * MetadataSize <= PageSize
    BY EndOfDataNat DEF IInv, TypeOK, LogInv, GoodLog, log
<1> SUFFICES EndOfData(log) + flash[p].torn + (Len(log) + 1) * MetadataSize <= PageSize
    BY <1>1 DEF log
<1>2. CASE flash[p].torn = 0
    BY <1>1, <1>2 DEF MetadataSize
<1>3. CASE p = current.page /\ pc = "commit"
  <2>1. /\ request \in Request /\ ~is_full /\ RequestSize \in Nat
        /\ get_write_size(RequestSize) \in Nat
      BY <1>3, RequestSizeNat DEF IInv, RequestInv
  <2>2. /\ flash[p].torn = get_write_size(RequestSize)
        /\ current.metadata_count = Len(log) /\ current.data_byte_count = EndOfData(log)
        /\ Required <= current_free_bytes
      BY <1>3, <2>1 DEF IInv, TornInv, PendingSize, CacheAgrees, RequestInv, log
  <2> QED
      BY <1>1, <2>1, <2>2, ConstantsAssumption DEF Required, current_free_bytes, MetadataSize
<1>4. CASE p = current.page /\ pc = "collect_commit"
  <2> DEFINE src == flash[Source].log
             n == get_write_size(SourceRecord.size)
  <2>1. Collecting /\ index <= Len(src)
      BY <1>4 DEF IInv, Collecting, CollectInv
  <2>2. /\ ~is_full /\ src \in Seq(Metadata) /\ GoodLog(src)
        /\ index \in 1 .. Len(src) /\ n \in Nat
      BY <2>1, SourceFacts
  <2>3. /\ current.metadata_count <= index - 1
        /\ current.data_byte_count <= StartOf(src, index)
        /\ flash[p].torn = n
        /\ current.metadata_count = Len(log) /\ current.data_byte_count = EndOfData(log)
      BY <1>4, <2>1, <2>2 DEF IInv, CollectInv, TornInv, PendingSize, CacheAgrees, log
  <2>4. /\ StartOf(src, index + 1) = StartOf(src, index) + n
        /\ StartOf(src, index) \in Nat
        /\ StartOf(src, index + 1) <= EndOfData(src)
      BY <2>2, StartOfNext DEF SourceRecord
  <2>5. EndOfData(src) + (Len(src) + 1) * MetadataSize <= PageSize /\ EndOfData(src) \in Nat
      BY <2>2, EndOfDataNat DEF GoodLog
  <2>6. Len(log) + 1 <= Len(src) /\ Len(src) \in Nat
      BY <1>1, <2>2, <2>3
  <2> HIDE DEF src, n
  <2>7. /\ EndOfData(log) \in Nat /\ Len(log) \in Nat /\ n \in Nat
        /\ EndOfData(log) <= StartOf(src, index)
      BY <1>1, <2>2, <2>3
  <2>8. EndOfData(log) + n <= EndOfData(src)
      BY <2>4, <2>5, <2>7
  <2>9. EndOfData(log) + n + (Len(log) + 1) * MetadataSize <= PageSize
      BY <2>5, <2>6, <2>7, <2>8, Room
  <2> QED  BY <2>3, <2>9
<1> QED
    BY <1>1, <1>2, <1>3, <1>4 DEF IInv, TornInv

\* Type correctness of the store.
THEOREM TypeCorrect == NoTornWrites => (Spec => []TypeOK)
<1> SUFFICES ASSUME NoTornWrites PROVE Spec => []TypeOK
    OBVIOUS
<1>1. IInv /\ [Next]_vars => IInv'
    BY NextIInv
<1> QED
    BY <1>1, InitIInv, PTL DEF Spec, IInv

\* However calls, collections and restarts interleave, every page keeps its layout,
\* the cached position is that of the flash, and the page after the current one is
\* erased when the store advances to it.
THEOREM StructureSafe == NoTornWrites => (Spec => []Structure)
<1> SUFFICES ASSUME NoTornWrites PROVE Spec => []Structure
    OBVIOUS
<1>1. IInv /\ [Next]_vars => IInv'
    BY NextIInv
<1>2. IInv => Structure
    BY IInvLayout DEF IInv, Structure
<1> QED
    BY <1>1, <1>2, InitIInv, PTL DEF Spec
-----------------------------------------------------------------------------
(* Presence of keys: no collection and no restart loses or revives a key.  *)

\* lookup_on_page on the records themselves.
LiveIn(log, k) ==
  \E i \in 1 .. Len(log) :
    /\ log[i].key = k
    /\ ~log[i].removed
    /\ \A j \in 1 .. Len(log) : log[j].key = k => j <= i

\* The live keys of the records before index were all copied; a copy is never a
\* removal; the record being copied belongs to a key that is in the store.
CopiedInv ==
  /\ \A p \in Pages : \A i \in 1 .. Len(flash[p].log) : flash[p].log[i].key \in Keys
  /\ pc = "commit" => landed.key = request.key
  /\ pc = "collect_commit" =>
       /\ landed.key = SourceRecord.key
       /\ \E p \in Pages : LiveIn(flash[p].log, SourceRecord.key)
  /\ Collecting =>
       \A i \in 1 .. index - 1 :
         LET r == flash[Source].log[i]
         IN  ~r.removed /\ LiveIn(flash[Source].log, r.key)
               => LiveIn(flash[current.page].log, r.key)

PInv == IInv /\ CopiedInv

\* Whether a key is live after one more record is decided by that record if it is
\* the key's.
LEMMA AppendLive ==
  ASSUME NEW log \in Seq(Metadata), NEW r \in Metadata, NEW k
  PROVE  LiveIn(Append(log, r), k) <=> IF r.key = k THEN ~r.removed ELSE LiveIn(log, k)
<1> DEFINE new == Append(log, r)
<1>1. /\ Len(new) = Len(log) + 1 /\ Len(log) \in Nat
      /\ new[Len(log) + 1] = r
      /\ \A i \in 1 .. Len(log) : new[i] = log[i]
    OBVIOUS
<1> HIDE DEF new
<1>2. CASE r.key = k
  <2>1. ASSUME ~r.removed PROVE LiveIn(new, k)
    <3>1. \A j \in 1 .. Len(new) : j <= Len(log) + 1
        BY <1>1
    <3> QED  BY <1>1, <1>2, <2>1, <3>1 DEF LiveIn
  <2>2. ASSUME LiveIn(new, k) PROVE ~r.removed
    <3>1. PICK i \in 1 .. Len(new) :
            /\ new[i].key = k /\ ~new[i].removed
            /\ \A j \in 1 .. Len(new) : new[j].key = k => j <= i
        BY <2>2 DEF LiveIn
    <3>2. i = Len(log) + 1
        BY <1>1, <1>2, <3>1
    <3> QED  BY <1>1, <3>1, <3>2
  <2> QED  BY <1>2, <2>1, <2>2 DEF new
<1>3. CASE r.key # k
  <2>1. ASSUME LiveIn(log, k) PROVE LiveIn(new, k)
    <3>1. PICK i \in 1 .. Len(log) :
            /\ log[i].key = k /\ ~log[i].removed
            /\ \A j \in 1 .. Len(log) : log[j].key = k => j <= i
        BY <2>1 DEF LiveIn
    <3>2. \A j \in 1 .. Len(new) : new[j].key = k => j <= i
        BY <1>1, <1>3, <3>1
    <3> QED  BY <1>1, <3>1, <3>2 DEF LiveIn
  <2>2. ASSUME LiveIn(new, k) PROVE LiveIn(log, k)
    <3>1. PICK i \in 1 .. Len(new) :
            /\ new[i].key = k /\ ~new[i].removed
            /\ \A j \in 1 .. Len(new) : new[j].key = k => j <= i
        BY <2>2 DEF LiveIn
    <3>2. i \in 1 .. Len(log)
        BY <1>1, <1>3, <3>1
    <3> QED  BY <1>1, <3>1, <3>2 DEF LiveIn
  <2> QED  BY <1>3, <2>1, <2>2 DEF new
<1> QED
    BY <1>2, <1>3

\* What has and LiveOn say, in terms of the records.
LEMMA LiveOnIsLiveIn ==
  ASSUME IInv
  PROVE  /\ \A p \in Pages, k \in Keys : LiveOn(p, k) <=> LiveIn(flash[p].log, k)
         /\ \A k \in Keys : has(k) <=> \E p \in Pages : LiveIn(flash[p].log, k)
<1>1. \A p \in Pages : get_metadata_count(p) = Len(flash[p].log)
    BY CountIsLength DEF IInv
<1>2. ASSUME NEW p \in Pages, NEW k \in Keys PROVE LiveOn(p, k) <=> LiveIn(flash[p].log, k)
  <2>1. get_metadata_count(p) = Len(flash[p].log)
      BY <1>1
  <2> HIDE <1>1
  <2> QED  BY <2>1 DEF LiveOn, IsNewest, LiveIn
<1> QED
    BY <1>2 DEF has

\* The same in the next state.
LEMMA LiveOnIsLiveInNext ==
  ASSUME IInv'
  PROVE  \A k \in Keys : has(k)' <=> \E p \in Pages : LiveIn(flash'[p].log, k)
<1>1. ASSUME NEW p \in Pages PROVE get_metadata_count(p)' = Len(flash'[p].log)
  <2> DEFINE log == flash'[p].log
  <2>1. log \in Seq(Metadata) /\ EndOfData(log) \in Nat /\ Len(log) \in Nat
      BY EndOfDataNat DEF IInv, TypeOK
  <2>2. EndOfData(log) + (Len(log) + 1) * 12 <= PageSize
      BY DEF IInv, LogInv, GoodLog, EndOfData, MetadataSize
  <2>3. Len(log) < PageSize \div 12
      BY <2>1, <2>2, ConstantsAssumption
  <2> QED  BY <2>3 DEF get_metadata_count, MetadataSize
<1>2. ASSUME NEW p \in Pages, NEW k \in Keys PROVE LiveOn(p, k)' <=> LiveIn(flash'[p].log, k)
  <2>1. get_metadata_count(p)' = Len(flash'[p].log)
      BY <1>1
  <2> QED  BY <2>1 DEF LiveOn, IsNewest, LiveIn
<1> QED
    BY <1>2 DEF has

Present(k) == \E p \in Pages : LiveIn(flash[p].log, k)

\* A step that leaves the records of every page alone.
LEMMA SameRecords ==
  ASSUME \A p \in Pages : flash'[p].log = flash[p].log
  PROVE  /\ \A p \in Pages, k \in Keys : LiveIn(flash'[p].log, k) <=> LiveIn(flash[p].log, k)
         /\ \A k \in Keys : (\E p \in Pages : LiveIn(flash'[p].log, k)) <=> Present(k)
  BY DEF Present

\* Steps outside collection that leave the records alone keep CopiedInv.
LEMMA IdleCopied ==
  ASSUME CopiedInv, \A p \in Pages : flash'[p].log = flash[p].log,
         ~Collecting', pc' = "commit" => landed'.key = request'.key
  PROVE  CopiedInv'
  BY DEF CopiedInv, Collecting

\* What a collection skipped needs no copy.
LEMMA CollectSkipCopied ==
  ASSUME PInv, CollectSkip
  PROVE  CopiedInv'
<1> USE DEF CollectSkip
<1> DEFINE log == flash[Source].log
           cur == flash[current.page].log
<1>1. Collecting /\ IInv
    BY DEF PInv, Collecting
<1>2. /\ Source \in Pages /\ current.page \in Pages
      /\ log \in Seq(Metadata) /\ index \in 1 .. Len(log)
    BY <1>1, SourceFacts
<1>3. SourceRecord.key \in Keys
    BY <1>2 DEF PInv, CopiedInv, SourceRecord
<1>4. ~SourceRecord.removed /\ LiveIn(log, SourceRecord.key) => LiveIn(cur, SourceRecord.key)
    BY <1>1, <1>2, <1>3, LiveOnIsLiveIn, ConstantsAssumption DEF IsSkipped
<1>5. \A i \in 1 .. index - 1 :
        ~log[i].removed /\ LiveIn(log, log[i].key) => LiveIn(cur, log[i].key)
    BY <1>1 DEF PInv, CopiedInv
<1>6. \A i \in 1 .. index :
        ~log[i].removed /\ LiveIn(log, log[i].key) => LiveIn(cur, log[i].key)
    BY <1>2, <1>4, <1>5 DEF SourceRecord
<1>7. Source' = Source /\ flash' = flash /\ current' = current /\ index' - 1 = index /\ pc' = "collect"
    BY <1>2 DEF Source, NextPage
<1> HIDE DEF CollectSkip
<1> QED
    BY <1>6, <1>7 DEF PInv, CopiedInv, LiveIn

\* What it has copied so far stays copied while it allocates the next.
LEMMA CollectCopyCopied ==
  ASSUME PInv, CollectCopy
  PROVE  CopiedInv' /\ \A p \in Pages : flash'[p].log = flash[p].log
<1> USE DEF CollectCopy
<1> DEFINE log == flash[Source].log
           cur == flash[current.page].log
<1>1. Collecting /\ IInv
    BY DEF PInv, Collecting
<1>2. /\ Source \in Pages /\ current.page \in Pages
      /\ log \in Seq(Metadata) /\ index \in 1 .. Len(log)
      /\ SourceRecord \in Metadata /\ SourceRecord.size \in Nat
    BY <1>1, SourceFacts
<1>3. /\ SourceRecord.key \in Keys
      /\ SourceRecord.value \in Values \cup {NULL, Garbage}
    BY <1>2 DEF PInv, CopiedInv, SourceRecord, Metadata
<1>4. (\A p \in Pages : flash'[p].log = flash[p].log) /\ landed'.key = SourceRecord.key
    BY <1>1, <1>2, <1>3, WriteDataFacts
<1>5. \E p \in Pages : LiveIn(flash[p].log, SourceRecord.key)
    BY <1>1, <1>3, LiveOnIsLiveIn, ConstantsAssumption DEF IsSkipped
<1>6. /\ Source' = Source /\ current' = current /\ index' = index /\ pc' = "collect_commit"
      /\ SourceRecord' = SourceRecord
    BY <1>2, <1>4 DEF Source, NextPage, SourceRecord
<1>7. \A i \in 1 .. index - 1 :
        ~log[i].removed /\ LiveIn(log, log[i].key) => LiveIn(cur, log[i].key)
    BY <1>1 DEF PInv, CopiedInv
<1>8. flash'[Source].log = log /\ flash'[current.page].log = cur
    BY <1>2, <1>4
<1>9. \A p \in Pages : \A i \in 1 .. Len(flash'[p].log) : flash'[p].log[i].key \in Keys
    BY <1>4 DEF PInv, CopiedInv
<1>10. \E p \in Pages : LiveIn(flash'[p].log, SourceRecord.key)
    BY <1>4, <1>5
<1> HIDE DEF CollectCopy
<1> QED
    BY <1>4, <1>6, <1>7, <1>8, <1>9, <1>10 DEF CopiedInv, LiveIn

\* The records after a commit: one more on the current page, of the written key.
LEMMA CommitRecords ==
  ASSUME PInv, Commit
  PROVE  /\ \A p \in Pages \ {current.page} : flash'[p].log = flash[p].log
         /\ \E r \in Metadata :
              /\ r.key = request.key
              /\ flash'[current.page].log = Append(flash[current.page].log, r)
<1> USE DEF Commit
<1>1. IInv /\ request \in Request /\ ~is_full /\ RequestSize \in Nat
    BY RequestSizeNat DEF PInv, IInv, RequestInv
<1>2. /\ current \in [page : Pages, data_byte_count : Nat, metadata_count : Nat]
      /\ get_write_size(RequestSize) \in Nat
    BY <1>1, WriteSizeNat DEF IInv, TypeOK
<1>3. flash[current.page].torn = get_write_size(RequestSize)
    BY <1>1, <1>2 DEF IInv, TornInv, PendingSize
<1>4. Required <= current_free_bytes
    BY <1>1 DEF IInv, RequestInv
<1>5. current.data_byte_count + get_write_size(RequestSize)
        + (current.metadata_count + 2) * MetadataSize <= PageSize
    BY <1>2, <1>4, ConstantsAssumption DEF Required, current_free_bytes, MetadataSize
<1>6. landed.key = request.key
    BY DEF PInv, CopiedInv
<1> QED
    BY <1>1, <1>3, <1>5, <1>6, SetCommitFacts

\* Committing a request changes the presence of its key only.
LEMMA CommitPresence ==
  ASSUME PInv, Commit
  PROVE  /\ CopiedInv'
         /\ \A k \in Keys \ {request.key} :
              (\E p \in Pages : LiveIn(flash'[p].log, k)) <=> Present(k)
<1>1. PICK r \in Metadata :
        r.key = request.key /\ flash'[current.page].log = Append(flash[current.page].log, r)
    BY CommitRecords
<1>2. \A p \in Pages \ {current.page} : flash'[p].log = flash[p].log
    BY CommitRecords
<1>3. /\ current.page \in Pages /\ request.key \in Keys
      /\ \A p \in Pages : flash[p].log \in Seq(Metadata)
    BY DEF PInv, IInv, TypeOK, RequestInv, Request, Commit
<1>4. ASSUME NEW k \in Keys \ {request.key}, NEW p \in Pages
      PROVE  LiveIn(flash'[p].log, k) <=> LiveIn(flash[p].log, k)
  <2>1. CASE p # current.page
      BY <1>2, <2>1
  <2>2. CASE p = current.page
    <3>1. LiveIn(Append(flash[p].log, r), k) <=> (k = r.key /\ ~r.removed) \/ (k # r.key /\ LiveIn(flash[p].log, k))
        BY <1>3, AppendLive
    <3> QED  BY <1>1, <2>2, <3>1
  <2> QED  BY <2>1, <2>2
<1>5. ASSUME NEW p \in Pages, NEW i \in 1 .. Len(flash'[p].log)
      PROVE  flash'[p].log[i].key \in Keys
  <2>1. CASE p # current.page
      BY <1>2, <2>1 DEF PInv, CopiedInv
  <2>2. CASE p = current.page
    <3> DEFINE log == flash[p].log
    <3>1. log \in Seq(Metadata) /\ i \in 1 .. Len(Append(log, r)) /\ flash'[p].log = Append(log, r)
        BY <1>1, <1>3, <2>2
    <3>2. Append(log, r)[i] = IF i <= Len(log) THEN log[i] ELSE r
        BY <3>1
    <3>3. i <= Len(log) => log[i].key \in Keys
        BY <3>1 DEF PInv, CopiedInv
    <3> QED  BY <1>1, <1>3, <3>1, <3>2, <3>3
  <2> QED  BY <2>1, <2>2
<1>6. pc' = "idle"
    BY DEF Commit
<1>7. CopiedInv'
    BY <1>5, <1>6 DEF CopiedInv, Collecting
<1> QED
    BY <1>4, <1>7 DEF Present

\* The records after a copy: one more live record of the copied key.
LEMMA CollectCommitRecords ==
  ASSUME PInv, CollectCommit
  PROVE  /\ \A p \in Pages \ {current.page} : flash'[p].log = flash[p].log
         /\ \E r \in Metadata :
              /\ r.key = SourceRecord.key /\ ~r.removed
              /\ flash'[current.page].log = Append(flash[current.page].log, r)
         /\ current'.page = current.page
<1> USE DEF CollectCommit
<1> DEFINE log == flash[Source].log
           n == get_write_size(SourceRecord.size)
<1>1. Collecting /\ IInv /\ pc = "collect_commit" /\ index <= Len(log)
    BY DEF PInv, IInv, CollectInv, Collecting
<1>2. /\ ~is_full
      /\ current \in [page : Pages, data_byte_count : Nat, metadata_count : Nat]
      /\ log \in Seq(Metadata) /\ GoodLog(log) /\ index \in 1 .. Len(log)
      /\ SourceRecord.size \in Nat /\ n \in Nat
    BY <1>1, SourceFacts
<1>3. flash[current.page].torn = n
    BY <1>1, <1>2 DEF IInv, TornInv, PendingSize
<1>4. /\ current.metadata_count <= index - 1
      /\ current.data_byte_count <= StartOf(log, index)
    BY <1>1 DEF IInv, CollectInv
<1>5. /\ StartOf(log, index + 1) = StartOf(log, index) + n
      /\ StartOf(log, index) \in Nat
      /\ StartOf(log, index + 1) <= EndOfData(log)
    BY <1>2, StartOfNext DEF SourceRecord
<1>6. EndOfData(log) \in Nat /\ EndOfData(log) + (Len(log) + 1) * MetadataSize <= PageSize
    BY <1>2, EndOfDataNat DEF GoodLog
<1>7. Len(log) \in Nat /\ current.metadata_count + 2 <= Len(log) + 1
    BY <1>2, <1>4
<1> HIDE DEF n, log
<1>8. current.data_byte_count + n <= EndOfData(log) /\ StartOf(log, index + 1) \in Nat
    BY <1>2, <1>4, <1>5, <1>6
<1>10. current.data_byte_count + n + (current.metadata_count + 2) * MetadataSize <= PageSize
  <2>1. /\ current.data_byte_count \in Nat /\ n \in Nat
        /\ current.metadata_count \in Nat
      BY <1>2
  <2>2. /\ current.data_byte_count + n \in Nat /\ current.metadata_count + 2 \in Nat
        /\ Len(log) + 1 \in Nat
      BY <1>7, <2>1
  <2> QED  BY <1>6, <1>7, <1>8, <2>2, Room
<1>9. landed.key = SourceRecord.key
    BY <1>1 DEF PInv, CopiedInv
<1> QED
    BY <1>1, <1>2, <1>3, <1>9, <1>10, SetCommitFacts DEF n

\* Committing a copy changes the presence of no key.
LEMMA CollectCommitPresence ==
  ASSUME PInv, CollectCommit
  PROVE  /\ CopiedInv'
         /\ \A k \in Keys : (\E p \in Pages : LiveIn(flash'[p].log, k)) <=> Present(k)
<1> DEFINE log == flash[Source].log
           cur == flash[current.page].log
           key == SourceRecord.key
<1>1. PICK r \in Metadata :
        r.key = key /\ ~r.removed /\ flash'[current.page].log = Append(cur, r)
    BY CollectCommitRecords
<1>2. (\A p \in Pages \ {current.page} : flash'[p].log = flash[p].log) /\ current'.page = current.page
    BY CollectCommitRecords
<1>3. Collecting /\ IInv /\ pc = "collect_commit" /\ index <= Len(log)
    BY DEF CollectCommit, PInv, IInv, CollectInv, Collecting
<1>4. /\ Source \in Pages /\ Source # current.page /\ current.page \in Pages
      /\ log \in Seq(Metadata) /\ index \in 1 .. Len(log)
      /\ \A p \in Pages : flash[p].log \in Seq(Metadata)
    BY <1>3, SourceFacts DEF IInv, TypeOK
<1>5. key \in Keys /\ Present(key)
    BY <1>3, <1>4 DEF PInv, CopiedInv, Present, SourceRecord
<1>6. \A k \in Keys : LiveIn(flash'[current.page].log, k) <=> (k = key \/ LiveIn(cur, k))
    BY <1>1, <1>4, AppendLive
<1>7. \A p \in Pages \ {current.page} : \A k \in Keys :
        LiveIn(flash'[p].log, k) <=> LiveIn(flash[p].log, k)
    BY <1>2
<1>8. \A k \in Keys : (\E p \in Pages : LiveIn(flash'[p].log, k)) <=> Present(k)
    BY <1>4, <1>5, <1>6, <1>7 DEF Present
<1>9. ASSUME NEW p \in Pages, NEW i \in 1 .. Len(flash'[p].log)
      PROVE  flash'[p].log[i].key \in Keys
  <2>1. CASE p # current.page
      BY <1>2, <2>1 DEF PInv, CopiedInv
  <2>2. CASE p = current.page
    <3>1. cur \in Seq(Metadata) /\ i \in 1 .. Len(Append(cur, r)) /\ flash'[p].log = Append(cur, r)
        BY <1>1, <1>4, <2>2
    <3>2. Append(cur, r)[i] = IF i <= Len(cur) THEN cur[i] ELSE r
        BY <3>1
    <3>3. i <= Len(cur) => cur[i].key \in Keys
        BY <1>4, <3>1 DEF PInv, CopiedInv
    <3> QED  BY <1>1, <1>5, <3>1, <3>2, <3>3
  <2> QED  BY <2>1, <2>2
<1>10. \A i \in 1 .. index - 1 :
         ~log[i].removed /\ LiveIn(log, log[i].key) => LiveIn(cur, log[i].key)
    BY <1>3 DEF PInv, CopiedInv
<1>11. \A i \in 1 .. Len(log) : log[i].key \in Keys
    BY <1>4 DEF PInv, CopiedInv
<1>12. \A i \in 1 .. index :
         ~log[i].removed /\ LiveIn(log, log[i].key) => LiveIn(flash'[current.page].log, log[i].key)
    BY <1>4, <1>6, <1>10, <1>11 DEF SourceRecord
<1>13. /\ Source' = Source /\ flash'[Source].log = log
       /\ index' - 1 = index /\ pc' = "collect"
    BY <1>2, <1>4 DEF CollectCommit, Source, NextPage
<1>14. CopiedInv'
    BY <1>2, <1>9, <1>12, <1>13 DEF CopiedInv, LiveIn
<1> QED
    BY <1>8, <1>14

\* At the end of a collection every key that was live on the collected page is
\* live on the current one, so erasing the page loses none.
LEMMA CollectErasePresence ==
  ASSUME PInv, CollectErase
  PROVE  /\ CopiedInv'
         /\ \A k \in Keys : (\E p \in Pages : LiveIn(flash'[p].log, k)) <=> Present(k)
<1> DEFINE log == flash[Source].log
           cur == flash[current.page].log
<1>1. Collecting /\ IInv /\ pc = "collect"
    BY DEF CollectErase, PInv, Collecting
<1>2. /\ Source \in Pages /\ Source # current.page /\ current.page \in Pages
      /\ log \in Seq(Metadata) /\ index = Len(log) + 1
    BY <1>1, SourceFacts DEF CollectErase
<1>3. /\ flash'[Source].log = << >>
      /\ \A q \in Pages \ {Source} : flash'[q].log = flash[q].log
    BY <1>1, <1>2, NvmEraseFacts DEF CollectErase
<1>4. ASSUME NEW k \in Keys, LiveIn(log, k) PROVE LiveIn(cur, k)
  <2>1. PICK i \in 1 .. Len(log) : log[i].key = k /\ ~log[i].removed
      BY <1>4 DEF LiveIn
  <2>2. i \in 1 .. index - 1
      BY <1>2, <2>1
  <2> QED  BY <1>1, <1>4, <2>1, <2>2 DEF PInv, CopiedInv
<1>5. \A k \in Keys : ~LiveIn(<< >>, k)
    BY DEF LiveIn
<1>6. \A k \in Keys : (\E p \in Pages : LiveIn(flash'[p].log, k)) <=> Present(k)
    BY <1>2, <1>3, <1>4, <1>5 DEF Present
<1>7. pc' \in {"idle", "allocate"}
    BY DEF CollectErase
<1>8. CopiedInv'
    BY <1>3, <1>7 DEF PInv, CopiedInv, Collecting
<1> QED
    BY <1>6, <1>8

\* What one step may do to the keys in the store.
KeptKeys ==
  \A k \in Keys :
    \/ (\E p \in Pages : LiveIn(flash'[p].log, k)) <=> Present(k)
    \/ pc = "erase"
    \/ pc = "commit" /\ request.key = k

\* A store with the same records has the same keys.
LEMMA KeptBySame ==
  ASSUME \A p \in Pages : flash'[p].log = flash[p].log
  PROVE  KeptKeys
  BY SameRecords DEF KeptKeys

\* A header that is not committed changes the presence of no key.
LEMMA AllocateFitsPresence ==
  ASSUME PInv, AllocateFits
  PROVE  CopiedInv' /\ KeptKeys
<1>1. request \in Request /\ RequestSize \in Nat
    BY RequestSizeNat DEF PInv, IInv, RequestInv, AllocateFits
<1>2. (\A p \in Pages : flash'[p].log = flash[p].log) /\ landed'.key = request.key
    BY <1>1, WriteDataFacts DEF PInv, AllocateFits, Request
<1>3. ~Collecting' /\ request' = request
    BY DEF AllocateFits, Collecting
<1> QED
    BY <1>2, <1>3, IdleCopied, KeptBySame DEF PInv

\* Nor does going to the next page.
LEMMA AllocateAdvancePresence ==
  ASSUME PInv, AllocateAdvance
  PROVE  CopiedInv' /\ KeptKeys
<1>1. \A p \in Pages : flash'[p].log = flash[p].log
    BY DEF AllocateAdvance
<1>2. pc' \in {"allocate", "collect"} /\ (pc' = "collect" => index' = 1)
    BY DEF AllocateAdvance
<1>3. \A p \in Pages : \A i \in 1 .. Len(flash'[p].log) : flash'[p].log[i].key \in Keys
    BY <1>1 DEF PInv, CopiedInv
<1>4. pc' = "collect" => 1 .. index' - 1 = {}
    BY <1>2
<1>5. CopiedInv'
    BY <1>2, <1>3, <1>4 DEF CopiedInv, Collecting
<1> QED
    BY <1>1, <1>5, KeptBySame

\* Nor does erasing a page whose records were copied.
LEMMA ErasePagePresence ==
  ASSUME PInv, ErasePage
  PROVE  CopiedInv' /\ KeptKeys
<1>1. index \in Pages
    BY ConstantsAssumption DEF ErasePage, PInv, IInv, TypeOK, Pages
<1>2. /\ flash'[index].log = << >>
      /\ \A q \in Pages \ {index} : flash'[q].log = flash[q].log
    BY <1>1, NvmEraseFacts DEF ErasePage, PInv
<1>3. \A p \in Pages : \A i \in 1 .. Len(flash'[p].log) : flash'[p].log[i].key \in Keys
    BY <1>1, <1>2 DEF PInv, CopiedInv
<1>4. pc' = "erase" /\ pc = "erase"
    BY DEF ErasePage
<1> QED
    BY <1>3, <1>4 DEF CopiedInv, Collecting, KeptKeys

\* Every step keeps the invariant and changes only the keys it may.
LEMMA NextPresence ==
  ASSUME NoTornWrites, PInv, [Next]_vars
  PROVE  CopiedInv' /\ KeptKeys
<1>1. ASSUME flash' = flash, pc' \in {"idle", "allocate", "erase"}
      PROVE  CopiedInv' /\ KeptKeys
    BY <1>1, IdleCopied, KeptBySame DEF PInv, Collecting
<1>2. ASSUME NEW k \in Keys, NEW v \in Values, set(k, v) PROVE CopiedInv' /\ KeptKeys
    BY <1>1, <1>2 DEF set, Begin
<1>3. ASSUME NEW k \in Keys, remove(k) PROVE CopiedInv' /\ KeptKeys
    BY <1>1, <1>3 DEF remove, Begin
<1>4. CASE erase
    BY <1>1, <1>4 DEF erase
<1>5. CASE Reboot
    BY <1>1, <1>5 DEF Reboot
<1>6. CASE EraseEnd
    BY <1>1, <1>6 DEF EraseEnd
<1>7. CASE Commit
    BY <1>7, CommitPresence DEF KeptKeys, Commit
<1>8. CASE CollectSkip
    BY <1>8, CollectSkipCopied, KeptBySame DEF CollectSkip
<1>9. CASE CollectCopy
    BY <1>9, CollectCopyCopied, KeptBySame
<1>10. CASE CollectCommit
    BY <1>10, CollectCommitPresence DEF KeptKeys
<1>11. CASE CollectErase
    BY <1>11, CollectErasePresence DEF KeptKeys
<1>12. CASE UNCHANGED vars
  <2>1. UNCHANGED << flash, current, pc, request, index, landed >>
      BY <1>12 DEF vars
  <2>2. Collecting' = Collecting /\ Source' = Source /\ SourceRecord' = SourceRecord
      BY <2>1 DEF Collecting, Source, SourceRecord, NextPage
  <2>3. CopiedInv
      BY DEF PInv
  <2>4. CopiedInv'
    <3> HIDE <1>12
    <3> QED  BY <2>1, <2>2, <2>3 DEF CopiedInv
  <2> QED  BY <2>1, <2>4, KeptBySame
<1> QED
    BY <1>2, <1>3, <1>4, <1>5, <1>6, <1>7, <1>8, <1>9, <1>10, <1>11, <1>12,
       AllocateFitsPresence, AllocateAdvancePresence, ErasePagePresence DEF Next, Step

\* At the start there is nothing to copy.
LEMMA InitPInv == Init => PInv
<1> SUFFICES ASSUME Init PROVE CopiedInv
    BY InitIInv DEF PInv
<1>1. \A p \in Pages : flash[p].log = << >>
    BY DEF Init, ErasedPage
<1> QED
    BY <1>1 DEF Init, CopiedInv, Collecting

\* Whatever a collection copies and wherever a restart falls between two records,
\* a key enters or leaves the store only by a set or remove of that key, or by
\* erasing the store.
THEOREM PresenceSafe == NoTornWrites => (Spec => PresencePreserved)
<1> SUFFICES ASSUME NoTornWrites PROVE Spec => PresencePreserved
    OBVIOUS
<1>1. PInv /\ [Next]_vars => PInv'
    BY NextPresence, NextIInv DEF PInv
<1>2. ASSUME PInv, PInv', [Next]_vars
      PROVE  \A k \in Keys :
               has(k)' # has(k) => pc = "erase" \/ (pc = "commit" /\ request.key = k)
  <2>1. KeptKeys
      BY <1>2, NextPresence
  <2>2. \A k \in Keys : has(k) <=> Present(k)
      BY <1>2, LiveOnIsLiveIn DEF PInv, Present
  <2>3. \A k \in Keys : has(k)' <=> \E p \in Pages : LiveIn(flash'[p].log, k)
      BY <1>2, LiveOnIsLiveInNext DEF PInv
  <2>4. \A k \in Keys : has(k) \in BOOLEAN /\ has(k)' \in BOOLEAN
      BY DEF has
  <2> QED
      BY <2>1, <2>2, <2>3, <2>4 DEF KeptKeys
<1>3. PInv /\ PInv' /\ [Next]_vars =>
        [\A k \in Keys :
           has(k)' # has(k) => pc = "erase" \/ (pc = "commit" /\ request.key = k)]_vars
    BY <1>2
<1> QED
    BY <1>1, <1>3, InitPInv, PTL DEF Spec, PresencePreserved

-----------------------------------------------------------------------------
(* Values: which record a get reads.                                       *)

\* How many pages page p is before page c, and the page that is d pages before c.
AgeFrom(c, p) == IF p <= c THEN c - p ELSE c + PageCount - p
PageAt(c, d) == IF d <= c THEN c - d ELSE c + PageCount - d

\* The pages are walked back from the current one, each once.
LEMMA PageAtFacts ==
  ASSUME NEW c \in Pages
  PROVE  /\ \A d \in 0 .. PageCount - 1 :
              /\ (c + PageCount - d) % PageCount = PageAt(c, d)
              /\ PageAt(c, d) \in Pages /\ AgeFrom(c, PageAt(c, d)) = d
         /\ \A p \in Pages : AgeFrom(c, p) \in 0 .. PageCount - 1 /\ PageAt(c, AgeFrom(c, p)) = p
<1>1. ASSUME NEW d \in 0 .. PageCount - 1
      PROVE  (c + PageCount - d) % PageCount = PageAt(c, d)
  <2>1. CASE d <= c
    <3>1. (c - d) % PageCount = c - d /\ c + PageCount - d = (c - d) + PageCount
        BY <2>1, ConstantsAssumption DEF Pages
    <3> QED  BY <2>1, <3>1, ConstantsAssumption DEF PageAt, Pages
  <2>2. CASE d > c
      BY <2>2, ConstantsAssumption DEF PageAt, Pages
  <2> QED  BY <2>1, <2>2, ConstantsAssumption DEF Pages
<1>2. \A d \in 0 .. PageCount - 1 : PageAt(c, d) \in Pages /\ AgeFrom(c, PageAt(c, d)) = d
    BY ConstantsAssumption DEF PageAt, AgeFrom, Pages
<1>3. \A p \in Pages : AgeFrom(c, p) \in 0 .. PageCount - 1 /\ PageAt(c, AgeFrom(c, p)) = p
    BY ConstantsAssumption DEF PageAt, AgeFrom, Pages
<1> QED
    BY <1>1, <1>2, <1>3

\* Page p has the key and no page nearer to the current one has it.
FirstFound(p, k) ==
  /\ LiveOn(p, k)
  /\ \A q \in Pages : LiveOn(q, k) => AgeFrom(current.page, p) <= AgeFrom(current.page, q)

LookupFinds ==
  current.page \in Pages =>
    \A k \in Keys, p \in Pages : FirstFound(p, k) => lookup(k) = lookup_on_page(p, k)

\* lookup reads the nearest page that has the key.
LEMMA LookupIsNearest == LookupFinds
<1> SUFFICES ASSUME current.page \in Pages, NEW k \in Keys, NEW p \in Pages, FirstFound(p, k)
             PROVE  lookup(k) = lookup_on_page(p, k)
    BY DEF LookupFinds
<1> DEFINE c == current.page
           age == AgeFrom(c, p)
           Nearest(d) == /\ LiveOn(Back(d), k)
                         /\ \A e \in 0 .. d - 1 : ~LiveOn(Back(e), k)
<1>1. \A d \in 0 .. PageCount - 1 :
        Back(d) = PageAt(c, d) /\ PageAt(c, d) \in Pages /\ AgeFrom(c, PageAt(c, d)) = d
    BY PageAtFacts DEF Back
<1>2. age \in 0 .. PageCount - 1 /\ PageAt(c, age) = p
    BY PageAtFacts
<1> HIDE DEF c
<1>3. /\ LiveOn(p, k)
      /\ \A q \in Pages : LiveOn(q, k) => age <= AgeFrom(c, q)
    BY DEF FirstFound, c
<1>4. ASSUME NEW e \in 0 .. age - 1 PROVE ~LiveOn(Back(e), k)
  <2>1. e \in 0 .. PageCount - 1 /\ ~(age <= e)
      BY <1>2, ConstantsAssumption
  <2>2. Back(e) \in Pages /\ AgeFrom(c, Back(e)) = e
      BY <1>1, <2>1
  <2> QED  BY <1>3, <2>1, <2>2
<1>5. Nearest(age)
  <2>1. Back(age) = p
      BY <1>1, <1>2
  <2> QED  BY <1>3, <1>4, <2>1
<1>6. ASSUME NEW d \in 0 .. PageCount - 1, Nearest(d) PROVE d = age
  <2>1. ~(age \in 0 .. d - 1)
      BY <1>5, <1>6
  <2>2. ~(d \in 0 .. age - 1)
      BY <1>4, <1>6
  <2> QED  BY <1>2, <2>1, <2>2, ConstantsAssumption
<1> HIDE DEF age, Nearest
<1>7. (CHOOSE d \in 0 .. PageCount - 1 : Nearest(d)) = age
    BY <1>2, <1>5, <1>6, Zenon
<1>8. has(k)
    BY <1>3 DEF has
<1>9. Back(age) = p
    BY <1>1, <1>2
<1> QED
    BY <1>7, <1>8, <1>9 DEF lookup, Nearest

CountsAgree == TypeOK /\ LogInv => \A p \in Pages : get_metadata_count(p) = Len(flash[p].log)

\* The count of the metadata is the length of the log.
LEMMA CountsAgreeHolds == CountsAgree
    BY CountIsLength DEF CountsAgree

\* The data that waits for its record is the pair of the call.
LandedInv == pc = "commit" => landed = [key |-> request.key, value |-> request.value]

\* Every step keeps it so.
LEMMA NextLandedInv ==
  ASSUME IInv, LandedInv, [Next]_vars
  PROVE  LandedInv'
<1>1. CASE AllocateFits
  <2>1. flash[current.page].torn = 0
      BY <1>1 DEF AllocateFits, IInv, TornInv, TypeOK
  <2>2. landed' \in [key : {request.key}, value : {request.value}] /\ request' = request
      BY <1>1, <2>1 DEF AllocateFits, WriteData
  <2> QED  BY <2>2 DEF LandedInv
<1>2. CASE ~AllocateFits /\ ~UNCHANGED vars
  <2>1. pc' # "commit"
    BY <1>2 DEF Next, Step, set, remove, Begin, erase, Reboot, AllocateAdvance, Commit, CollectSkip,
                CollectCopy, CollectCommit, CollectErase, ErasePage, EraseEnd
  <2> QED  BY <2>1 DEF LandedInv
<1>3. CASE UNCHANGED vars
    BY <1>3 DEF LandedInv, vars
<1> QED
    BY <1>1, <1>2, <1>3

\* A pair that was committed is the first that lookup finds.
LEMMA CommitIsRead ==
  ASSUME IInv, IInv', LandedInv, Commit, request.value # NULL, NEW k \in {request.key}
  PROVE  lookup(k)' = request.value
<1>1. /\ pc = "commit" /\ request \in Request /\ k \in Keys
      /\ landed = [key |-> k, value |-> request.value]
    BY DEF Commit, IInv, RequestInv, LandedInv, Request
<1>2. PICK c \in Pages : c = current.page
    BY DEF IInv, TypeOK
<1>3. /\ flash \in [Pages -> [log : Seq(Metadata), torn : Nat]]
      /\ current \in [page : Pages, data_byte_count : Nat, metadata_count : Nat]
    BY DEF IInv, TypeOK
<1>4. PICK log \in Seq(Metadata) : log = flash[c].log
    BY <1>3
<1>5. PICK r : r = [key |-> k, value |-> request.value, removed |-> FALSE,
                    offset |-> current.data_byte_count, size |-> RequestSize]
    OBVIOUS
<1>6. flash'[c].log = Append(log, r) /\ current'.page = c
    BY <1>1, <1>2, <1>3, <1>4, <1>5 DEF Commit, set_commit
<1>7. PICK n \in Nat : n = Len(log) + 1 /\ n >= 1
    BY <1>4
<1>8. Len(Append(log, r)) = n /\ Append(log, r)[n] = r
    BY <1>4, <1>7
<1>9. r.key = k /\ r.value = request.value /\ ~r.removed
    BY <1>5
<1>10. (CountsAgree /\ LookupFinds)'
    BY CountsAgreeHolds, LookupIsNearest, PTL
<1>11. get_metadata_count(c)' = n /\ flash'[c].log[n] = r
    BY <1>2, <1>6, <1>8, <1>10 DEF CountsAgree, IInv
<1>12. IsNewest(c, k, n)' /\ \A i : IsNewest(c, k, i)' => i = n
    BY <1>7, <1>9, <1>11 DEF IsNewest
<1>13. LiveOn(c, k)'
    BY <1>7, <1>9, <1>11, <1>12 DEF LiveOn
<1>14. lookup_on_page(c, k)' = request.value
  <2>1. (CHOOSE i \in 1 .. get_metadata_count(c)' : IsNewest(c, k, i)') = n
      BY <1>7, <1>11, <1>12
  <2> QED  BY <1>9, <1>11, <2>1 DEF lookup_on_page
<1>15. \A q \in Pages : AgeFrom(c, c) <= AgeFrom(c, q)
    BY ConstantsAssumption DEF AgeFrom, Pages
<1>16. FirstFound(c, k)'
    BY <1>6, <1>13, <1>15 DEF FirstFound
<1>17. lookup(k)' = lookup_on_page(c, k)'
    BY <1>1, <1>6, <1>10, <1>16 DEF LookupFinds
<1> QED
    BY <1>14, <1>17

\* A get after a set that returned true reads what was set, on any number of pages and
\* whatever they held before.
THEOREM SetSafe == NoTornWrites => (Spec => SetIsRead)
<1> SUFFICES ASSUME NoTornWrites PROVE Spec => SetIsRead
    OBVIOUS
<1>1. IInv /\ LandedInv /\ [Next]_vars => (IInv /\ LandedInv)'
    BY NextLandedInv, NextIInv
<1>2. Init => IInv /\ LandedInv
    BY InitIInv DEF Init, LandedInv
<1>3. IInv /\ IInv' /\ LandedInv /\ [Next]_vars =>
        [Commit /\ request.value # NULL
           => \A k \in {request.key} : lookup(k)' = request.value]_vars
    BY CommitIsRead
<1> QED
    BY <1>1, <1>2, <1>3, PTL DEF Spec, SetIsRead

-----------------------------------------------------------------------------
(* Values over restarts: the pages keep the order in which lookup reads    *)
(* them.                                                                   *)

PairSize(k, v) == KeySize[k] + (IF v = NULL THEN 0 ELSE ValueSize[v])

\* Every pair fits on an erased page.
PairsFit ==
  \A k \in Keys, v \in Values \cup {NULL} :
    get_write_size(PairSize(k, v)) + 2 * MetadataSize <= PageSize

\* An empty page between an occupied page and the current one is there only because
\* the store is being erased from page 0, or was when the power failed.
Holes(occupied, c) ==
  \A p, q \in Pages :
    p \in occupied /\ q \notin occupied /\ q # c /\ AgeFrom(c, q) < AgeFrom(c, p)
      => \A r \in 0 .. q : r \notin occupied

\* The store is full when a restart finds no empty page, and then page 0 is current,
\* or when collections made no room, and then the last one left an empty page.
NextFree == pc \notin {"collect", "collect_commit"} =>
  NextPage(current.page) \notin Occupied \/ current.page = 0

ErasedSoFar == pc = "erase" => \A p \in Pages : p < index => p \notin Occupied

OrderInv == Holes(Occupied, current.page) /\ NextFree /\ ErasedSoFar

\* The page after another one, round the end of the storage.
LEMMA NextPageIs ==
  \A p \in Pages : NextPage(p) = IF p = PageCount - 1 THEN 0 ELSE p + 1
<1> SUFFICES ASSUME NEW p \in Pages
             PROVE  NextPage(p) = IF p = PageCount - 1 THEN 0 ELSE p + 1
    OBVIOUS
<1>1. CASE p = PageCount - 1
    BY <1>1, ConstantsAssumption DEF NextPage, Pages
<1>2. CASE p # PageCount - 1
    BY <1>2, ConstantsAssumption DEF NextPage, Pages
<1> QED
    BY <1>1, <1>2

\* Advancing from an occupied page.
LEMMA AdvanceHoles ==
  ASSUME NEW occupied \in SUBSET Pages, NEW c \in occupied, Holes(occupied, c)
  PROVE  Holes(occupied, NextPage(c))
<1> DEFINE n == NextPage(c)
<1>1. /\ PageCount \in Nat /\ c \in Pages
      /\ n = IF c = PageCount - 1 THEN 0 ELSE c + 1
    BY ConstantsAssumption, NextPageIs
<1> HIDE DEF n
<1> SUFFICES ASSUME NEW p \in Pages, NEW q \in Pages, p \in occupied, q \notin occupied, q # n,
                    AgeFrom(n, q) < AgeFrom(n, p)
             PROVE  \A r \in 0 .. q : r \notin occupied
    BY DEF Holes, n
<1>2. q # c /\ AgeFrom(c, q) < AgeFrom(c, p)
    BY <1>1 DEF AgeFrom, Pages
<1> QED
    BY <1>2 DEF Holes

\* Erasing the pages one after the other from page 0, and erasing the oldest page.
LEMMA EraseHoles ==
  ASSUME NEW occupied \in SUBSET Pages, NEW c \in Pages, Holes(occupied, c), NEW e \in Pages,
         (\A p \in Pages : p < e => p \notin occupied) \/ e = NextPage(c)
  PROVE  Holes(occupied \ {e}, c)
<1> SUFFICES ASSUME NEW p \in Pages, NEW q \in Pages, p \in occupied \ {e}, q \notin occupied \ {e},
                    q # c, AgeFrom(c, q) < AgeFrom(c, p)
             PROVE  \A r \in 0 .. q : r \notin occupied \ {e}
    BY DEF Holes
<1>1. CASE q # e
    BY <1>1 DEF Holes
<1>2. CASE q = e /\ \A r \in Pages : r < e => r \notin occupied
    BY <1>2, ConstantsAssumption DEF Pages
<1>3. CASE q = e /\ e = NextPage(c)
  <2>1. e = IF c = PageCount - 1 THEN 0 ELSE c + 1
      BY <1>3, NextPageIs
  <2> QED
      BY <1>3, <2>1, ConstantsAssumption DEF AgeFrom, Pages
<1> QED
    BY <1>1, <1>2, <1>3

\* Writing to the current page.
LEMMA WriteHoles ==
  ASSUME NEW occupied \in SUBSET Pages, NEW c \in Pages, Holes(occupied, c)
  PROVE  Holes(occupied \cup {c}, c)
<1> SUFFICES ASSUME NEW p \in Pages, NEW q \in Pages, p \in occupied \cup {c}, q \notin occupied \cup {c},
                    q # c, AgeFrom(c, q) < AgeFrom(c, p)
             PROVE  \A r \in 0 .. q : r \notin occupied \cup {c}
    BY DEF Holes
<1>1. p # c
    BY ConstantsAssumption DEF AgeFrom, Pages
<1>2. \A r \in 0 .. q : r \notin occupied
    BY <1>1 DEF Holes
<1>3. ~(c \in 0 .. q)
  <2>1. SUFFICES ASSUME c <= q PROVE FALSE
      BY DEF Pages
  <2>2. p > q
      BY <1>1, <1>2, ConstantsAssumption DEF Pages
  <2> QED
      BY <2>1, <2>2, ConstantsAssumption DEF AgeFrom, Pages
<1> QED
    BY <1>2, <1>3

\* Lookup reads the occupied pages in the same order from page c as from page d.
SameOrder(occupied, c, d) ==
  \A p, q \in occupied : AgeFrom(c, p) <= AgeFrom(c, q) <=> AgeFrom(d, p) <= AgeFrom(d, q)

\* The first empty page after the lowest occupied one, without the remainder.
LEMMA FirstEmptyFacts ==
  ASSUME NEW e \in Pages, IsFirstEmpty(e)
  PROVE  \E f \in Occupied :
           /\ \A p \in Occupied : f <= p
           /\ e \notin Occupied
           /\ \/ f < e /\ (\A p \in Pages : f <= p /\ p < e => p \in Occupied)
                 /\ (e + PageCount - 1) % PageCount = e - 1
              \/ e = 0 /\ (\A p \in Pages : f <= p => p \in Occupied)
                 /\ (e + PageCount - 1) % PageCount = PageCount - 1
<1>1. PICK f \in Occupied, d \in 1 .. PageCount - 1 :
        /\ \A p \in Occupied : f <= p
        /\ e = (f + d) % PageCount
        /\ is_page_empty(e)
        /\ \A c \in 1 .. d - 1 : ~is_page_empty((f + c) % PageCount)
    BY DEF IsFirstEmpty
<1>2. PageCount \in Nat /\ PageCount >= 2 /\ f \in Pages /\ e \notin Occupied
    BY <1>1, ConstantsAssumption DEF Occupied
<1>3. \A c \in 1 .. PageCount - 1 :
        (f + c) % PageCount = IF f + c < PageCount THEN f + c ELSE f + c - PageCount
  <2> SUFFICES ASSUME NEW c \in 1 .. PageCount - 1
               PROVE  (f + c) % PageCount = IF f + c < PageCount THEN f + c ELSE f + c - PageCount
      OBVIOUS
  <2>1. CASE f + c < PageCount
      BY <1>2, <2>1 DEF Pages
  <2>2. CASE f + c >= PageCount
    <3>1. (f + c - PageCount) % PageCount = f + c - PageCount
        BY <1>2, <2>2 DEF Pages
    <3> QED  BY <1>2, <2>2, <3>1 DEF Pages
  <2> QED  BY <1>2, <2>1, <2>2 DEF Pages
<1>4. \A c \in 1 .. d - 1 :
        (IF f + c < PageCount THEN f + c ELSE f + c - PageCount) \in Occupied
  <2> SUFFICES ASSUME NEW c \in 1 .. d - 1
               PROVE  (IF f + c < PageCount THEN f + c ELSE f + c - PageCount) \in Occupied
      OBVIOUS
  <2>1. c \in 1 .. PageCount - 1 /\ ~is_page_empty((f + c) % PageCount)
      BY <1>1, <1>2
  <2>2. (IF f + c < PageCount THEN f + c ELSE f + c - PageCount) \in Pages
      BY <1>2, <2>1 DEF Pages
  <2> QED
      BY <1>3, <2>1, <2>2 DEF Occupied
<1>5. CASE f + d < PageCount
  <2>1. e = f + d /\ f < e
      BY <1>1, <1>2, <1>3, <1>5 DEF Pages
  <2>2. ASSUME NEW p \in Pages, f <= p, p < e PROVE p \in Occupied
    <3>1. p = f \/ p - f \in 1 .. d - 1
        BY <1>2, <2>1, <2>2 DEF Pages
    <3>2. CASE p - f \in 1 .. d - 1
        BY <1>2, <1>4, <2>2, <3>2 DEF Pages
    <3> QED  BY <3>1, <3>2
  <2>3. (e + PageCount - 1) % PageCount = e - 1
    <3>1. (e - 1) % PageCount = e - 1
        BY <1>2, <2>1 DEF Pages
    <3> QED  BY <1>2, <2>1, <3>1 DEF Pages
  <2> QED
      BY <1>1, <1>2, <2>1, <2>2, <2>3
<1>6. CASE f + d >= PageCount
  <2>1. e = f + d - PageCount /\ e < f
      BY <1>1, <1>2, <1>3, <1>6 DEF Pages
  <2>2. e = 0
    <3> SUFFICES ASSUME e # 0 PROVE FALSE
        OBVIOUS
    <3>1. d - 1 \in 1 .. d - 1 /\ f + (d - 1) - PageCount = e - 1 /\ ~(f + (d - 1) < PageCount)
        BY <1>1, <1>2, <2>1 DEF Pages
    <3>2. e - 1 \in Occupied
        BY <1>4, <3>1
    <3> QED  BY <1>1, <1>2, <2>1, <3>2 DEF Pages
  <2>3. ASSUME NEW p \in Pages, f <= p PROVE p \in Occupied
    <3>1. p = f \/ (p - f \in 1 .. d - 1 /\ f + (p - f) < PageCount)
        BY <1>2, <1>6, <2>3 DEF Pages
    <3>2. CASE p - f \in 1 .. d - 1 /\ f + (p - f) < PageCount
        BY <1>2, <1>4, <2>3, <3>2 DEF Pages
    <3> QED  BY <3>1, <3>2
  <2>4. (e + PageCount - 1) % PageCount = PageCount - 1
      BY <1>2, <2>2
  <2> QED
      BY <1>1, <1>2, <2>2, <2>3, <2>4
<1> QED
    BY <1>2, <1>5, <1>6 DEF Pages

\* A restart finds a page from which lookup reads in the same order, but perhaps after a
\* collection that was cut short.
LEMMA RestartHoles ==
  ASSUME NEW c \in Pages, Holes(Occupied, c), NEW found, NEW page \in Pages,
         get_current_page(found, page)
  PROVE  /\ Holes(Occupied, page)
         /\ NextPage(c) \notin Occupied \/ c = 0 => SameOrder(Occupied, c, page)
         /\ NextPage(page) \notin Occupied \/ page = 0
<1>0. PageCount \in Nat /\ PageCount >= 2 /\ Occupied \subseteq Pages
    BY ConstantsAssumption DEF Occupied
<1>1. NextPage(c) = IF c = PageCount - 1 THEN 0 ELSE c + 1
    BY NextPageIs
<1>2. CASE Occupied = {}
    BY <1>2 DEF Holes, SameOrder
<1>3. CASE Occupied = Pages /\ page = 0
  <2>1. NextPage(c) \in Pages
      BY NextPageFacts
  <2> QED
      BY <1>3, <2>1 DEF Holes, SameOrder
<1>4. ASSUME NEW e \in Pages, IsFirstEmpty(e), page = (e + PageCount - 1) % PageCount
      PROVE  /\ Holes(Occupied, page)
             /\ NextPage(c) \notin Occupied \/ c = 0 => SameOrder(Occupied, c, page)
             /\ NextPage(page) \notin Occupied
  <2>1. PICK f \in Occupied :
           /\ \A p \in Occupied : f <= p
           /\ e \notin Occupied
           /\ \/ f < e /\ (\A p \in Pages : f <= p /\ p < e => p \in Occupied) /\ page = e - 1
              \/ e = 0 /\ (\A p \in Pages : f <= p => p \in Occupied) /\ page = PageCount - 1
      BY <1>4, FirstEmptyFacts
  <2>2. NextPage(page) = e
      BY <1>4, PreviousPage
  <2>3. CASE e = 0 /\ (\A p \in Pages : f <= p => p \in Occupied) /\ page = PageCount - 1
    <3>1. Holes(Occupied, page)
        BY <1>0, <2>1, <2>3 DEF Holes, AgeFrom, Pages
    <3>2. ASSUME NextPage(c) \notin Occupied \/ c = 0 PROVE SameOrder(Occupied, c, page)
      <4>1. c < f \/ c = PageCount - 1
          BY <1>0, <1>1, <2>1, <2>3, <3>2 DEF Pages
      <4> QED
          BY <1>0, <2>1, <2>3, <4>1 DEF SameOrder, AgeFrom, Pages
    <3> QED
        BY <2>1, <2>2, <3>1, <3>2
  <2>4. CASE f < e /\ (\A p \in Pages : f <= p /\ p < e => p \in Occupied) /\ page = e - 1
    <3>1. f \in Pages /\ f \in Int /\ e \in Int /\ c \in Int /\ ~(\A r \in 0 .. e : r \notin Occupied)
        BY <1>0, <2>1, <2>4 DEF Pages
    <3>2. c = e \/ c = e - 1
      <4>1. CASE c > e \/ c < f
        <5>1. e # c /\ AgeFrom(c, e) < AgeFrom(c, f)
            BY <1>0, <2>4, <3>1, <4>1 DEF AgeFrom, Pages
        <5> QED  BY <2>1, <3>1, <5>1 DEF Holes
      <4>2. CASE f <= c /\ c < e - 1
        <5>1. c + 1 \in Pages /\ c + 1 \in Occupied
            BY <1>0, <2>4, <3>1, <4>2 DEF Pages
        <5>2. e # c /\ AgeFrom(c, e) < AgeFrom(c, c + 1)
            BY <1>0, <3>1, <4>2 DEF AgeFrom, Pages
        <5> QED  BY <2>1, <3>1, <5>1, <5>2 DEF Holes
      <4> QED  BY <3>1, <4>1, <4>2
    <3>3. CASE c = page
        BY <2>1, <2>2, <3>3 DEF SameOrder
    <3>4. CASE c = e
      <4>1. SameOrder(Occupied, c, page)
          BY <1>0, <2>1, <2>4, <3>4 DEF SameOrder, AgeFrom, Pages
      <4>2. ASSUME NEW p \in Pages, NEW q \in Pages, p \in Occupied, q \notin Occupied, q # page,
                   AgeFrom(page, q) < AgeFrom(page, p)
            PROVE  \A r \in 0 .. q : r \notin Occupied
        <5>1. q # c /\ AgeFrom(c, q) < AgeFrom(c, p)
            BY <1>0, <2>1, <2>4, <3>4, <4>2 DEF AgeFrom, Pages
        <5> QED  BY <4>2, <5>1 DEF Holes
      <4> QED
          BY <2>1, <2>2, <4>1, <4>2 DEF Holes
    <3> QED
        BY <2>4, <3>2, <3>3, <3>4
  <2> QED
      BY <2>1, <2>3, <2>4
<1> QED
    BY <1>2, <1>3, <1>4, NextPageFacts DEF get_current_page

\* A step that empties and fills no page keeps which pages are occupied.
LEMMA SameOccupied ==
  ASSUME \A p \in Pages : flash'[p].log = flash[p].log
  PROVE  Occupied' = Occupied
BY DEF Occupied, is_page_empty

\* A record is written to the current page.
LEMMA RecordOccupies ==
  ASSUME IInv, NEW size, NEW removed, set_commit(size, removed)
  PROVE  Occupied' = Occupied \cup {current.page} /\ current'.page = current.page
<1>1. PICK c \in Pages : c = current.page
    BY DEF IInv, TypeOK
<1>2. /\ flash \in [Pages -> [log : Seq(Metadata), torn : Nat]]
      /\ current \in [page : Pages, data_byte_count : Nat, metadata_count : Nat]
    BY DEF IInv, TypeOK
<1>3. PICK r : flash'[c].log = Append(flash[c].log, r)
    BY <1>1, <1>2 DEF set_commit
<1>4. flash'[c].log # << >>
  <2>1. flash[c].log \in Seq(Metadata \cup {r})
      BY <1>2
  <2> QED  BY <1>3, <2>1
<1>5. \A p \in Pages \ {c} : flash'[p].log = flash[p].log
    BY <1>1, <1>2 DEF set_commit
<1>6. current'.page = c
    BY <1>1, <1>2 DEF set_commit
<1> QED
    BY <1>1, <1>4, <1>5, <1>6 DEF Occupied, is_page_empty

\* A page is erased.
LEMMA ErasedUnoccupied ==
  ASSUME IInv, pc \notin {"commit", "collect_commit"}, NEW e \in Pages, nvm_erase(e)
  PROVE  Occupied' = Occupied \ {e}
BY NvmEraseFacts DEF Occupied, is_page_empty

\* The page that allocate leaves holds records: every pair fits on an erased one.
LEMMA LeavesOccupied ==
  ASSUME PairsFit, IInv, AllocateAdvance
  PROVE  current.page \in Occupied
<1>1. /\ pc = "allocate" /\ request \in Request /\ ~is_full
      /\ current.page \in Pages /\ Required > current_free_bytes
    BY DEF AllocateAdvance, IInv, RequestInv, TypeOK
<1>2. SUFFICES ASSUME flash[current.page].log = << >> PROVE FALSE
    BY <1>1 DEF Occupied, is_page_empty
<1>3. current_free_bytes = PageSize
    BY <1>1, <1>2, ConstantsAssumption
    DEF IInv, CacheAgrees, EndOfData, current_free_bytes, MetadataSize
<1>4. Required <= PageSize
    BY <1>1 DEF PairsFit, PairSize, Request, Required, RequestSize
<1>5. Required \in Nat
    BY <1>1, RequestSizeNat DEF Required, MetadataSize
<1> QED
    BY <1>1, <1>3, <1>4, <1>5, ConstantsAssumption

\* Every step keeps the occupied pages in order.
LEMMA NextOrderInv ==
  ASSUME NoTornWrites, PairsFit, IInv, OrderInv, [Next]_vars
  PROVE  OrderInv'
<1> DEFINE c == current.page
<1>0. c \in Pages /\ Occupied \subseteq Pages /\ NextPage(c) \in Pages /\ NextPage(c) # c
    BY NextPageFacts DEF IInv, TypeOK, Occupied
<1>1. ASSUME UNCHANGED << flash, current >>, pc' # "erase",
             pc' \notin {"collect", "collect_commit"} => pc \notin {"collect", "collect_commit"}
      PROVE  OrderInv'
    BY <1>1, SameOccupied DEF OrderInv, Holes, NextFree, ErasedSoFar, NextPage
<1>2. ASSUME NEW k \in Keys, NEW v \in Values, set(k, v) PROVE OrderInv'
    BY <1>1, <1>2 DEF set, Begin
<1>3. ASSUME NEW k \in Keys, remove(k) PROVE OrderInv'
    BY <1>1, <1>3 DEF remove, Begin
<1>4. CASE erase
    BY <1>4, SameOccupied DEF erase, OrderInv, Holes, NextFree, ErasedSoFar, NextPage, Pages
<1>5. CASE AllocateFits \/ CollectCopy
  <2>1. \A p \in Pages : flash'[p].log = flash[p].log
    <3>1. PICK n : flash' = [flash EXCEPT ![current.page].torn = n]
        BY <1>5, Zenon DEF AllocateFits, CollectCopy, WriteData
    <3>2. flash \in [Pages -> [log : Seq(Metadata), torn : Nat]]
        BY DEF IInv, TypeOK
    <3> QED  BY <3>1, <3>2
  <2>2. Occupied' = Occupied /\ current' = current
      BY <1>5, <2>1, SameOccupied DEF AllocateFits, CollectCopy
  <2> QED
      BY <1>5, <2>2 DEF AllocateFits, CollectCopy, OrderInv, Holes, NextFree, ErasedSoFar, NextPage
<1>6. CASE AllocateAdvance
  <2>1. Holes(Occupied, NextPage(c))
    <3>1. c \in Occupied /\ Occupied \in SUBSET Pages /\ Holes(Occupied, c)
        BY <1>0, <1>6, LeavesOccupied DEF OrderInv
    <3> QED  BY <3>1, AdvanceHoles
  <2>2. Occupied' = Occupied /\ current'.page = NextPage(c)
      BY <1>6, SameOccupied DEF AllocateAdvance
  <2>3. pc' # "erase" /\ (pc' \notin {"collect", "collect_commit"} => is_page_empty(NextPage(NextPage(c))))
      BY <1>6 DEF AllocateAdvance, SkipPageEmpty
  <2> QED
      BY <2>1, <2>2, <2>3 DEF OrderInv, Holes, NextFree, ErasedSoFar, NextPage, Occupied
<1>7. CASE Commit \/ CollectCommit
  <2>1. Occupied' = Occupied \cup {c} /\ current'.page = c
      BY <1>7, RecordOccupies DEF Commit, CollectCommit
  <2>2. Holes(Occupied \cup {c}, c)
      BY <1>0, WriteHoles DEF OrderInv
  <2>3. pc' # "erase" /\ (pc' \notin {"collect", "collect_commit"} => pc = "commit")
      BY <1>7 DEF Commit, CollectCommit
  <2> QED
      BY <1>0, <2>1, <2>2, <2>3 DEF OrderInv, Holes, NextFree, ErasedSoFar, NextPage
<1>8. CASE CollectSkip
    BY <1>1, <1>8 DEF CollectSkip
<1>9. CASE CollectErase
  <2>1. Occupied' = Occupied \ {NextPage(c)} /\ current' = current /\ pc' # "erase"
      BY <1>0, <1>9, ErasedUnoccupied DEF CollectErase, Source
  <2>2. Holes(Occupied \ {NextPage(c)}, c)
      BY <1>0, EraseHoles DEF OrderInv
  <2> QED
      BY <2>1, <2>2 DEF OrderInv, Holes, NextFree, ErasedSoFar, NextPage
<1>10. CASE ErasePage
  <2>1. index \in Pages /\ pc = "erase" /\ pc' = "erase" /\ index' = index + 1 /\ current' = current
      BY <1>10, ConstantsAssumption DEF ErasePage, IInv, TypeOK, Pages
  <2>2. Occupied' = Occupied \ {index}
      BY <1>10, <2>1, ErasedUnoccupied DEF ErasePage
  <2>3. Holes(Occupied \ {index}, c)
      BY <1>0, <2>1, EraseHoles DEF OrderInv, ErasedSoFar
  <2>4. \A p \in Pages : p < index' => p \notin Occupied'
      BY <2>1, <2>2 DEF OrderInv, ErasedSoFar, Pages
  <2> QED
      BY <2>1, <2>2, <2>3, <2>4 DEF OrderInv, Holes, NextFree, ErasedSoFar, NextPage
<1>11. CASE update_current /\ UNCHANGED flash /\ pc' = "idle"
  <2>1. Occupied' = Occupied
      BY <1>11, SameOccupied
  <2>2. Holes(Occupied, current'.page) /\ (NextPage(current'.page) \notin Occupied \/ current'.page = 0)
    <3>1. PICK found \in BOOLEAN, page \in Pages : get_current_page(found, page) /\ current'.page = page
        BY <1>11 DEF update_current
    <3> QED  BY <1>0, <3>1, RestartHoles DEF OrderInv
  <2> QED
      BY <1>11, <2>1, <2>2 DEF OrderInv, Holes, NextFree, ErasedSoFar, NextPage
<1>12. CASE UNCHANGED vars
  <2>1. Occupied' = Occupied
      BY <1>12, SameOccupied DEF vars
  <2> QED
      BY <1>12, <2>1 DEF vars, OrderInv, Holes, NextFree, ErasedSoFar, NextPage
<1> QED
    BY <1>2, <1>3, <1>4, <1>5, <1>6, <1>7, <1>8, <1>9, <1>10, <1>11, <1>12
    DEF Next, Step, EraseEnd, Reboot

\* The pages that have a key are among the occupied ones.
LEMMA LiveIsOccupied ==
  ASSUME IInv, NEW p \in Pages, NEW k, LiveOn(p, k)
  PROVE  p \in Occupied
<1>1. get_metadata_count(p) = Len(flash[p].log) /\ flash[p].log \in Seq(Metadata)
    BY CountIsLength DEF IInv, TypeOK
<1>2. flash[p].log # << >>
    BY <1>1 DEF LiveOn
<1> QED
    BY <1>2 DEF Occupied, is_page_empty

\* Some page that has a key is the nearest.
LEMMA SomeIsFirst ==
  ASSUME IInv, NEW k, has(k)
  PROVE  \E p \in Pages : FirstFound(p, k)
<1> DEFINE c == current.page
           ages == {AgeFrom(c, p) : p \in {q \in Pages : LiveOn(q, k)}}
           less == {d \in Nat \X Nat : d[1] < d[2]}
<1>0. c \in Pages
    BY DEF IInv, TypeOK
<1>1. \A p \in Pages : AgeFrom(c, p) \in Nat
  <2>1. \A d \in Pages, p \in Pages : AgeFrom(d, p) \in Nat
      BY ConstantsAssumption DEF AgeFrom, Pages
  <2> QED  BY <1>0, <2>1
<1>2. ages \subseteq Nat /\ ages # {}
    BY <1>1 DEF has
<1>3. less = OpToRel(<, Nat)
    BY DEF OpToRel
<1>4. IsWellFoundedOn(less, Nat)
    BY <1>3, NatLessThanWellFounded
<1>5. \A d, e \in Nat : e < d => << e, d >> \in less
    OBVIOUS
<1> HIDE DEF less
<1>6. PICK a \in ages : \A b \in ages : ~(<< b, a >> \in less)
  <2>1. PICK A : A = ages
      OBVIOUS
  <2>2. A \subseteq Nat /\ A # {}
      BY <1>2, <2>1
  <2>3. \E d \in A : \A b \in A : ~(<< b, d >> \in less)
      BY <1>4, <2>2, WFMin
  <2> QED  BY <2>1, <2>3
<1>7. PICK p \in Pages : LiveOn(p, k) /\ a = AgeFrom(c, p)
    OBVIOUS
<1>8. ASSUME NEW q \in Pages, LiveOn(q, k) PROVE AgeFrom(c, p) <= AgeFrom(c, q)
  <2>1. AgeFrom(c, q) \in ages /\ AgeFrom(c, p) \in Nat /\ AgeFrom(c, q) \in Nat
      BY <1>1, <1>8
  <2>2. ~(AgeFrom(c, q) < AgeFrom(c, p))
      BY <1>5, <1>6, <1>7, <2>1
  <2> QED  BY <2>1, <2>2
<1> QED
    BY <1>7, <1>8 DEF FirstFound

\* A restart that does not cut a collection short changes no value.
LEMMA RestartReads ==
  ASSUME IInv, IInv', OrderInv, Reboot, pc \notin {"collect", "collect_commit"}, NEW k \in Keys
  PROVE  lookup(k)' = lookup(k)
<1>1. current.page \in Pages /\ current'.page \in Pages
    BY DEF IInv, TypeOK
<1>2. \A p \in Pages : LiveOn(p, k)' <=> LiveOn(p, k)
    BY DEF Reboot, LiveOn, IsNewest, get_metadata_count
<1>3. \A p \in Pages : lookup_on_page(p, k)' = lookup_on_page(p, k)
    BY DEF Reboot, lookup_on_page, IsNewest, get_metadata_count
<1>4. has(k)' <=> has(k)
    BY <1>2 DEF has
<1>5. CASE ~has(k)
    BY <1>4, <1>5 DEF lookup
<1>6. CASE has(k)
  <2>1. SameOrder(Occupied, current.page, current'.page)
    <3>1. PICK found \in BOOLEAN, page \in Pages : get_current_page(found, page) /\ current'.page = page
        BY DEF Reboot, update_current
    <3> QED  BY <1>1, <3>1, RestartHoles DEF OrderInv, NextFree
  <2>2. PICK p \in Pages : FirstFound(p, k)
      BY <1>6, SomeIsFirst
  <2>3. p \in Occupied /\ \A q \in Pages : LiveOn(q, k) => q \in Occupied
      BY <2>2, LiveIsOccupied DEF FirstFound
  <2>4. FirstFound(p, k)'
      BY <1>2, <2>1, <2>2, <2>3 DEF FirstFound, SameOrder
  <2>5. LookupFinds /\ LookupFinds'
      BY LookupIsNearest, PTL
  <2>6. lookup(k) = lookup_on_page(p, k) /\ lookup(k)' = lookup_on_page(p, k)'
      BY <1>1, <2>2, <2>4, <2>5 DEF LookupFinds
  <2> QED  BY <1>3, <2>6
<1> QED
    BY <1>5, <1>6

\* After a power loss outside a collection get_current_page may find another page than the
\* one that was current, but every key reads as it did, on any number of pages.
THEOREM RestartSafe == NoTornWrites /\ PairsFit => (Spec => RestartKeepsValues)
<1> SUFFICES ASSUME NoTornWrites, PairsFit PROVE Spec => RestartKeepsValues
    OBVIOUS
<1>1. IInv /\ OrderInv /\ [Next]_vars => (IInv /\ OrderInv)'
    BY NextOrderInv, NextIInv
<1>2. Init => IInv /\ OrderInv
  <2> SUFFICES ASSUME Init PROVE OrderInv
      BY InitIInv
  <2>1. Occupied = {} /\ pc = "idle" /\ current.page = 0
      BY DEF Init, Occupied, is_page_empty, ErasedPage
  <2> QED
      BY <2>1 DEF OrderInv, Holes, NextFree, ErasedSoFar
<1>3. IInv /\ IInv' /\ OrderInv /\ [Next]_vars =>
        [Reboot /\ pc \notin {"collect", "collect_commit"}
           => \A k \in Keys : lookup(k)' = lookup(k)]_vars
    BY RestartReads
<1> QED
    BY <1>1, <1>2, <1>3, PTL DEF Spec, RestartKeepsValues
=============================================================================
