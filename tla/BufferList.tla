------------------------------ MODULE BufferList ------------------------------
(***************************************************************************)
(* cbuffer, src/deviceagent/2deviceagent/io/object/operation/              *)
(* socket_op_decl.hpp: a list of buffers, of which the socket operations   *)
(* move one after the other.  The first element keeps the sums of the list *)
(* and the cursor, the buffer where a transfer goes on; the same fields of *)
(* the other elements are left as they were.                               *)
(***************************************************************************)
EXTENDS Integers, Sequences, FiniteSets, SequencesExt

CONSTANTS Bufs,        \* the elements there are
          BufLens,     \* bound: the lengths of their data, beside 0
          SizeMod      \* bound: 2^w for a size_t of w bits

(* A length is a size_t, and no buffer is at NULL.                         *)
ASSUME BufferListAssumption ==
    /\ IsFiniteSet(Bufs) /\ "null" \notin Bufs
    /\ SizeMod \in Nat \ {0} /\ BufLens \subseteq 0..SizeMod - 1

VARIABLES heap,        \* [Bufs -> the fields of an element]
          added        \* history: the object of add_bytes, if that was the last call

bufferVars == <<heap, added>>

Null == "null"
Size_t == 0..SizeMod - 1
Pointer == Bufs \cup {Null}

BufferTypeOK ==
    /\ heap \in [Bufs -> [len : {0} \cup BufLens, consumed : Size_t,
                          bytes_trans : Size_t, bytes_total : Size_t, count : 1..Cardinality(Bufs),
                          next : Pointer, prev : Pointer, head : Bufs, end : Bufs, cur : Pointer]]

(* construct().                                                            *)
Constructed(b, len) ==
    [len |-> len, consumed |-> 0, bytes_trans |-> 0, bytes_total |-> len, count |-> 1,
     next |-> Null, prev |-> Null, head |-> b, end |-> b, cur |-> b]

BufferInit ==
    /\ \E lens \in [Bufs -> {0} \cup BufLens] : heap = [b \in Bufs |-> Constructed(b, lens[b])]
    /\ added = Null

(* The elements from b on.                                                 *)
From(h, b) ==
    LET at[n \in 1..Cardinality(Bufs)] ==
            IF n = 1 THEN b
            ELSE LET before == at[n - 1] IN IF before = Null THEN Null ELSE h[before].next
    IN [n \in 1..Cardinality({m \in DOMAIN at : at[m] # Null}) |-> at[n]]

(* The list of b.                                                          *)
Items(h, b) == From(h, h[b].head)

SumOf(h, items) ==
    LET sum[n \in 0..Len(items)] ==
            IF n = 0 THEN 0 ELSE (sum[n - 1] + h[items[n]].len) % SizeMod
    IN sum[Len(items)]

-----------------------------------------------------------------------------
(* append(): only to the last element, only a list of which nothing was    *)
(* transferred, named by its first element.                                *)
AppendList(a, b) ==
    LET hd == heap[a].head
        linked == [heap EXCEPT ![a].next = b, ![b].prev = a,
                      ![hd].bytes_total = (@ + heap[heap[b].head].bytes_total) % SizeMod,
                      ![hd].count = @ + heap[heap[b].head].count,
                      ![hd].end = heap[heap[b].head].end]
    IN /\ b # hd /\ heap[a].next = Null
       /\ heap[heap[b].head].bytes_trans = 0 /\ heap[b].prev = Null
       /\ heap' = [x \in Bufs |-> IF x \in ToSet(From(linked, hd))
                                  THEN [linked[x] EXCEPT !.head = hd] ELSE linked[x]]
       /\ added' = Null

SetData(b, len) ==
    /\ heap[b].consumed = 0
    /\ heap' = [heap EXCEPT
                  ![heap[b].head].bytes_total = (@ + len - heap[b].len) % SizeMod,
                  ![b].len = len]
    /\ added' = Null

SlipStopsLate(len, left) == len <= left

(* A buffer that is full although there is more.                           *)
IsFull(len, left) == len < left

(* A turn of the second loop of set_bytes(), called on b, with the item i. *)
(* A full buffer is charged with the length of b.                          *)
Charge(b, i, acc) ==
    IF acc.done THEN acc
    ELSE IF IsFull(heap[i].len, acc.left)
         THEN [acc EXCEPT !.consumed[i] = heap[b].len, !.left = (@ - heap[b].len) % SizeMod]
         ELSE [acc EXCEPT !.consumed[i] = acc.left, !.left = 0, !.done = TRUE,
                          !.cur = IF heap[i].len > acc.left THEN i ELSE heap[i].next]

(* set_bytes(): what each buffer has of the first bytes, and where the     *)
(* cursor is then.                                                         *)
Charged(b, bytes) ==
    LET items == Items(heap, b)
        acc[n \in 0..Len(items)] ==
            IF n = 0 THEN [left |-> bytes, cur |-> heap[heap[b].head].cur, done |-> FALSE,
                           consumed |-> [x \in Bufs |-> IF x \in ToSet(items) THEN 0
                                                        ELSE heap[x].consumed]]
            ELSE Charge(b, items[n], acc[n - 1])
    IN acc[Len(items)]

(* add_bytes().                                                            *)
AddBytes(b, n) ==
    LET hd == heap[b].head
        all == heap[hd].bytes_total
        bytes == IF heap[hd].bytes_trans + n > all THEN all ELSE heap[hd].bytes_trans + n
        done == Charged(b, bytes)
    IN /\ heap' = [x \in Bufs |->
                     [heap[x] EXCEPT !.consumed = done.consumed[x],
                                     !.bytes_trans = IF x = hd THEN bytes ELSE @,
                                     !.cur = IF x = hd THEN done.cur ELSE @]]
       /\ added' = b

(* The first half of a split: done, by definition.                         *)
DoneHalf(h, hd, items) ==
    [h EXCEPT ![hd].bytes_total = SumOf(h, items), ![hd].bytes_trans = SumOf(h, items),
              ![hd].count = Len(items), ![hd].end = items[Len(items)], ![hd].cur = Null]

(* The second half; where it ends is not written down.                     *)
OpenHalf(h, c, items) ==
    [x \in Bufs |->
        IF x = c THEN [h[x] EXCEPT !.prev = Null, !.head = c, !.bytes_total = SumOf(h, items),
                                   !.bytes_trans = h[x].consumed, !.count = Len(items)]
        ELSE IF x \in ToSet(items) THEN [h[x] EXCEPT !.head = c] ELSE h[x]]

(* split_from_cur().                                                       *)
SplitFromCur(b) ==
    LET c == heap[b].cur
    IN /\ c # Null /\ heap[c].prev # Null
       /\ LET hd == heap[b].head
              items == Items(heap, b)
              first == SubSeq(items, 1, (CHOOSE n \in DOMAIN items : items[n] = c) - 1)
              rest == From(heap, c)
              cut == [heap EXCEPT ![heap[c].prev].next = Null]
          IN heap' = OpenHalf(DoneHalf(cut, hd, first), c, rest)
       /\ added' = Null

(* unlink() keeps the data, reset() does not.                              *)
TakeApart(b, keeps) ==
    /\ heap' = [x \in Bufs |-> IF x \in ToSet(Items(heap, b))
                               THEN Constructed(x, IF keeps THEN heap[x].len ELSE 0)
                               ELSE heap[x]]
    /\ added' = Null

(* A socket moves no more than the list has left.                          *)
Left(b) == heap[heap[b].head].bytes_total - heap[heap[b].head].bytes_trans

BufferNext ==
    \E b \in Bufs :
        \/ \E x \in Bufs : AppendList(b, x)
        \/ \E n \in {0} \cup BufLens : SetData(b, n)
        \/ \E n \in 1..Left(b) : AddBytes(b, n)
        \/ SplitFromCur(b)
        \/ TakeApart(b, TRUE) \/ TakeApart(b, FALSE)

BufferSpec == BufferInit /\ [][BufferNext]_bufferVars

-----------------------------------------------------------------------------
(* Properties.                                                             *)

(* The elements of a list know its first element, which counts them and    *)
(* their bytes; after any calls, in any order.                             *)
ListsAgree ==
    \A b \in Bufs :
        LET hd == heap[b].head
            items == Items(heap, b)
        IN /\ b \in ToSet(items) /\ heap[hd].head = hd /\ heap[hd].prev = Null
           /\ heap[hd].count = Len(items)
           /\ heap[hd].bytes_total = SumOf(heap, items)

ConsumedOf(h, items) ==
    LET sum[n \in 0..Len(items)] ==
            IF n = 0 THEN 0 ELSE sum[n - 1] + h[items[n]].consumed
    IN sum[Len(items)]

(* After add_bytes the cursor is at the first buffer that is not full, and *)
(* the buffers together have what the list has, provided that they are as  *)
(* long as each other.                                                     *)
CursorIsRight ==
    added # Null =>
        LET hd == heap[added].head
            items == Items(heap, added)
            open == {n \in DOMAIN items : heap[items[n]].consumed < heap[items[n]].len}
        IN (\A n \in DOMAIN items : heap[items[n]].len = heap[added].len) /\ heap[added].len > 0
             => /\ heap[hd].cur = IF open = {} THEN Null
                                  ELSE items[CHOOSE n \in open : \A m \in open : n <= m]
                /\ heap[hd].bytes_trans = ConsumedOf(heap, items)

(* The books of every list are right, and so is where it goes on.          *)
ListsAreSound == BufferTypeOK /\ ListsAgree /\ CursorIsRight
=============================================================================
