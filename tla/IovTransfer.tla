------------------------------- MODULE IovTransfer -------------------------------
(***************************************************************************)
(* __posix_do_send and __posix_do_recv of src/local_rpc/drpc_core.cpp: a   *)
(* vector of buffers is moved through a stream socket, in as many writev   *)
(* or readv calls as it takes, within a budget of time.  A byte is known   *)
(* by its place in the whole message.                                      *)
(***************************************************************************)
EXTENDS Integers, Sequences

CONSTANTS MaxCount,    \* bound: buffers in the vector
          MaxLen,      \* bound: bytes in a buffer
          MaxTimeout   \* bound: timeout_ms to start with

ASSUME IovTransferAssumption ==
    MaxCount \in Nat /\ MaxLen \in Nat /\ MaxTimeout \in Nat

VARIABLES
    dir,           \* "send" or "recv"
    total_len,
    iov,           \* what __recalc_iovec has left of the vector
    remain_bytes,
    timeout_ms,
    moved,         \* history: the bytes writev or readv moved, in order
    ret            \* the value returned, or "none"

vars == <<dir, total_len, iov, remain_bytes, timeout_ms, moved, ret>>

Buffer == [base : 0..MaxCount * MaxLen, len : 0..MaxLen]

(* The place of the end of buffer n in the message, for buffers as long as *)
(* lens says.                                                              *)
End(lens) ==
    LET end[n \in 0..Len(lens)] == IF n = 0 THEN 0 ELSE end[n - 1] + lens[n]
    IN end

Vector(lens) == [n \in DOMAIN lens |-> [base |-> End(lens)[n - 1], len |-> lens[n]]]

Lens(v) == [n \in DOMAIN v |-> v[n].len]

Size(v) == End(Lens(v))[Len(v)]

TypeOK ==
    /\ dir \in {"send", "recv"}
    /\ total_len \in 0..MaxCount * MaxLen
    /\ iov \in Seq(Buffer)
    /\ remain_bytes \in 0..total_len
    /\ timeout_ms \in 0..MaxTimeout
    /\ moved \in Seq(0..total_len - 1)
    /\ ret \in {"none", "0", "-1"}

Init ==
    /\ dir \in {"send", "recv"}
    /\ \E count \in 0..MaxCount : \E lens \in [1..count -> 0..MaxLen] :
            /\ iov = Vector(lens)
            /\ total_len = Size(iov)
    /\ remain_bytes = total_len
    /\ timeout_ms \in 0..MaxTimeout
    /\ moved = <<>>
    /\ ret = "none"

-----------------------------------------------------------------------------
(* Operators whose name starts with "Slip" are plausible mistakes in the   *)
(* operator that follows, and no part of the model.                        *)

SlipPartKept(v, bytes) ==
    LET nit == CHOOSE n \in 1..Len(v) + 1 :
                  /\ End(Lens(v))[n - 1] <= bytes
                  /\ n <= Len(v) => End(Lens(v))[n] > bytes
    IN SubSeq(v, nit, Len(v))

(* __recalc_iovec: skip the buffers that are done, advance the next one.   *)
Recalc(v, bytes) ==
    LET done == End(Lens(v))
        nit == CHOOSE n \in 1..Len(v) + 1 :
                  /\ done[n - 1] <= bytes
                  /\ n <= Len(v) => done[n] > bytes
    IN IF nit > Len(v) THEN <<>>
       ELSE <<[base |-> v[nit].base + (bytes - done[nit - 1]),
               len |-> v[nit].len - (bytes - done[nit - 1])]>>
            \o SubSeq(v, nit + 1, Len(v))

(* The first bytes of a vector, in the order writev takes them.            *)
FirstBytes(v, bytes) ==
    LET done == End(Lens(v))
        at(i) == CHOOSE n \in DOMAIN v : done[n - 1] < i /\ i <= done[n]
    IN [i \in 1..bytes |-> v[at(i)].base + (i - done[at(i) - 1]) - 1]

(* The condition of the loop.                                              *)
Looping == timeout_ms > 0 /\ remain_bytes > 0

(* What a call that moves data has cost: recv charges for select as well.  *)
Cost == IF dir = "recv" THEN 1 ELSE 0

(* select says the socket is ready and the call moves some bytes.          *)
Move ==
    /\ ret = "none" /\ Looping
    /\ \E bytes \in 1..Size(iov) :
         /\ moved' = moved \o FirstBytes(iov, bytes)
         /\ remain_bytes' = remain_bytes - bytes
         /\ iov' = IF remain_bytes' > 0 THEN Recalc(iov, bytes) ELSE iov
    /\ timeout_ms' = timeout_ms - Cost
    /\ UNCHANGED <<dir, total_len, ret>>

(* select times out after its half millisecond.                            *)
NotReady ==
    /\ ret = "none" /\ Looping
    /\ timeout_ms' = timeout_ms - 1
    /\ UNCHANGED <<dir, total_len, iov, remain_bytes, moved, ret>>

(* The call is interrupted, or would block after all: a send is not        *)
(* charged for it and may go on for ever.                                  *)
TryAgain ==
    /\ ret = "none" /\ Looping
    /\ timeout_ms' = timeout_ms - Cost
    /\ UNCHANGED <<dir, total_len, iov, remain_bytes, moved, ret>>

(* select or the call fails, or readv says the peer has closed.            *)
Fail ==
    /\ ret = "none" /\ Looping
    /\ ret' = "-1"
    /\ timeout_ms' \in {timeout_ms, timeout_ms - Cost}
    /\ UNCHANGED <<dir, total_len, iov, remain_bytes, moved>>

SlipTimeIsUp ==
    /\ ret = "none" /\ ~Looping
    /\ ret' = IF timeout_ms = 0 THEN "-1" ELSE "0"
    /\ UNCHANGED <<dir, total_len, iov, remain_bytes, timeout_ms, moved>>

(* The loop is over.                                                       *)
Return ==
    /\ ret = "none" /\ ~Looping
    /\ ret' = IF timeout_ms = 0 /\ remain_bytes > 0 THEN "-1" ELSE "0"
    /\ UNCHANGED <<dir, total_len, iov, remain_bytes, timeout_ms, moved>>

Next == Move \/ NotReady \/ TryAgain \/ Fail \/ Return

Spec == Init /\ [][Next]_vars

-----------------------------------------------------------------------------
(* Properties.                                                             *)

(* Every byte is moved once and in its place, however the calls cut the    *)
(* message, and whatever buffers are empty: what was moved is a prefix of  *)
(* the message, and what is left of the vector is the rest of it.          *)
InOrder ==
    /\ \A i \in DOMAIN moved : moved[i] = i - 1
    /\ remain_bytes = total_len - Len(moved)
    /\ remain_bytes > 0 => FirstBytes(iov, Size(iov)) =
                           [i \in 1..remain_bytes |-> Len(moved) + i - 1]

(* "return < 0 error; =0 success" (drpc_core.cpp:97): 0 is returned when   *)
(* the whole message has been moved, and only then, also by a call whose   *)
(* last byte uses up its time.                                             *)
ZeroMeansAll ==
    /\ ret = "0" => Len(moved) = total_len
    /\ ret # "none" /\ Len(moved) = total_len => ret = "0"

(* A transfer moves the message once, in order, and says so.               *)
TransferIsExact == TypeOK /\ InOrder /\ ZeroMeansAll
=============================================================================
