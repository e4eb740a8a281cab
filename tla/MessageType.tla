------------------------------ MODULE MessageType ------------------------------
(***************************************************************************)
(* The message format of src/thconcurrent_frame/src/mhcomm_dll/            *)
(* message_type.c: a type, then fields, each behind its length in two      *)
(* bytes.  create_cmsg, push_cmsg and end_cmsg build a message in a buffer *)
(* that grows; unpacket_message takes it apart.                            *)
(*                                                                         *)
(* msg_pos and buf_len are unsigned shorts, and wrap at ShortMod.          *)
(***************************************************************************)
EXTENDS Integers, Sequences

CONSTANTS MAX_CMSG_BUF_SIZE,
          ShortMod,    \* bound: 2^w for an unsigned short of w bits
          FieldN,      \* bound: fields that are pushed
          FieldMax,    \* bound: bytes in a field
          ArgN         \* pointers that unpacket_message is given before NULL

(* The first buffer has room for the type, and its length is an unsigned   *)
(* short; so is the length of a field.                                     *)
ASSUME MessageTypeAssumption ==
    /\ ShortMod \in Nat /\ MAX_CMSG_BUF_SIZE \in 2..ShortMod - 1
    /\ FieldN \in Nat /\ FieldMax \in 0..ShortMod - 1 /\ ArgN \in Nat

VARIABLES cmsg,        \* the CMSG and the size of the memory behind it
          fields,      \* history: the lengths that were pushed
          wrapped,     \* history: whether msg_pos has wrapped
          beyond       \* history: bytes written beyond the memory, at most

cmsgVars == <<cmsg, fields, wrapped, beyond>>

CmsgTypeOK ==
    /\ cmsg.msg_pos \in 0..ShortMod - 1 /\ cmsg.buf_len \in 0..ShortMod - 1
    /\ cmsg.size \in Nat /\ DOMAIN cmsg.msg \subseteq Nat
    /\ cmsg.ended \in BOOLEAN
    /\ fields \in Seq(0..FieldMax) /\ wrapped \in BOOLEAN /\ beyond \in Nat

(* A byte is <<"type">>, the first byte of a length with the length, the   *)
(* second one, or a byte of a field.                                       *)
Written(msg, pos, bytes) ==
    [p \in DOMAIN msg \cup (pos..pos + Len(bytes) - 1) |->
        IF p \in pos..pos + Len(bytes) - 1 THEN bytes[p - pos + 1] ELSE msg[p]]

Length(n) == << <<"length", n>>, <<"second", n>> >>
Field(k, n) == [j \in 1..n |-> <<"data", k>>]

(* create_cmsg.                                                            *)
CmsgInit ==
    /\ cmsg = [msg_pos |-> 2, buf_len |-> MAX_CMSG_BUF_SIZE, size |-> MAX_CMSG_BUF_SIZE,
               msg |-> [p \in 0..1 |-> <<"type", p>>], ended |-> FALSE]
    /\ fields = <<>> /\ wrapped = FALSE /\ beyond = 0

SlipForgetsPosition(len) ==
    IF len > cmsg.buf_len THEN cmsg.buf_len + MAX_CMSG_BUF_SIZE ELSE cmsg.size

(* The memory there is for a field: enough for the field itself.           *)
Room(len) ==
    IF len + cmsg.msg_pos > cmsg.buf_len
    THEN LET steps == CHOOSE k \in 1..len + cmsg.msg_pos :
                        /\ cmsg.buf_len + k * MAX_CMSG_BUF_SIZE >= len + cmsg.msg_pos
                        /\ cmsg.buf_len + (k - 1) * MAX_CMSG_BUF_SIZE < len + cmsg.msg_pos
         IN cmsg.buf_len + steps * MAX_CMSG_BUF_SIZE
    ELSE cmsg.size

Greater(a, b) == IF a >= b THEN a ELSE b

PushCmsg(len) ==
    LET k == Len(fields) + 1
        pos == cmsg.msg_pos
        after == (pos + 2) % ShortMod
        size == Room(len)
    IN /\ k <= FieldN /\ ~cmsg.ended
       /\ cmsg' = [cmsg EXCEPT
                     !.msg = Written(Written(@, pos, Length(len)), after, Field(k, len)),
                     !.msg_pos = (after + len) % ShortMod,
                     !.size = size,
                     !.buf_len = IF len + pos > @ THEN size % ShortMod ELSE @]
       /\ fields' = Append(fields, len)
       /\ wrapped' = (wrapped \/ pos + 2 + len >= ShortMod)
       /\ beyond' = Greater(beyond, Greater(pos + 2, after + len) - size)

(* end_cmsg: room for one byte, and two are written.                       *)
EndCmsg ==
    LET pos == cmsg.msg_pos
        size == IF 1 + pos > cmsg.buf_len THEN 1 + pos ELSE cmsg.size
    IN /\ ~cmsg.ended
       /\ cmsg' = [cmsg EXCEPT !.msg = Written(@, pos, Length(0)),
                               !.msg_pos = (pos + 2) % ShortMod, !.size = size,
                               !.buf_len = IF 1 + pos > @ THEN size % ShortMod ELSE @,
                               !.ended = TRUE]
       /\ wrapped' = (wrapped \/ pos + 2 >= ShortMod)
       /\ beyond' = Greater(beyond, pos + 2 - size)
       /\ UNCHANGED fields

CmsgNext == EndCmsg \/ \E len \in 0..FieldMax : PushCmsg(len)

CmsgSpec == CmsgInit /\ [][CmsgNext]_cmsgVars

-----------------------------------------------------------------------------

(* What the server's buffer has at a place: it was cleared before.         *)
At(p) == IF p < cmsg.msg_pos THEN cmsg.msg[p] ELSE <<"length", 0>>

(* A turn of the loop of unpacket_message: the next field is copied to its *)
(* argument, unless there is none.                                         *)
NextField(acc, len) ==
    IF acc.stop \/ acc.length >= len \/ At(acc.length + 2)[2] = 0
    THEN [acc EXCEPT !.stop = TRUE]
    ELSE LET n == At(acc.length + 2)[2]
         IN [acc EXCEPT !.length = @ + 2 + n,
                        !.out = Append(@, [j \in 1..n |-> At(acc.length + 3 + j)])]

(* unpacket_message of what is behind the type, len bytes as far as it     *)
(* knows: the fields that are copied to its arguments.                     *)
Unpacket(len) ==
    LET taken[n \in 0..ArgN] ==
            IF n = 0 THEN [length |-> 0, out |-> <<>>, stop |-> FALSE]
            ELSE NextField(taken[n - 1], len)
    IN taken[ArgN].out

(* server_process names two bytes more than it has received.               *)
Login == Unpacket(cmsg.msg_pos + 2)

-----------------------------------------------------------------------------
(* Properties.                                                             *)

(* A message is understood as it was built, up to the first empty field    *)
(* and as far as there are arguments; and nothing is written more than two *)
(* bytes beyond the memory, also when the counters have wrapped.           *)
MessagesAreUnderstood ==
    LET empty == {k \in DOMAIN fields : fields[k] = 0}
        first == IF empty = {} THEN Len(fields)
                 ELSE (CHOOSE k \in empty : \A other \in empty : k <= other) - 1
        count == IF first > ArgN THEN ArgN ELSE first
    IN /\ CmsgTypeOK /\ beyond <= 2
       /\ ~wrapped => Login = [k \in 1..count |-> Field(k, fields[k])]
=============================================================================
