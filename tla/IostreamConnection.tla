--------------------------- MODULE IostreamConnection ---------------------------
(***************************************************************************)
(* The connection over standard streams, src/deviceagent/connection.hpp:   *)
(* one read request at a time, which is filled by hand (read_some,         *)
(* read_all) or from a stream (operator>>), and its handler, as stub_con   *)
(* gives it: handle_op, which only takes note, or handle_indef, which      *)
(* makes the next request whatever it is told.                             *)
(*                                                                         *)
(* The handler runs inside the function that completes the request, which  *)
(* then goes on with the next one.  A call of an empty handler, and a      *)
(* handler that calls itself without end, end the process.                 *)
(*                                                                         *)
(* Writing is apart from reading: a buffer, or a vector of buffers, goes   *)
(* to the output stream, or else to a handler that was set for it, and the *)
(* caller is told of an error or of none.                                  *)
(***************************************************************************)
EXTENDS Integers, Sequences, FiniteSets

CONSTANTS LenMax,      \* bound: the size of a request's buffer
          FeedMax,     \* bound: characters supplied by one call
          Requests     \* bound: requests that are made, and buffers written

ASSUME ConnAssumption == LenMax \in Nat /\ FeedMax \in Nat /\ Requests \in Nat

VARIABLES conn,        \* the reading half, and what is counted about it
          out          \* the writing half, with the stream it was given

connVars == <<conn, out>>

ConnTypeOK ==
    /\ conn.reading \in BOOLEAN
    /\ conn.bytes_needed \in 0..LenMax /\ conn.len \in 0..LenMax /\ conn.cursor \in 0..LenMax
    /\ conn.handler \in {"empty", "handle_op", "handle_indef"}
    /\ conn.crashed \in BOOLEAN
    /\ conn.made \in Nat /\ conn.called \in Nat           \* requests, and handlers called
    /\ conn.taken \in Nat /\ conn.told \in Nat            \* characters, taken and reported
    /\ out.stream \in {"none", "good", "failed", "bad"}
    /\ out.handler \in {"none", "works", "fails"} /\ out.vector \in BOOLEAN
    /\ out.asked \in Nat /\ out.arrived \in Nat          \* buffers
    /\ out.acked \in 0..out.asked                        \* those of calls without an error

ConnInit ==
    /\ conn = [reading |-> FALSE, bytes_needed |-> 0, len |-> 0, cursor |-> 0,
               handler |-> "empty", crashed |-> FALSE, made |-> 0, called |-> 0,
               taken |-> 0, told |-> 0]
    /\ \E h \in {"none", "works", "fails"}, v \in BOOLEAN :
          out = [stream |-> "none", handler |-> h, vector |-> v,
                 asked |-> 0, arrived |-> 0, acked |-> 0]

(* async_read_at_least refuses: the handler is called at once, and         *)
(* handle_indef would make the same request again and again.               *)
Refused(c, handler) ==
    [c EXCEPT !.made = @ + 1, !.called = @ + 1, !.crashed = (handler = "handle_indef")]

Requested(c, num_bytes, len, handler) ==
    [c EXCEPT !.made = @ + 1, !.reading = TRUE, !.bytes_needed = num_bytes, !.len = len,
              !.handler = handler, !.cursor = 0]

SlipStaysReading(c) ==
    [c EXCEPT !.handler = "empty", !.called = @ + 1, !.told = @ + c.cursor]

(* complete_read, up to the call of the handler.                           *)
Completed(c) ==
    [c EXCEPT !.reading = FALSE, !.handler = "empty", !.called = @ + 1, !.told = @ + c.cursor]

CompleteRead(c) ==
    IF c.handler = "empty" THEN [c EXCEPT !.crashed = TRUE]
    ELSE IF c.handler = "handle_op" THEN Completed(c)
    ELSE Requested(Completed(c), c.bytes_needed, c.len, c.handler)

AsyncRead(num_bytes, len, handler) ==
    /\ ~conn.crashed /\ conn.made < Requests
    /\ conn' = IF num_bytes > len \/ conn.reading \/ num_bytes = 0 \/ len = 0
               THEN Refused(conn, handler)
               ELSE Requested(conn, num_bytes, len, handler)

Took(c, n) == [c EXCEPT !.cursor = @ + n, !.taken = @ + n]

(* read_some_impl of n characters; what is left of them.                   *)
ReadSomeImpl(feed) ==
    LET c == feed.c
        n == IF feed.left < c.len - c.cursor THEN feed.left ELSE c.len - c.cursor
        took == Took(c, n)
    IN IF ~c.reading \/ c.crashed THEN feed
       ELSE [left |-> feed.left - n,
             c |-> IF took.cursor >= took.bytes_needed THEN CompleteRead(took) ELSE took]

ReadSome(n) == /\ ~conn.crashed /\ conn.made < Requests
               /\ conn' = ReadSomeImpl([left |-> n, c |-> conn]).c

(* read_all goes on as long as something is taken.                         *)
AllTurn(feed) == IF feed.left = 0 THEN feed ELSE ReadSomeImpl(feed)

FedAll(n) ==
    LET fed[i \in 0..n] == IF i = 0 THEN [left |-> n, c |-> conn] ELSE AllTurn(fed[i - 1])
    IN fed[n].c

ReadAll(n) == /\ ~conn.crashed /\ conn.made < Requests
              /\ conn' = FedAll(n)

(* One turn of read(): as much as fits; a stream that had less is no       *)
(* longer good, and bad if it ended so.                                    *)
StreamTurn(feed, ending) ==
    LET c == feed.c
        room == c.len - c.cursor
        n == IF feed.left < room THEN feed.left ELSE room
        took == Took(c, n)
        bad == feed.left < room /\ ending = "bad"
        told == IF bad THEN CompleteRead([took EXCEPT !.reading = FALSE]) ELSE took
    IN IF ~feed.good \/ ~c.reading \/ c.crashed \/ n = 0 THEN [feed EXCEPT !.good = FALSE]
       ELSE [left |-> feed.left - n, good |-> feed.left >= room,
             c |-> IF ~told.crashed /\ told.cursor >= told.bytes_needed
                   THEN CompleteRead([told EXCEPT !.reading = FALSE]) ELSE told]

FedStream(n, ending) ==
    LET fed[i \in 0..n + 1] == IF i = 0 THEN [left |-> n, good |-> TRUE, c |-> conn]
                               ELSE StreamTurn(fed[i - 1], ending)
    IN fed[n + 1].c

ReadStream(n, ending) == /\ ~conn.crashed /\ conn.made < Requests
                         /\ conn' = FedStream(n, ending)

FatalError ==
    /\ ~conn.crashed /\ conn.reading /\ conn.made < Requests
    /\ conn' = CompleteRead(conn)

ConnNext ==
    \/ \E num_bytes, len \in 0..LenMax, handler \in {"handle_op", "handle_indef"} :
            AsyncRead(num_bytes, len, handler)
    \/ \E n \in 1..FeedMax : \/ ReadSome(n) \/ ReadAll(n)
                             \/ \E ending \in {"eof", "bad"} : ReadStream(n, ending)
    \/ FatalError

-----------------------------------------------------------------------------
(* Writing.                                                                *)

RegisterOstream ==
    /\ out.stream = "none"
    /\ out' = [out EXCEPT !.stream = "good"]
    /\ UNCHANGED conn

(* Reading to the end of a stream that is also the output.                 *)
StreamFails ==
    /\ out.stream = "good"
    /\ out' = [out EXCEPT !.stream = "failed"]
    /\ UNCHANGED conn

(* k of n buffers arrive, and the caller's handler is told.                *)
Wrote(n, k, ok) ==
    [out EXCEPT !.asked = @ + n, !.arrived = @ + k, !.acked = @ + IF ok THEN n ELSE 0]

(* A stream that breaks down is bad, which ends the call with an error; on *)
(* one that has only failed nothing arrives and nobody is told.            *)
ToStream(n) ==
    \/ out.stream = "good" /\ out' = Wrote(n, n, TRUE)
    \/ out.stream = "good" /\ \E k \in 0..n - 1 :
                                 out' = [Wrote(n, k, FALSE) EXCEPT !.stream = "bad"]
    \/ out.stream = "failed" /\ out' = Wrote(n, 0, TRUE)
    \/ out.stream = "bad" /\ out' = Wrote(n, 0, FALSE)

(* Without a stream: the handler for vectors, which says whether it wrote  *)
(* them, or the one for buffers, one buffer at a time; a handler that      *)
(* fails may have written a few before.                                    *)
ToHandler(n, whole) ==
    \/ whole /\ out.vector /\ out' = Wrote(n, n, TRUE)
    \/ whole /\ out.vector /\ \E k \in 0..n : out' = Wrote(n, k, FALSE)
    \/ ~(whole /\ out.vector) /\ out.handler = "works" /\ out' = Wrote(n, n, TRUE)
    \/ ~(whole /\ out.vector) /\ out.handler = "fails"
          /\ \E k \in 0..n - 1 : out' = Wrote(n, k, FALSE)
    \/ ~(whole /\ out.vector) /\ out.handler = "none" /\ out' = Wrote(n, 0, FALSE)

(* One buffer, or a whole vector.                                          *)
AsyncWrite(n, whole) ==
    /\ out.asked + n <= Requests
    /\ \/ out.stream # "none" /\ ToStream(n)
       \/ out.stream = "none" /\ ToHandler(n, whole)
    /\ UNCHANGED conn

WriteNext ==
    \/ RegisterOstream \/ StreamFails
    \/ AsyncWrite(1, FALSE) \/ \E n \in 1..Requests : AsyncWrite(n, TRUE)

ConnSpec == ConnInit /\ [][(ConnNext /\ UNCHANGED out) \/ WriteNext]_connVars

-----------------------------------------------------------------------------
(* Properties.                                                             *)

(* Every request is answered once, by its own handler, and the handlers    *)
(* are told of every character that was taken, also when a handler makes   *)
(* the next request in the middle of a feed, and when the stream fails.    *)
(* What a writer was told is written has arrived, but for a stream that    *)
(* had failed without being bad.                                           *)
RequestsAreAnswered ==
    /\ ConnTypeOK
    /\ ~conn.crashed =>
         /\ conn.made = conn.called + IF conn.reading THEN 1 ELSE 0
         /\ conn.taken = conn.told + IF conn.reading THEN conn.cursor ELSE 0
    /\ out.stream # "failed" => out.acked <= out.arrived
=============================================================================
