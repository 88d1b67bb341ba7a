------------------------------ MODULE Buffers ------------------------------
(***************************************************************************)
(* What the readers of bytes share: a Buffer with offsets from 0, and the  *)
(* loop that goes through one from item to item, each of which says where  *)
(* the next begins.                                                        *)
(***************************************************************************)
EXTENDS Integers, Sequences

U8(buf, i)  == buf[i + 1]
U16(buf, i) == 256 * U8(buf, i) + U8(buf, i + 1)
U24(buf, i) == 65536 * U8(buf, i) + U16(buf, i + 1)

\* buf.subarray(i, end): what there is of it.
Sub(buf, i, end) == SubSeq(buf, i + 1, IF end < Len(buf) THEN end ELSE Len(buf))

\* The offsets at which a loop reads that goes from start to next[start] and
\* so on, as long as there is a next. One that does not move on has no end.
Stops(buf, next, start) ==
  LET at[k \in Nat] == IF k = 0 THEN start ELSE next[at[k - 1]]
      n == CHOOSE n \in 0..Len(buf) : /\ at[n] \notin DOMAIN next
                                      /\ \A k \in 0..(n - 1) : at[k] \in DOMAIN next
  IN [k \in 1..n |-> at[k - 1]]
=============================================================================
