------------------------------ MODULE ThreadInfo ------------------------------
(***************************************************************************)
(* The byte format of a thread info: `serialize` and `deserialize` of      *)
(* RtPriorityThreadInfoInternal, the same in src/src/rt_linux.rs and       *)
(* src/src/rt_linux_native.rs.  Five integers of fixed width, in native    *)
(* byte order (little-endian here), one after the other; what is left of   *)
(* the buffer, which has the size of the struct, stays zero.               *)
(*                                                                         *)
(* A byte is a digit of Base, so that an instance can be smaller than 256; *)
(* widths are counted in bytes.                                            *)
(***************************************************************************)
EXTENDS Integers, Sequences

CONSTANTS
  Base,     (* values of a byte.                                           *)
  LongSize, (* bytes of a c_long and of a pthread_t.                       *)
  IntSize   (* bytes of a c_int and of a pid_t.                            *)

ASSUME WidthAssumption ==
  /\ Base \in Nat /\ Base > 1
  /\ IntSize \in Nat \ {0}
  /\ LongSize \in Nat /\ IntSize <= LongSize

(* The fields in the order of the struct. *)
Fields == << "thread_id", "pthread_id", "pid", "policy", "priority" >>
FieldSize == << LongSize, LongSize, IntSize, IntSize, IntSize >>
Unsigned == {"pthread_id"}

(* size_of::<RtPriorityThreadInfoInternal>(): repr(C), the five fields rounded up to
   the alignment of a long, which is no narrower than an int. *)
PackedSize == 2 * LongSize + 3 * IntSize
InfoSize == LongSize * ((PackedSize + LongSize - 1) \div LongSize)

Byte == 0..(Base - 1)

(* Values of n bytes. *)
Pow[n \in Nat] == IF n = 0 THEN 1 ELSE Base * Pow[n - 1]

(* v is a value of a signed integer of n bytes. *)
FitsSigned(v, n) == v \in Int /\ - Pow[n] <= 2 * v /\ 2 * v < Pow[n]

(* Two's complement: the value a field of n bytes stands for. *)
AsSigned(v, n) == IF 2 * v >= Pow[n] THEN v - Pow[n] ELSE v

(* Faulty variant: the bytes are put down in the other order. *)
ToBigEndian(v, n) == [i \in 1..n |-> ((v % Pow[n]) \div Pow[n - i]) % Base]

to_ne_bytes(v, n) == [i \in 1..n |-> ((v % Pow[n]) \div Pow[i - 1]) % Base]

(* The value of the first k bytes. *)
Value(bytes) ==
  LET low[k \in 0..Len(bytes)] ==
        IF k = 0 THEN 0 ELSE low[k - 1] + bytes[k] * Pow[k - 1]
  IN  low[Len(bytes)]

(* Faulty variant: a pthread_t is read as a c_long. *)
FromSigned(bytes, f) == AsSigned(Value(bytes), Len(bytes))

from_ne_bytes(bytes, f) ==
  IF f \in Unsigned THEN Value(bytes) ELSE AsSigned(Value(bytes), Len(bytes))

serialize(info) ==
  LET field(k) == to_ne_bytes(info[Fields[k]], FieldSize[k])
      packed == field(1) \o field(2) \o field(3) \o field(4) \o field(5)
  IN  [i \in 1..InfoSize |-> IF i <= Len(packed) THEN packed[i] ELSE 0]

(* Bytes taken before each field. *)
Taken == << 0, LongSize, 2 * LongSize, 2 * LongSize + IntSize, 2 * LongSize + 2 * IntSize >>

Take(bytes, k) == SubSeq(bytes, Taken[k] + 1, Taken[k] + FieldSize[k])

(* Faulty variant: the fields are taken in another order than they are put. *)
DeserializeSwapped(bytes) ==
  LET field(k) == from_ne_bytes(Take(bytes, k), Fields[k])
  IN  [thread_id |-> field(1), pthread_id |-> field(2), pid |-> field(3),
       policy |-> field(5), priority |-> field(4)]

deserialize(bytes) ==
  LET field(k) == from_ne_bytes(Take(bytes, k), Fields[k])
  IN  [thread_id |-> field(1), pthread_id |-> field(2), pid |-> field(3),
       policy |-> field(4), priority |-> field(5)]

(* PartialEq compares the thread only, not what is to be restored. *)
SameThread(i, j) ==
  i.thread_id = j.thread_id /\ i.pthread_id = j.pthread_id
=============================================================================
