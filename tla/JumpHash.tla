-------------------------------- MODULE JumpHash --------------------------------
(***************************************************************************)
(* Jump consistent hash (shardring/src/jump.rs): jump_consistent_hash and  *)
(* jump_consistent_hash_u64, called again and again for one key with any   *)
(* number of buckets.  One round of the while loop is a step.              *)
(*                                                                         *)
(* The generator is unknown: the initial state picks the numbers           *)
(* (key >> 33) + 1 it draws for the key, which every call draws again from *)
(* the first.  The product of the loop is taken to be exact.  The code     *)
(* rounds the quotient 2^31 / r and the product to f64, so its floor may   *)
(* be another: for b + 1 = 49 and r = 49 * 2^25 it is 63 and not 64.  What *)
(* the properties rest on is that each draw moves a call on by at least    *)
(* one bucket, which rounding leaves alone up to 2^53 buckets.             *)
(***************************************************************************)
EXTENDS Integers, Sequences

CONSTANTS
  Range,            \* 2^31: the draws are 1 .. Range
  Half,             \* 2^63: the i64 are -Half .. Half - 1
  NarrowMax         \* u32::MAX

ASSUME WidthsAssumption ==
  /\ Range \in Nat \ {0}
  /\ Half \in Nat \ {0}
  /\ NarrowMax \in Nat
  /\ NarrowMax < Half

VARIABLES
  draws,            \* the numbers drawn for the key
  num,              \* num_buckets of the call, 0 between calls
  signed,           \* num_buckets as i64
  stops,            \* the values b has had since its first, -1
  j,
  last              \* the last call that came back: its num and its stops

vars == <<draws, num, signed, stops, j, last>>

(* A call moves on at least one bucket with each draw. *)
Draws == 1 .. Half

(* b after these stops. *)
BAfter(s) == IF s = <<>> THEN -1 ELSE s[Len(s)]

(* ((b + 1) * (2^31 / r)).floor() as i64, which saturates. *)
NextStop(b, r) ==
  LET product == ((b + 1) * Range) \div r
  IN  IF product < Half THEN product ELSE Half - 1

-----------------------------------------------------------------------------
Init ==
  /\ draws \in [Draws -> 1 .. Range]
  /\ num = 0 /\ signed = 0 /\ stops = <<>> /\ j = 0
  /\ last = [num |-> 0, stops |-> <<>>]

Start(n, asSigned) ==
  /\ num = 0
  /\ num' = n
  /\ signed' = asSigned
  /\ stops' = <<>>
  /\ j' = 0
  /\ UNCHANGED <<draws, last>>

(* JumpHash::hash: a u32 is never negative as i64.  (Without buckets a     *)
(* call is refused, here and below, and has no step.)                      *)
Hash(n) ==
  /\ n <= NarrowMax
  /\ Start(n, n)

(* `num_buckets as i64` of a u64. *)
Signed(n) == IF n < Half THEN n ELSE n - 2 * Half

(* JumpHash::hash_u64 *)
HashU64(n) == Start(n, Signed(n))

(* Faulty: the loop takes the bucket after the last as well. *)
LoopsOnce == j <= signed

LoopsOn == j < signed

(* Faulty: the generator goes on from where the last call left it. *)
DrawnOn == draws[((Len(stops) + Len(last.stops)) % Half) + 1]

(* The generator starts with the key in every call. *)
Drawn == draws[Len(stops) + 1]

(* Faulty: b stays where it is. *)
JumpInPlace ==
  /\ num > 0 /\ LoopsOn
  /\ j' = NextStop(BAfter(stops), Drawn)
  /\ UNCHANGED <<draws, num, signed, stops, last>>

Jump ==
  /\ num > 0 /\ LoopsOn
  /\ stops' = Append(stops, j)
  /\ j' = NextStop(j, Drawn)
  /\ UNCHANGED <<draws, num, signed, last>>

(* The loop has ended, and the call returns b. *)
Ended == num > 0 /\ ~LoopsOn

Return ==
  /\ Ended
  /\ last' = [num |-> num, stops |-> stops]
  /\ num' = 0
  /\ UNCHANGED <<draws, signed, stops, j>>

Next ==
  \/ \E n \in 1 .. NarrowMax : Hash(n)
  \/ \E n \in 1 .. 2 * Half - 1 : HashU64(n)
  \/ Jump
  \/ Return

Spec == Init /\ [][Next]_vars

(* A call that has begun runs on. *)
FairSpec == Spec /\ WF_vars(Jump \/ Return)

-----------------------------------------------------------------------------
(* `b as u64`; as a u32 it is the same for the counts `hash` takes. *)
Bucket == BAfter(stops) % (2 * Half)

(* The bucket is one of those the caller has, for every count an i64 can   *)
(* hold.  For more, the loop does not run and the bucket is u64::MAX, one  *)
(* the caller never has (jump.rs 23, 29, 36).                              *)
BucketExists ==
  Ended => IF num < Half THEN Bucket < num ELSE Bucket = 2 * Half - 1

(* Growing moves a key only to a bucket that is new, and shrinking moves   *)
(* only keys of a bucket that is gone, over any number of buckets at once  *)
(* and whichever of the two functions was called before: two calls with    *)
(* counts m < n answer the same, or the answer for n is m or more          *)
(* (jump.rs 12-18, 29-35).                                                 *)
MovesToNewBuckets ==
  Ended /\ num < Half /\ last.num \in 1 .. Half - 1 =>
    LET was == BAfter(last.stops)
        is == BAfter(stops)
    IN  is = was \/ (IF num > last.num THEN is >= last.num ELSE was >= num)

(* The loop ends: every draw moves it on, and the conversion of a product  *)
(* that is too large to i64 saturates where it cannot go on (jump.rs       *)
(* 12-18, 29-35).                                                          *)
CallsEnd == num > 0 ~> num = 0
=============================================================================
