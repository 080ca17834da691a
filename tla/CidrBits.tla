------------------------------- MODULE CidrBits -------------------------------
(***************************************************************************)
(* CIDR arithmetic as src/util/ip.rs does it, with shifts and masks of W   *)
(* bits, to be compared with the blocks of module Cidr.                    *)
(***************************************************************************)
EXTENDS Bitwise, Integers

CONSTANT W

MAX == 2^W - 1                           \* u32::MAX

Complement(x) == MAX - x               \* !x

(* Mutant: no special case; the shift by W is a shift by 0, as a release   *)
(* build has it.                                                           *)
bug_mask(s) == (MAX * 2^((W - s.prefix) % W)) % 2^W

(* A shift to the left drops the bits that leave the word. *)
mask(s) == IF s.prefix = 0 THEN 0 ELSE (MAX * 2^(W - s.prefix)) % 2^W

network(s) == s.addr & mask(s)

broadcast(s) == s.addr | Complement(mask(s))

contains(s, x) == (x & mask(s)) = network(s)

=============================================================================
