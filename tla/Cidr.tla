--------------------------------- MODULE Cidr ---------------------------------
(***************************************************************************)
(* CIDR arithmetic (src/util/ip.rs) on addresses of W bits, 32 in the code.*)
(* The code masks with bit operations; here a prefix cuts the addresses    *)
(* into blocks of 2^(W - prefix).  CidrBits has the bit operations and     *)
(* checks that they amount to this.                                        *)
(***************************************************************************)
EXTENDS Integers

CONSTANT W

(* The second conjunct is arithmetic that the provers do not know. *)
ASSUME Width ==
    /\ W \in Nat \ {0}
    /\ \A n \in 0 .. W : 2^n \in Nat \ {0} /\ 2^W % 2^n = 0

Word == 0 .. 2^W - 1

Subnet == [addr : Word, prefix : 0 .. W]

BlockSize(c) == 2^(W - c.prefix)

mask(c) == 2^W - BlockSize(c)

network(c) == c.addr - (c.addr % BlockSize(c))

broadcast(c) == network(c) + BlockSize(c) - 1

contains(c, ip) == ip - (ip % BlockSize(c)) = network(c)

=============================================================================
