--------------------------------- MODULE Cidr ---------------------------------
(***************************************************************************)
(* Addresses, the entries of the configuration's network lists, and        *)
(* match_cidr (upstream.rs).  An address is its family and its value; the  *)
(* number of bits of a family is a parameter, 32 and 128 in the code.  An  *)
(* entry is a single address or a block: a base, not necessarily aligned,  *)
(* and a prefix length of eight bits, not necessarily within the width.    *)
(* An entry that does not parse behaves as a block with too long a prefix. *)
(***************************************************************************)
EXTENDS Naturals

CONSTANT Width      \* bits of an address of each family

Families == {"v4", "v6"}

ASSUME WidthAssumption == Width \in [Families -> 1 .. 128]

\* 1 << n.  A recursive function, so that proofs can reason about it.
pow2[n \in Nat] == IF n = 0 THEN 1 ELSE 2 * pow2[n - 1]

IpAddr == UNION {[family : {f}, bits : 0 .. pow2[Width[f]] - 1] : f \in Families}

Networks ==
    [kind : {"address"}, base : IpAddr]
    \union [kind : {"block"}, base : IpAddr, prefix : 0 .. 255]

\* Mutant: no case of its own for /0, where shifting by the width leaves the
\* mask as it was.
masked_Wraps(x, w, p) == x - (x % pow2[(w - p) % w])

\* x & mask: the first p of w bits are kept.
masked(x, w, p) == IF p = 0 THEN 0 ELSE x - (x % pow2[w - p])

match_cidr(ip, entry) ==
    \/ entry.kind = "address" /\ ip = entry.base
    \/ /\ entry.kind = "block"
       /\ ip.family = entry.base.family
       /\ LET w == Width[ip.family]
          IN  /\ entry.prefix <= w
              /\ masked(ip.bits, w, entry.prefix) = masked(entry.base.bits, w, entry.prefix)

-----------------------------------------------------------------------------
\* What CIDR notation means: bit i, counted from the most significant one, of
\* address and base agree for every i up to the prefix length.
Bit(a, i) == (a.bits \div pow2[Width[a.family] - i]) % 2

InNetwork(ip, entry) ==
    CASE entry.kind = "address" -> ip = entry.base
      [] entry.kind = "block"   ->
            /\ ip.family = entry.base.family
            /\ entry.prefix <= Width[ip.family]
            /\ \A i \in 1 .. entry.prefix : Bit(ip, i) = Bit(entry.base, i)
=============================================================================
