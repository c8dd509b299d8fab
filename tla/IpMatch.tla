------------------------------- MODULE IpMatch -------------------------------
(***************************************************************************)
(* How AuthUtilsService reads and compares addresses of Width bits (32 in  *)
(* the code).  An address is written in one of three forms: dotted, as     *)
(* IPv6, or dotted after "::ffff:".  JavaScript's bitwise operators convert*)
(* their operands to Width-bit integers first, so the mask of the empty    *)
(* prefix, ~(2 ** Width - 1), is 0.  An integer is the set of the positions*)
(* of its one bits.                                                        *)
(***************************************************************************)
EXTENDS Naturals

CONSTANTS
  Width,
  Loopback4, Loopback6,  \* 127.0.0.1 and ::1
  Lead  \* of each IPv6 address, the number its text begins with
ASSUME WidthAssumption == Width \in Nat \ {0}

\* 2 ** n
PowerOfTwo[n \in Nat] == IF n = 0 THEN 1 ELSE 2 * PowerOfTwo[n - 1]

Address == 0 .. PowerOfTwo[Width] - 1
Position == 0 .. Width - 1

Text == [form : {"v4", "v6", "mapped"}, num : Address]
V4(n) == [form |-> "v4", num |-> n]

ASSUME LoopbackAssumption == Loopback4 \in Address /\ Loopback6 \in Address
ASSUME LeadAssumption == Lead \in [Address -> Address]

\* getClientIp: the one spelling that the checks see of a client's address
Normal(t) == IF t.form = "mapped" THEN V4(t.num)
             ELSE IF t.form = "v6" /\ t.num = Loopback6 THEN V4(Loopback4) ELSE t

\* an address without dots is one part, of which parseInt reads the first digits
IpToLong(t) == IF t.form = "v4" THEN t.num ELSE Lead[t.num]

\* what & and ~ see of an integer
Ones(n) == {i \in Position : (n \div PowerOfTwo[i]) % 2 = 1}

\* an integer type that saturates keeps the top bit in the mask of the empty prefix
\* VARIANT
SaturatedMask(bits) ==
  Position \ Ones(IF bits = 0 THEN PowerOfTwo[Width - 1] - 1 ELSE PowerOfTwo[Width - bits] - 1)
Mask(bits) == Position \ Ones(PowerOfTwo[Width - bits] - 1)

InCidr(ip, range, bits) == Ones(ip) \cap Mask(bits) = Ones(range) \cap Mask(bits)

\* what a CIDR range is: the addresses that share its first bits
SamePrefix(ip, range, bits) ==
  ip \div PowerOfTwo[Width - bits] = range \div PowerOfTwo[Width - bits]
=============================================================================
