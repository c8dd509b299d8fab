------------------------------ MODULE GateProofs ------------------------------
(***************************************************************************)
(* What LoginGate guarantees for every hierarchy, every list and any       *)
(* number of logins at once, with addresses of any width.  The arithmetic   *)
(* on bits comes first: inCidr means what a CIDR range means.              *)
(***************************************************************************)
EXTENDS LoginGate, Integers, WellFoundedInduction, TLAPS

(* Induction over the naturals, stated of a set: a number that is missing  *)
(* from it would have a least one.                                         *)
Earlier == {ss \in Nat \X Nat : ss[1] < ss[2]}

LEMMA Induction ==
  ASSUME NEW S \in SUBSET Nat, 0 \in S, \A n \in S : n + 1 \in S
  PROVE  S = Nat
<1>1. IsWellFoundedOn(Earlier, Nat)
  BY Zenon, NatLessThanWellFounded DEF OpToRel, Earlier
<1>2. SUFFICES ASSUME Nat \ S # {} PROVE FALSE
  OBVIOUS
<1>3. PICK m \in Nat \ S : \A n \in Nat \ S : <<n, m>> \notin Earlier
  BY <1>1, <1>2, WFMin, Zenon
<1>4. m # 0 /\ m - 1 \in Nat /\ <<m - 1, m>> \in Earlier
  BY DEF Earlier
<1>5. m - 1 \in S /\ m = (m - 1) + 1
  BY <1>3, <1>4
<1> QED BY <1>3, <1>5

(* The powers of two obey their recursion: there is a table of the first n  *)
(* for every n, any two tables agree, and so the tables together are a     *)
(* function.                                                               *)
Powers(n, f) ==
  f \in [0 .. n -> Nat \ {0}] /\ f[0] = 1 /\ \A i \in 0 .. n - 1 : f[i + 1] = 2 * f[i]

LEMMA PowersExist == \A n \in Nat : \E f : Powers(n, f)
<1> DEFINE S == {n \in Nat : \E f : Powers(n, f)}
<1>1. 0 \in S
  <2>1. Powers(0, [i \in 0 .. 0 |-> 1])
    BY DEF Powers
  <2> QED BY <2>1
<1>2. ASSUME NEW n \in S PROVE n + 1 \in S
  <2>1. PICK f : Powers(n, f)
    OBVIOUS
  <2> DEFINE g == [i \in 0 .. n + 1 |-> IF i = n + 1 THEN 2 * f[n] ELSE f[i]]
  <2>2. g \in [0 .. n + 1 -> Nat \ {0}]
    BY <2>1 DEF Powers
  <2>3. g[0] = 1
    BY <2>1 DEF Powers
  <2>4. ASSUME NEW i \in 0 .. n PROVE g[i + 1] = 2 * g[i]
    BY <2>1, <2>4 DEF Powers
  <2>5. Powers(n + 1, g)
    <3> HIDE DEF g
    <3> QED BY <2>2, <2>3, <2>4 DEF Powers
  <2> QED BY <2>5
<1> HIDE DEF S
<1>3. S = Nat
  <2>1. S \in SUBSET Nat
    BY DEF S
  <2> QED BY <1>1, <1>2, <2>1, Induction
<1> QED BY <1>3 DEF S

LEMMA PowersAgree ==
  ASSUME NEW n \in Nat, NEW m \in Nat, NEW f, NEW g, Powers(n, f), Powers(m, g)
  PROVE  \A i \in Nat : i <= n /\ i <= m => f[i] = g[i]
<1> DEFINE S == {i \in Nat : i <= n /\ i <= m => f[i] = g[i]}
<1>1. 0 \in S
  BY DEF Powers
<1>2. ASSUME NEW i \in S PROVE i + 1 \in S
  <2>1. SUFFICES ASSUME i + 1 <= n, i + 1 <= m PROVE f[i + 1] = g[i + 1]
    OBVIOUS
  <2>2. i \in 0 .. n - 1 /\ i \in 0 .. m - 1 /\ f[i] = g[i]
    BY <2>1
  <2> QED BY <2>2 DEF Powers
<1> HIDE DEF S
<1>3. S = Nat
  <2>1. S \in SUBSET Nat
    BY DEF S
  <2> QED BY <1>1, <1>2, <2>1, Induction
<1> QED BY <1>3 DEF S

LEMMA PowerIs ==
  /\ PowerOfTwo[0] = 1
  /\ \A n \in Nat : PowerOfTwo[n] \in Nat \ {0} /\ PowerOfTwo[n + 1] = 2 * PowerOfTwo[n]
<1> DEFINE table(n) == CHOOSE f : Powers(n, f)
           p == [n \in Nat |-> table(n)[n]]
           body(h) == [n \in Nat |-> IF n = 0 THEN 1 ELSE 2 * h[n - 1]]
<1>1. \A n \in Nat : Powers(n, table(n))
  BY PowersExist
<1> HIDE DEF table
<1>2. p[0] = 1
  BY <1>1 DEF Powers
<1>3. ASSUME NEW n \in Nat PROVE p[n] \in Nat \ {0} /\ p[n + 1] = 2 * p[n]
  <2>1. Powers(n, table(n)) /\ Powers(n + 1, table(n + 1)) /\ n + 1 \in Nat
    BY <1>1
  <2>2. table(n + 1)[n + 1] = 2 * table(n + 1)[n] /\ table(n)[n] \in Nat \ {0}
    BY <2>1 DEF Powers
  <2>3. table(n)[n] = table(n + 1)[n]
    BY <2>1, PowersAgree
  <2> QED BY <2>1, <2>2, <2>3
<1>4. p = [n \in Nat |-> p[n]]
  OBVIOUS
<1> HIDE DEF p
<1>5. ASSUME NEW n \in Nat PROVE p[n] = IF n = 0 THEN 1 ELSE 2 * p[n - 1]
  <2>1. CASE n = 0
    BY <1>2, <2>1
  <2>2. CASE n # 0
    <3>1. n - 1 \in Nat /\ n = (n - 1) + 1
      BY <2>2
    <3> QED BY <1>3, <2>2, <3>1
  <2> QED BY <2>1, <2>2
<1>6. p = body(p)
  BY <1>4, <1>5, Zenon
<1>7. PowerOfTwo = CHOOSE h : h = body(h)
  BY DEF PowerOfTwo
<1> HIDE DEF body
<1>8. PowerOfTwo = body(PowerOfTwo)
  BY <1>6, <1>7
<1>9. ASSUME NEW n \in Nat
      PROVE  PowerOfTwo[n] = IF n = 0 THEN 1 ELSE 2 * PowerOfTwo[n - 1]
  BY <1>8, Zenon DEF body
<1>10. \A n \in Nat : PowerOfTwo[n + 1] = 2 * PowerOfTwo[n]
  <2> TAKE n \in Nat
  <2>1. n + 1 \in Nat /\ n + 1 # 0 /\ (n + 1) - 1 = n
    OBVIOUS
  <2> QED BY <1>9, <2>1
<1> DEFINE S == {n \in Nat : PowerOfTwo[n] \in Nat \ {0}}
<1>11. 0 \in S
  BY <1>9
<1>12. ASSUME NEW n \in S PROVE n + 1 \in S
  BY <1>10
<1> HIDE DEF S
<1>13. S = Nat
  <2>1. S \in SUBSET Nat
    BY DEF S
  <2> QED BY <1>11, <1>12, <2>1, Induction
<1> QED BY <1>9, <1>10, <1>13 DEF S

-----------------------------------------------------------------------------
(* Bit i of n is the parity of n cut by i positions.                       *)
Cut(n, i) == n \div PowerOfTwo[i]

LEMMA Quotient ==
  ASSUME NEW a \in Nat, NEW d \in Nat \ {0}
  PROVE  a \div d \in Nat /\ a \div (2 * d) = (a \div d) \div 2
  OBVIOUS

LEMMA CutIs ==
  ASSUME NEW n \in Nat, NEW i \in Nat
  PROVE  Cut(n, i) \in Nat /\ Cut(n, 0) = n /\ Cut(n, i + 1) = Cut(n, i) \div 2
<1>1. PowerOfTwo[i] \in Nat \ {0} /\ PowerOfTwo[i + 1] = 2 * PowerOfTwo[i] /\ PowerOfTwo[0] = 1
  BY PowerIs
<1>2. n \div 1 = n
  OBVIOUS
<1> QED BY <1>1, <1>2, Quotient DEF Cut

(* The number with k ones has its ones in the first k positions.           *)
LEMMA OnesOfLow ==
  ASSUME NEW k \in 0 .. Width
  PROVE  Ones(PowerOfTwo[k] - 1) = 0 .. k - 1
<1> DEFINE m == PowerOfTwo[k] - 1
<1>1. m \in Nat /\ Width \in Nat /\ k \in Nat
  BY PowerIs, WidthAssumption
<1> DEFINE S == {i \in Nat : Cut(m, i) = IF i <= k THEN PowerOfTwo[k - i] - 1 ELSE 0}
<1>2. 0 \in S
  <2>1. Cut(m, 0) = m
    <3> HIDE DEF m
    <3> QED BY <1>1, CutIs
  <2>2. k - 0 = k /\ 0 <= k
    BY <1>1
  <2> QED BY <2>1, <2>2
<1>3. ASSUME NEW i \in S PROVE i + 1 \in S
  <2>1. Cut(m, i + 1) = Cut(m, i) \div 2
    BY <1>1, CutIs
  <2>2. CASE i < k
    <3>1. /\ k - i \in Nat /\ k - (i + 1) \in Nat /\ i + 1 <= k
          /\ PowerOfTwo[k - i] = 2 * PowerOfTwo[k - (i + 1)]
          /\ PowerOfTwo[k - (i + 1)] \in Nat \ {0}
      <4>1. k - (i + 1) \in Nat /\ (k - (i + 1)) + 1 = k - i
        BY <1>1, <2>2
      <4> QED BY <1>1, <2>2, <4>1, PowerIs
    <3>2. Cut(m, i) = 2 * PowerOfTwo[k - (i + 1)] - 1
      BY <2>2, <3>1
    <3>3. (2 * PowerOfTwo[k - (i + 1)] - 1) \div 2 = PowerOfTwo[k - (i + 1)] - 1
      BY <3>1
    <3> QED BY <2>1, <3>1, <3>2, <3>3
  <2>3. CASE ~(i < k)
    <3>1. Cut(m, i) = 0
      BY <1>1, <2>3, PowerIs
    <3>2. Cut(m, i + 1) = 0 /\ ~(i + 1 <= k)
      BY <1>1, <2>1, <2>3, <3>1
    <3> QED BY <3>2
  <2> QED BY <2>2, <2>3
<1>4. S = Nat
  <2> HIDE DEF S
  <2>1. S \in SUBSET Nat
    BY DEF S
  <2> QED BY <1>2, <1>3, <2>1, Induction
<1>5. ASSUME NEW i \in Position
      PROVE  Cut(m, i) % 2 = 1 <=> i \in 0 .. k - 1
  <2>1. i \in Nat /\ Cut(m, i) = IF i <= k THEN PowerOfTwo[k - i] - 1 ELSE 0
    BY <1>1, <1>4 DEF Position
  <2>2. CASE i < k
    <3>1. k - (i + 1) \in Nat /\ (k - (i + 1)) + 1 = k - i
      BY <1>1, <2>1, <2>2
    <3>2. PowerOfTwo[k - i] = 2 * PowerOfTwo[k - (i + 1)] /\ PowerOfTwo[k - (i + 1)] \in Nat \ {0}
      BY <3>1, PowerIs
    <3>3. (2 * PowerOfTwo[k - (i + 1)] - 1) % 2 = 1
      BY <3>2
    <3> QED BY <1>1, <2>1, <2>2, <3>2, <3>3
  <2>3. CASE ~(i < k)
    BY <1>1, <2>1, <2>3, PowerIs
  <2> QED BY <2>2, <2>3
<1>6. 0 .. k - 1 \subseteq Position
  BY <1>1 DEF Position
<1> QED BY <1>5, <1>6 DEF Ones, Cut

(* Two addresses agree above position k exactly if they agree cut there.   *)
LEMMA CutEqual ==
  ASSUME NEW a \in Address, NEW b \in Address, NEW k \in 0 .. Width
  PROVE  (\A i \in k .. Width - 1 : Cut(a, i) % 2 = Cut(b, i) % 2) <=> Cut(a, k) = Cut(b, k)
<1>1. a \in Nat /\ b \in Nat /\ Width \in Nat /\ k \in Nat
  BY WidthAssumption DEF Address
<1>2. ASSUME Cut(a, k) = Cut(b, k)
      PROVE  \A i \in k .. Width - 1 : Cut(a, i) % 2 = Cut(b, i) % 2
  <2> DEFINE S == {j \in Nat : Cut(a, k + j) = Cut(b, k + j)}
  <2>1. 0 \in S
    BY <1>1, <1>2
  <2>2. ASSUME NEW j \in S PROVE j + 1 \in S
    <3>1. k + j \in Nat /\ k + (j + 1) = (k + j) + 1
      BY <1>1
    <3> QED BY <1>1, <3>1, CutIs
  <2>3. S = Nat
    <3> HIDE DEF S
    <3>1. S \in SUBSET Nat
      BY DEF S
    <3> QED BY <2>1, <2>2, <3>1, Induction
  <2> TAKE i \in k .. Width - 1
  <2>4. i - k \in Nat /\ k + (i - k) = i
    BY <1>1
  <2> QED BY <2>3, <2>4
<1>3. ASSUME \A i \in k .. Width - 1 : Cut(a, i) % 2 = Cut(b, i) % 2
      PROVE  Cut(a, k) = Cut(b, k)
  <2> DEFINE S == {j \in Nat : k + j <= Width => Cut(a, Width - j) = Cut(b, Width - j)}
  <2>1. 0 \in S
    <3>1. a < PowerOfTwo[Width] /\ b < PowerOfTwo[Width] /\ PowerOfTwo[Width] \in Nat \ {0}
      BY <1>1, PowerIs DEF Address
    <3>2. Cut(a, Width) = 0 /\ Cut(b, Width) = 0
      BY <1>1, <3>1 DEF Cut
    <3> QED BY <1>1, <3>2
  <2>2. ASSUME NEW j \in S PROVE j + 1 \in S
    <3>1. SUFFICES ASSUME k + (j + 1) <= Width
                   PROVE  Cut(a, Width - (j + 1)) = Cut(b, Width - (j + 1))
      OBVIOUS
    <3> DEFINE i == Width - (j + 1)
    <3>2. i \in k .. Width - 1 /\ i \in Nat /\ i + 1 = Width - j /\ k + j <= Width
      BY <1>1, <3>1
    <3>3. Cut(a, i + 1) = Cut(b, i + 1)
      BY <3>2
    <3> HIDE DEF i
    <3>4. /\ Cut(a, i) \in Nat /\ Cut(a, i + 1) = Cut(a, i) \div 2
          /\ Cut(b, i) \in Nat /\ Cut(b, i + 1) = Cut(b, i) \div 2
      BY <1>1, <3>2, CutIs
    <3>5. Cut(a, i) % 2 = Cut(b, i) % 2
      BY <1>3, <3>2
    <3>6. Cut(a, i) = Cut(b, i)
      BY <3>3, <3>4, <3>5
    <3> QED BY <3>6 DEF i
  <2>3. S = Nat
    <3> HIDE DEF S
    <3>1. S \in SUBSET Nat
      BY DEF S
    <3> QED BY <2>1, <2>2, <3>1, Induction
  <2>4. Width - k \in Nat /\ k + (Width - k) <= Width /\ Width - (Width - k) = k
    BY <1>1
  <2> QED BY <2>3, <2>4
<1> QED BY <1>2, <1>3

(* inCidr, which compares the bits under the mask, compares prefixes.      *)
LEMMA CidrExact ==
  ASSUME NEW ip \in Address, NEW range \in Address, NEW bits \in 0 .. Width
  PROVE  InCidr(ip, range, bits) <=> SamePrefix(ip, range, bits)
<1> DEFINE k == Width - bits
<1>1. k \in 0 .. Width /\ Width \in Nat /\ ip \in Nat /\ range \in Nat
  BY WidthAssumption DEF Address
<1>2. Mask(bits) = k .. Width - 1
  BY <1>1, OnesOfLow DEF Mask, Position
<1>3. \A i \in k .. Width - 1 : i \in Position /\ i \in Nat
  BY <1>1 DEF Position
<1>4. \A i \in Nat : Cut(ip, i) % 2 \in {0, 1} /\ Cut(range, i) % 2 \in {0, 1}
  <2>1. \A n \in Nat : n % 2 \in {0, 1}
    OBVIOUS
  <2>2. \A i \in Nat : Cut(ip, i) \in Nat /\ Cut(range, i) \in Nat
    BY <1>1, CutIs
  <2> QED BY <2>1, <2>2
<1>5. InCidr(ip, range, bits) <=>
        \A i \in k .. Width - 1 : Cut(ip, i) % 2 = 1 <=> Cut(range, i) % 2 = 1
  BY <1>2, <1>3 DEF InCidr, Ones, Cut
<1>6. InCidr(ip, range, bits) <=> \A i \in k .. Width - 1 : Cut(ip, i) % 2 = Cut(range, i) % 2
  <2> HIDE DEF k
  <2> QED BY <1>3, <1>4, <1>5
<1>7. SamePrefix(ip, range, bits) <=> Cut(ip, k) = Cut(range, k)
  BY DEF SamePrefix, Cut
<1> QED BY <1>1, <1>6, <1>7, CutEqual

-----------------------------------------------------------------------------
(* Texts of addresses. *)

(* What getClientIp returns it would return again.                         *)
LEMMA NormalTwice ==
  ASSUME NEW t \in Text
  PROVE  Normal(t) \in Text /\ Normal(Normal(t)) = Normal(t)
<1>1. V4(t.num) \in Text /\ V4(Loopback4) \in Text
  BY LoopbackAssumption DEF Text, V4
<1>2. \A n : V4(n).form = "v4"
  BY DEF V4
<1>3. Normal(t) = t \/ Normal(t) = V4(t.num) \/ Normal(t) = V4(Loopback4)
  BY DEF Normal
<1>4. CASE Normal(t) = t
  BY <1>4
<1>5. CASE Normal(t) # t
  <2>1. Normal(t).form = "v4" /\ Normal(t) \in Text
    BY <1>1, <1>2, <1>3, <1>5
  <2> QED BY <2>1 DEF Normal
<1> QED BY <1>4, <1>5

LEMMA NumberIs ==
  ASSUME NEW t \in Text
  PROVE  IpToLong(t) \in Address /\ (t.form = "v4" => IpToLong(t) = t.num)
  BY LeadAssumption DEF IpToLong, Text

(* A range tests by bits what it means by prefixes.                        *)
LEMMA MatchMeaning ==
  ASSUME NEW ip \in Text, NEW net \in Net
  PROVE  /\ Normal(ip) = ip /\ Matches(ip, net) => Admits(net, ip)
         /\ PlainlyAdmits(net, ip) => Matches(ip, net)
<1>1. /\ net.range \in Text
      /\ net.bits = None \/ (net.bits \in 0 .. Width /\ net.range.form = "v4")
  BY NetAssumption
<1>2. CASE net.bits = None
  BY <1>2 DEF Matches, Admits, PlainlyAdmits
<1>3. CASE net.bits # None
  <2>1. /\ IpToLong(ip) \in Address /\ net.range.num \in Address
        /\ IpToLong(net.range) = net.range.num /\ net.bits \in 0 .. Width
    BY <1>1, <1>3, NumberIs
  <2>2. InCidr(IpToLong(ip), net.range.num, net.bits)
          <=> SamePrefix(IpToLong(ip), net.range.num, net.bits)
    BY <2>1, CidrExact
  <2> QED BY <1>3, <2>1, <2>2 DEF Matches, Admits, PlainlyAdmits
<1> QED BY <1>2, <1>3

-----------------------------------------------------------------------------
(* What has been checked, by the stage a login is in. *)
Seen == {t \in Text : Normal(t) = t} \cup {None}

Checked(w) ==
  LET r == req[w] IN
  /\ r.at \notin {"idle", "refused"} =>
       r.account \in Account /\ r.ip \in Seen /\ "account" \in held[w]
  /\ r.at \in {"found", "parent", "level"} => r.account \in User
  /\ r.at \in {"parent", "level"} =>
       ~IsAdmin(r.account) /\ tree.parent[r.account] # None
  /\ r.at = "whitelist" => Source(r.account) \in Account
  /\ r.at \in {"parent", "level", "whitelist", "write", "admitted"} => "root" \in held[w]
  /\ r.at \in {"level", "whitelist", "write", "admitted"} => "parent" \in held[w]
  /\ r.at \in {"whitelist", "write", "admitted"} => "level" \in held[w]
  /\ r.at \in {"write", "admitted"} => {"list", "origin", "ip"} \subseteq held[w]

GateInv == TypeOK /\ \A w \in Worker : Checked(w)

-----------------------------------------------------------------------------
(* The conditions one by one. *)

LEMMA Observed ==
  ASSUME Observe, NEW w \in Worker, NEW r, r = req'[w],
         r.at \notin {"idle", "refused"}, req[w].at # "admitted",
         NEW c \in Condition, Holds(c, r)'
  PROVE c \in held'[w]
<1>1. c \in Now(w)'
  BY DEF Now, Holds, HasParent, Upline, IsAdmin, Below, Listed, ListedOrigin, ListedIp, Local, Admits, Free
<1> QED BY <1>1 DEF Observe

LEMMA HeldGrows ==
  ASSUME Observe, NEW w \in Worker, req'[w].at \notin {"idle", "refused"}
  PROVE held[w] \subseteq held'[w]
  BY DEF Observe

LEMMA ObservedCases ==
  ASSUME Observe, UNCHANGED config, NEW w \in Worker, NEW r, r = req'[w],
         r.at \notin {"idle", "refused"}, req[w].at # "admitted"
  PROVE /\ active'[r.account] => "account" \in held'[w]
        /\ r.account \in Root \/ active'[tree.root[r.account]] => "root" \in held'[w]
        /\ ~HasParent(r.account) => {"parent", "level"} \subseteq held'[w]
        /\ Upline(r.account) # None /\ active'[Upline(r.account)] => "parent" \in held'[w]
        /\ Upline(r.account) # None /\ Below(r.account) => "level" \in held'[w]
        /\ Listed(r.account)' # {} => "list" \in held'[w]
        /\ ListedOrigin(r.account, r.origin)' => "origin" \in held'[w]
        /\ ListedIp(r.account, r.ip)' => "ip" \in held'[w]
<1>0. tree' = tree /\ Condition = {"account", "root", "parent", "level", "list", "origin", "ip"}
  BY DEF config, Condition
<1>1. /\ Upline(r.account)' = Upline(r.account) /\ Below(r.account)' = Below(r.account)
      /\ HasParent(r.account)' = HasParent(r.account)
  BY <1>0 DEF Upline, HasParent, IsAdmin, Below
<1>2. ASSUME active'[r.account] PROVE "account" \in held'[w]
  <2>1. Holds("account", r)'
    BY <1>2 DEF Holds
  <2> QED BY <1>0, <2>1, Observed
<1>3. ASSUME r.account \in Root \/ active'[tree.root[r.account]] PROVE "root" \in held'[w]
  <2>1. Holds("root", r)'
    BY <1>0, <1>3 DEF Holds
  <2> QED BY <1>0, <2>1, Observed
<1>4. ASSUME \/ ~HasParent(r.account)
             \/ Upline(r.account) # None /\ active'[Upline(r.account)]
      PROVE "parent" \in held'[w]
  <2>1. Holds("parent", r)'
    BY <1>1, <1>4 DEF Holds
  <2> QED BY <1>0, <2>1, Observed
<1>5. ASSUME \/ ~HasParent(r.account)
             \/ Upline(r.account) # None /\ Below(r.account)
      PROVE "level" \in held'[w]
  <2>1. Holds("level", r)'
    BY <1>1, <1>5 DEF Holds
  <2> QED BY <1>0, <2>1, Observed
<1>6. ASSUME Listed(r.account)' # {} PROVE "list" \in held'[w]
  <2>1. Holds("list", r)'
    BY <1>6 DEF Holds
  <2> QED BY <1>0, <2>1, Observed
<1>7. ASSUME ListedOrigin(r.account, r.origin)' PROVE "origin" \in held'[w]
  <2>1. Holds("origin", r)'
    BY <1>7 DEF Holds
  <2> QED BY <1>0, <2>1, Observed
<1>8. ASSUME ListedIp(r.account, r.ip)' PROVE "ip" \in held'[w]
  <2>1. Holds("ip", r)'
    BY <1>8 DEF Holds
  <2> QED BY <1>0, <2>1, Observed
<1> QED BY <1>2, <1>3, <1>4, <1>5, <1>6, <1>7, <1>8

(* The checks of the list accept what the list says, and refuse no more    *)
(* than it plainly leaves out.                                             *)
LEMMA ListMeaning ==
  ASSUME TypeOK, NEW a \in Account, Source(a) \in Account
  PROVE /\ DomainsOf(Source(a)) = {} <=> Listed(a) = {}
        /\ \A o \in Origin \cup {None} :
             IsValidOrigin(o, DomainsOf(Source(a))) <=> ListedOrigin(a, o)
        /\ \A ip \in Seen : IsValidIp(ip, NetsOf(Source(a))) => ListedIp(a, ip)
        /\ \A ip \in Seen : PlainlyListedIp(a, ip) => IsValidIp(ip, NetsOf(Source(a)))
<1>0. Source(a) = Upline(a)
  BY AccountAssumption DEF Source, Upline, HasParent, Account
<1>1. DomainsOf(Source(a)) = {e \in Domain : ~Free(e) /\ whitelist[e].owner = Upline(a)}
  BY <1>0 DEF DomainsOf, Free
<1>2. NetsOf(Source(a)) = Listed(a)
  BY <1>1 DEF NetsOf, Listed
<1>3. DomainsOf(Source(a)) = {} <=> Listed(a) = {}
  BY <1>1 DEF Listed
<1>4. ASSUME NEW o \in Origin \cup {None}
      PROVE  IsValidOrigin(o, DomainsOf(Source(a))) <=> ListedOrigin(a, o)
  <2>1. CASE o = None
    BY <2>1 DEF IsValidOrigin, ListedOrigin
  <2>2. CASE o # None
    BY <1>1, <2>2 DEF IsValidOrigin, ListedOrigin
  <2> QED BY <2>1, <2>2
<1>5. Listed(a) \subseteq Net
  BY DEF Listed, Free, TypeOK, Entry
<1>6. ASSUME NEW ip \in Seen
      PROVE  /\ IsValidIp(ip, Listed(a)) => ListedIp(a, ip)
             /\ PlainlyListedIp(a, ip) => IsValidIp(ip, Listed(a))
  <2>1. CASE ip = None
    BY <2>1 DEF IsValidIp, PlainlyListedIp
  <2>2. CASE ip # None
    <3>1. ip \in Text /\ Normal(ip) = ip
      BY <2>2 DEF Seen
    <3>2. (~isProd /\ IsLocal(ip)) <=> Local(ip)
      <4>1. ASSUME ip.form = "v4" PROVE ip = V4(ip.num)
        BY <3>1, <4>1 DEF Text, V4
      <4>2. \A n : V4(n).form = "v4" /\ V4(n).num = n
        BY DEF V4
      <4> QED BY <4>1, <4>2 DEF IsLocal, Local
    <3>3. \A n \in Listed(a) : /\ Matches(ip, n) => Admits(n, ip)
                               /\ PlainlyAdmits(n, ip) => Matches(ip, n)
      BY <1>5, <3>1, MatchMeaning
    <3> QED BY <2>2, <3>2, <3>3 DEF IsValidIp, ListedIp, PlainlyListedIp
  <2> QED BY <2>1, <2>2
<1> QED BY <1>2, <1>3, <1>4, <1>6

-----------------------------------------------------------------------------
(* Types. *)

Stage == {"idle", "found", "parent", "level", "whitelist", "write", "admitted", "refused"}

LEMMA ObserveType ==
  ASSUME TypeOK, Observe
  PROVE held' \in [Worker -> SUBSET Condition]
<1>1. \A w \in Worker : Now(w)' \subseteq Condition
  BY DEF Now, Condition
<1>2. \A w \in Worker : held[w] \subseteq Condition
  BY DEF TypeOK
<1>3. \A w \in Worker :
        (IF req'[w].at \in {"idle", "refused"} THEN {}
         ELSE IF req[w].at = "admitted" THEN held[w]
         ELSE held[w] \cup Now(w)') \in SUBSET Condition
  BY <1>1, <1>2
<1> QED BY <1>3 DEF Observe

LEMMA MoveType ==
  ASSUME TypeOK, NEW w \in Worker, NEW at \in Stage, Move(w, at)
  PROVE /\ req' \in [Worker -> Request]
        /\ req'[w].at = at /\ req'[w].account = req[w].account
        /\ req'[w].ip = req[w].ip /\ req'[w].origin = req[w].origin
        /\ req'[w].why = req[w].why
        /\ \A v \in Worker \ {w} : req'[v] = req[v]
  BY DEF TypeOK, Move, Request, Stage

LEMMA RefuseType ==
  ASSUME TypeOK, NEW w \in Worker, NEW why \in Condition, Refuse(w, why)
  PROVE /\ req' \in [Worker -> Request]
        /\ req'[w] = [req[w] EXCEPT !.at = "refused", !.why = why]
        /\ req'[w].at = "refused" /\ req'[w].why = why
        /\ req'[w].account = req[w].account
        /\ req'[w].ip = req[w].ip /\ req'[w].origin = req[w].origin
        /\ \A v \in Worker \ {w} : req'[v] = req[v]
<1>1. req' = [req EXCEPT ![w] = [req[w] EXCEPT !.at = "refused", !.why = why]]
  BY DEF Refuse
<1>2. req[w] \in Request /\ req \in [Worker -> Request]
  BY DEF TypeOK
<1>3. [req[w] EXCEPT !.at = "refused", !.why = why] \in Request
  BY <1>2 DEF Request
<1>4. req'[w] = [req[w] EXCEPT !.at = "refused", !.why = why]
  BY <1>1, <1>2
<1>5. req' \in [Worker -> Request] /\ \A v \in Worker \ {w} : req'[v] = req[v]
  BY <1>1, <1>2, <1>3
<1> QED BY <1>2, <1>4, <1>5 DEF Request

(* A step of a login and one of the lists. *)
LEMMA LoginType ==
  ASSUME TypeOK, UNCHANGED <<config, active, whitelist>>, Observe,
         req' \in [Worker -> Request]
  PROVE TypeOK'
  BY ObserveType DEF TypeOK, config

LEMMA TableType ==
  ASSUME TypeOK, UNCHANGED <<config, req>>, Observe,
         active' \in [Account -> BOOLEAN], whitelist' \in [Domain -> Entry \cup {None}]
  PROVE TypeOK'
  BY ObserveType DEF TypeOK, config

-----------------------------------------------------------------------------
(* The steps. *)

(* What has been checked of a login stays so while another step is made.   *)
LEMMA CheckedKept ==
  ASSUME TypeOK, Observe, UNCHANGED config, NEW w \in Worker, Checked(w), req'[w] = req[w]
  PROVE Checked(w)'
<1>1. CASE req[w].at \in {"idle", "refused"}
  BY <1>1 DEF Checked
<1>2. CASE req[w].at \notin {"idle", "refused"}
  <2>1. held[w] \subseteq held'[w] /\ tree' = tree
    BY <1>2, HeldGrows DEF config
  <2> QED BY <2>1 DEF Checked, Source, IsAdmin
<1> QED BY <1>1, <1>2

(* A login goes on: its new stage decides. *)
LEMMA LoginStep ==
  ASSUME GateInv, UNCHANGED <<config, active, whitelist>>, Observe, NEW w \in Worker,
         req' \in [Worker -> Request], \A v \in Worker \ {w} : req'[v] = req[v],
         Checked(w)'
  PROVE GateInv'
<1>1. TypeOK'
  BY LoginType DEF GateInv
<1>2. \A v \in Worker : Checked(v)'
  BY CheckedKept DEF GateInv
<1> QED BY <1>1, <1>2 DEF GateInv

(* A refused login has nothing left to keep. *)
LEMMA RefuseKeeps ==
  ASSUME GateInv, Observe, UNCHANGED <<config, active, whitelist>>,
         NEW w \in Worker, NEW why \in Condition, Refuse(w, why)
  PROVE GateInv'
<1>1. /\ req' \in [Worker -> Request] /\ req'[w].at = "refused"
      /\ \A v \in Worker \ {w} : req'[v] = req[v]
  BY RefuseType DEF GateInv
<1>2. Checked(w)'
  BY <1>1 DEF Checked
<1> QED BY <1>1, <1>2, LoginStep

(* The request that a login begins with. *)
Begun(a, ip, o) ==
  [at |-> IF ~active[a] THEN "refused" ELSE IF a \in Root THEN "whitelist" ELSE "found",
   account |-> a, ip |-> IF ip = None THEN None ELSE Normal(ip), origin |-> o,
   why |-> IF active[a] THEN None ELSE "account"]

LEMMA BegunIs ==
  ASSUME NEW a \in Account, NEW ip \in ClientIp, NEW o \in Origin
  PROVE  /\ Begun(a, ip, o) \in Request /\ Begun(a, ip, o).ip \in Seen
         /\ Begun(a, ip, o).account = a /\ Begun(a, ip, o).at # "idle"
         /\ Begun(a, ip, o).at = IF ~active[a] THEN "refused"
                                 ELSE IF a \in Root THEN "whitelist" ELSE "found"
         /\ Begun(a, ip, o).why = IF active[a] THEN None ELSE "account"
<1>1. PICK i : i = IF ip = None THEN None ELSE Normal(ip)
  OBVIOUS
<1>2. PICK at : at = IF ~active[a] THEN "refused" ELSE IF a \in Root THEN "whitelist" ELSE "found"
  OBVIOUS
<1>3. PICK why : why = IF active[a] THEN None ELSE "account"
  OBVIOUS
<1>4. i \in Seen /\ i \in Text \cup {None}
  BY <1>1, NormalTwice, ClientAssumption DEF Seen
<1>5. at \in {"refused", "whitelist", "found"} /\ why \in Condition \cup {None}
  BY <1>2, <1>3 DEF Condition
<1>6. Begun(a, ip, o) = [at |-> at, account |-> a, ip |-> i, origin |-> o, why |-> why]
  BY <1>1, <1>2, <1>3 DEF Begun
<1> QED BY <1>2, <1>3, <1>4, <1>5, <1>6 DEF Request

LEMMA FindAccountKeeps ==
  ASSUME GateInv, Observe, NEW w \in Worker, NEW a \in Account, NEW ip \in ClientIp,
         NEW o \in Origin, FindAccount(w, a, ip, o)
  PROVE GateInv'
<1>1. PICK r : r = Begun(a, ip, o)
  OBVIOUS
<1>2. /\ req[w] = Idle /\ req' = [req EXCEPT ![w] = r]
      /\ UNCHANGED <<config, active, whitelist>>
  BY <1>1 DEF FindAccount, Begun
<1>3. /\ r \in Request /\ r.ip \in Seen /\ r.account = a
      /\ r.at = IF ~active[a] THEN "refused" ELSE IF a \in Root THEN "whitelist" ELSE "found"
  BY <1>1, BegunIs
<1>4. /\ req' \in [Worker -> Request] /\ req'[w] = r
      /\ \A v \in Worker \ {w} : req'[v] = req[v]
  BY <1>2, <1>3 DEF GateInv, TypeOK
<1>5. CASE ~active[a]
  <2>1. Checked(w)'
    BY <1>3, <1>4, <1>5 DEF Checked
  <2> QED BY <1>2, <1>4, <2>1, LoginStep
<1>6. CASE active[a]
  <2>0. r.at \notin {"idle", "refused"} /\ req[w].at # "admitted"
    BY <1>2, <1>3, <1>6 DEF Idle
  <2>1. "account" \in held'[w]
    BY <1>2, <1>3, <1>4, <1>6, <2>0, ObservedCases
  <2>2. a \in Root => {"root", "parent", "level"} \subseteq held'[w] /\ Source(a) \in Account
    BY <1>2, <1>3, <1>4, <2>0, ObservedCases, AccountAssumption DEF HasParent, Source, Account
  <2>3. a \notin Root => a \in User
    BY DEF Account
  <2>4. tree' = tree
    BY <1>2 DEF config
  <2>5. r.at = IF a \in Root THEN "whitelist" ELSE "found"
    BY <1>3, <1>6
  <2>6. Checked(w)'
    BY <1>3, <1>4, <2>1, <2>2, <2>3, <2>4, <2>5 DEF Checked, Source, IsAdmin
  <2> QED BY <1>2, <1>4, <2>6, LoginStep
<1> QED BY <1>5, <1>6

(* The parts of a hierarchy. *)
LEMMA TreeParts ==
  ASSUME TypeOK, NEW u \in User
  PROVE /\ tree.parent[u] \in User \cup {None} /\ tree.root[u] \in Root
        /\ u \notin Root /\ u \in Account /\ u # None
  BY TreeAssumption, AccountAssumption DEF TypeOK, Account

LEMMA FindParentsKeeps ==
  ASSUME GateInv, Observe, NEW w \in Worker, FindParents(w)
  PROVE GateInv'
<1> DEFINE u == req[w].account
           at == IF IsAdmin(u) THEN "whitelist" ELSE "parent"
<1>1. req[w].at = "found" /\ UNCHANGED <<config, active, whitelist>>
  BY DEF FindParents
<1>2. /\ u \in User /\ u \in Account
      /\ req[w].ip \in Seen /\ "account" \in held[w]
  BY <1>1, TreeParts DEF GateInv, Checked
<1>3. CASE Refuse(w, "root") \/ Refuse(w, "parent")
  BY <1>1, <1>3, RefuseKeeps DEF Condition
<1>4. CASE active[tree.root[u]] /\ Move(w, at) /\ (~IsAdmin(u) => tree.parent[u] # None)
  <2>1. /\ req' \in [Worker -> Request] /\ req'[w].at = at /\ req'[w].account = u
        /\ req'[w].ip = req[w].ip
        /\ \A v \in Worker \ {w} : req'[v] = req[v]
    <3>1. at \in Stage
      BY DEF Stage
    <3> QED BY <1>4, <3>1, MoveType DEF GateInv
  <2>2. req'[w].at \notin {"idle", "refused"} /\ req[w].at # "admitted"
    BY <1>1, <2>1
  <2>3. "account" \in held'[w] /\ "root" \in held'[w]
    BY <1>1, <1>2, <1>4, <2>1, <2>2, HeldGrows, ObservedCases
  <2>4. IsAdmin(u) => {"parent", "level"} \subseteq held'[w] /\ Source(u) \in Account
    BY <1>1, <1>2, <2>1, <2>2, ObservedCases DEF HasParent, Source
  <2>5. tree' = tree
    BY <1>1 DEF config
  <2>6. Checked(w)'
    BY <1>2, <1>4, <2>1, <2>3, <2>4, <2>5 DEF Checked, Source, IsAdmin
  <2> QED BY <1>1, <2>1, <2>6, LoginStep
<1> QED BY <1>3, <1>4 DEF FindParents

LEMMA CheckParentKeeps ==
  ASSUME GateInv, Observe, NEW w \in Worker, CheckParent(w)
  PROVE GateInv'
<1> DEFINE u == req[w].account
<1>1. req[w].at = "parent" /\ UNCHANGED <<config, active, whitelist>>
  BY DEF CheckParent
<1>2. CASE Refuse(w, "parent")
  BY <1>1, <1>2, RefuseKeeps DEF Condition
<1>3. CASE active[tree.parent[u]] /\ Move(w, "level")
  <2>1. /\ u \in User /\ u \in Account /\ req[w].ip \in Seen
        /\ ~IsAdmin(u) /\ tree.parent[u] # None /\ Upline(u) = tree.parent[u]
        /\ {"account", "root"} \subseteq held[w]
    BY <1>1, TreeParts DEF GateInv, Checked, Upline, HasParent
  <2>2. /\ req' \in [Worker -> Request] /\ req'[w].at = "level" /\ req'[w].account = u
        /\ req'[w].ip = req[w].ip
        /\ \A v \in Worker \ {w} : req'[v] = req[v]
    BY <1>3, MoveType DEF GateInv, Stage
  <2>3. tree' = tree
    BY <1>1 DEF config
  <2>4. {"account", "root", "parent"} \subseteq held'[w]
    BY <1>1, <1>3, <2>1, <2>2, HeldGrows, ObservedCases
  <2>5. Checked(w)'
    BY <2>1, <2>2, <2>3, <2>4 DEF Checked, IsAdmin
  <2> QED BY <1>1, <2>2, <2>5, LoginStep
<1> QED BY <1>2, <1>3 DEF CheckParent, ParentActive

LEMMA CheckLevelKeeps ==
  ASSUME GateInv, Observe, NEW w \in Worker, CheckLevel(w)
  PROVE GateInv'
<1> DEFINE u == req[w].account
<1>1. req[w].at = "level" /\ UNCHANGED <<config, active, whitelist>>
  BY DEF CheckLevel
<1>2. CASE Refuse(w, "level")
  BY <1>1, <1>2, RefuseKeeps DEF Condition
<1>3. CASE Below(u) /\ Move(w, "whitelist")
  <2>1. /\ u \in User /\ u \in Account /\ req[w].ip \in Seen
        /\ ~IsAdmin(u) /\ tree.parent[u] # None /\ Upline(u) = tree.parent[u]
        /\ {"account", "root", "parent"} \subseteq held[w]
    BY <1>1, TreeParts DEF GateInv, Checked, Upline, HasParent
  <2>2. /\ req' \in [Worker -> Request] /\ req'[w].at = "whitelist" /\ req'[w].account = u
        /\ req'[w].ip = req[w].ip
        /\ \A v \in Worker \ {w} : req'[v] = req[v]
    BY <1>3, MoveType DEF GateInv, Stage
  <2>3. tree' = tree
    BY <1>1 DEF config
  <2>4. {"account", "root", "parent", "level"} \subseteq held'[w]
    BY <1>1, <1>3, <2>1, <2>2, HeldGrows, ObservedCases
  <2>5. Source(u) \in Account
    BY <2>1, TreeParts DEF Source, Account, GateInv
  <2>6. Checked(w)'
    BY <2>1, <2>2, <2>3, <2>4, <2>5 DEF Checked, Source, IsAdmin
  <2> QED BY <1>1, <2>2, <2>6, LoginStep
<1> QED BY <1>2, <1>3 DEF CheckLevel

LEMMA CheckWhitelistKeeps ==
  ASSUME GateInv, Observe, NEW w \in Worker, CheckWhitelist(w)
  PROVE GateInv'
<1> DEFINE r == req[w]
           a == r.account
           domains == DomainsOf(Source(a))
           nets == NetsOf(Source(a))
<1>1. r.at = "whitelist" /\ UNCHANGED <<config, active, whitelist>>
  BY DEF CheckWhitelist
<1>2. CASE Refuse(w, "list") \/ Refuse(w, "origin") \/ Refuse(w, "ip")
  BY <1>1, <1>2, RefuseKeeps DEF Condition
<1>3. CASE domains # {} /\ IsValidOrigin(r.origin, domains) /\ IsValidIp(r.ip, nets) /\ Move(w, "write")
  <2>1. /\ a \in Account /\ Source(a) \in Account /\ r.ip \in Seen /\ r.origin \in Origin \cup {None}
        /\ {"account", "root", "parent", "level"} \subseteq held[w]
    BY <1>1 DEF GateInv, TypeOK, Checked, Request
  <2>2. Listed(a) # {} /\ ListedOrigin(a, r.origin) /\ ListedIp(a, r.ip)
    BY <1>3, <2>1, ListMeaning DEF GateInv
  <2>3. /\ req' \in [Worker -> Request] /\ req'[w].at = "write" /\ req'[w].account = a
        /\ req'[w].ip = r.ip /\ req'[w].origin = r.origin
        /\ \A v \in Worker \ {w} : req'[v] = req[v]
    BY <1>3, MoveType DEF GateInv, Stage
  <2>4. tree' = tree /\ isProd' = isProd /\ whitelist' = whitelist
    BY <1>1 DEF config
  <2>5. PICK s : s = req'[w]
    OBVIOUS
  <2>6. s.at = "write" /\ s.account = a /\ s.ip = r.ip /\ s.origin = r.origin
    BY <2>3, <2>5
  <2>7. Listed(s.account) # {} /\ ListedOrigin(s.account, s.origin) /\ ListedIp(s.account, s.ip)
    BY <2>2, <2>6
  <2>8. Listed(s.account)' # {} /\ ListedOrigin(s.account, s.origin)' /\ ListedIp(s.account, s.ip)'
    BY <2>4, <2>7 DEF Listed, ListedOrigin, ListedIp, Local, Admits, Upline, HasParent, IsAdmin, Free
  <2>9. {"list", "origin", "ip"} \subseteq held'[w]
    BY <1>1, <2>5, <2>6, <2>8, ObservedCases
  <2>10. {"account", "root", "parent", "level"} \subseteq held'[w]
    BY <2>1, <2>3, HeldGrows
  <2>11. Checked(w)'
    BY <2>1, <2>3, <2>9, <2>10 DEF Checked
  <2> QED BY <1>1, <2>3, <2>11, LoginStep
<1> QED BY <1>2, <1>3 DEF CheckWhitelist

LEMMA AdmitKeeps ==
  ASSUME GateInv, Observe, NEW w \in Worker, Admit(w)
  PROVE GateInv'
<1>1. req[w].at = "write" /\ Move(w, "admitted") /\ UNCHANGED <<config, active, whitelist>>
  BY DEF Admit
<1>2. /\ req[w].account \in Account /\ req[w].ip \in Seen
      /\ {"account", "root", "parent", "level", "list", "origin", "ip"} \subseteq held[w]
  BY <1>1 DEF GateInv, Checked
<1>3. /\ req' \in [Worker -> Request] /\ req'[w].at = "admitted"
      /\ req'[w].account = req[w].account /\ req'[w].ip = req[w].ip
      /\ \A v \in Worker \ {w} : req'[v] = req[v]
  BY <1>1, MoveType DEF GateInv, Stage
<1>4. held[w] \subseteq held'[w]
  BY <1>3, HeldGrows
<1>5. Checked(w)'
  BY <1>2, <1>3, <1>4 DEF Checked
<1> QED BY <1>1, <1>3, <1>5, LoginStep

LEMMA EndRequestKeeps ==
  ASSUME GateInv, Observe, NEW w \in Worker, EndRequest(w)
  PROVE GateInv'
<1>1. req' = [req EXCEPT ![w] = Idle] /\ UNCHANGED <<config, active, whitelist>>
  BY DEF EndRequest
<1>2. Idle \in Request
  BY DEF Idle, Request
<1>3. /\ req' \in [Worker -> Request] /\ req'[w] = Idle
      /\ \A v \in Worker \ {w} : req'[v] = req[v]
  BY <1>1, <1>2 DEF GateInv, TypeOK
<1>4. Checked(w)'
  BY <1>3 DEF Checked, Idle
<1> QED BY <1>1, <1>3, <1>4, LoginStep

(* A change of an account or of a list leaves every login where it is.     *)
LEMMA TableStep ==
  ASSUME GateInv, Observe, UNCHANGED <<config, req>>,
         active' \in [Account -> BOOLEAN], whitelist' \in [Domain -> Entry \cup {None}]
  PROVE GateInv'
<1>1. TypeOK'
  BY TableType DEF GateInv
<1>2. \A w \in Worker : Checked(w)'
  BY CheckedKept DEF GateInv
<1> QED BY <1>1, <1>2 DEF GateInv

LEMMA NextKeeps ==
  ASSUME GateInv, [Next]_vars
  PROVE GateInv'
<1>1. CASE UNCHANGED vars
  BY <1>1 DEF vars, config, GateInv, TypeOK, Checked, Source, IsAdmin
<1>2. CASE Next
  <2>0. Observe /\ Step
    BY <1>2 DEF Next
  <2>1. CASE \E w \in Worker : \E a \in Account, ip \in ClientIp, o \in Origin :
                FindAccount(w, a, ip, o)
    BY <2>0, <2>1, FindAccountKeeps
  <2>2. CASE \E w \in Worker : FindParents(w)
    BY <2>0, <2>2, FindParentsKeeps
  <2>3. CASE \E w \in Worker : CheckParent(w)
    BY <2>0, <2>3, CheckParentKeeps
  <2>4. CASE \E w \in Worker : CheckLevel(w)
    BY <2>0, <2>4, CheckLevelKeeps
  <2>5. CASE \E w \in Worker : CheckWhitelist(w)
    BY <2>0, <2>5, CheckWhitelistKeeps
  <2>6. CASE \E w \in Worker : Admit(w)
    BY <2>0, <2>6, AdmitKeeps
  <2>7. CASE \E w \in Worker : EndRequest(w)
    BY <2>0, <2>7, EndRequestKeeps
  <2>8. ASSUME NEW d \in Domain, NEW o \in Account, NEW n \in Net, CreateEntry(d, o, n)
        PROVE GateInv'
    <3>1. Row(o, n) \in Entry
      BY DEF Row, Entry
    <3> QED BY <2>0, <2>8, <3>1, TableStep DEF CreateEntry, GateInv, TypeOK
  <2>9. ASSUME NEW d \in Domain, NEW e \in Domain, NEW o \in Account, NEW n \in Net,
               UpdateEntry(d, e, o, n)
        PROVE GateInv'
    <3>1. Row(o, n) \in Entry
      BY DEF Row, Entry
    <3> QED BY <2>0, <2>9, <3>1, TableStep DEF UpdateEntry, GateInv, TypeOK
  <2>10. ASSUME NEW d \in Domain, RemoveEntry(d) PROVE GateInv'
    BY <2>0, <2>10, TableStep DEF RemoveEntry, GateInv, TypeOK
  <2>11. ASSUME NEW a \in Account, SetStatus(a) PROVE GateInv'
    BY <2>0, <2>11, TableStep DEF SetStatus, GateInv, TypeOK
  <2> QED
    BY <2>0, <2>1, <2>2, <2>3, <2>4, <2>5, <2>6, <2>7, <2>8, <2>9, <2>10, <2>11 DEF Step
<1> QED BY <1>1, <1>2 DEF Next

-----------------------------------------------------------------------------
(* The refusals.  A login found inactive, below an inactive root or parent, *)
(* beside its parent or off the list is told so, and nobody else is.       *)
LEMMA NoRefusal ==
  ASSUME TypeOK, NEW w \in Worker, NEW v \in Worker, NEW at \in Stage, Move(v, at)
  PROVE req'[w].why = req[w].why
<1>1. CASE w = v
  BY <1>1, MoveType
<1>2. CASE w # v
  BY <1>2, MoveType
<1> QED BY <1>1, <1>2

(* A refusal is one login's, which keeps its account, address and origin.  *)
LEMMA OneRefused ==
  ASSUME TypeOK, NEW v \in Worker, NEW why \in Condition, Refuse(v, why),
         NEW w \in Worker, req'[w].why # req[w].why
  PROVE /\ w = v /\ req'[w].why = why /\ req'[w].account = req[v].account
        /\ req'[w].ip = req[v].ip /\ req'[w].origin = req[v].origin
<1>1. w = v
  BY RefuseType
<1> QED BY <1>1, RefuseType

LEMMA NotIp ==
  ASSUME NEW c, NEW r, c # "ip", PlainlyHolds(c, r)
  PROVE Holds(c, r)
  BY DEF PlainlyHolds

LEMMA FindAccountReason ==
  ASSUME GateInv, NEW v \in Worker, NEW a \in Account, NEW ip \in ClientIp, NEW o \in Origin,
         FindAccount(v, a, ip, o), NEW w \in Worker,
         req'[w].why # req[w].why, req'[w].why # None
  PROVE ~PlainlyHolds(req'[w].why, req'[w])
<1>1. PICK r : r = Begun(a, ip, o)
  OBVIOUS
<1>2. req' = [req EXCEPT ![v] = r] /\ w = v /\ req'[w] = r
  BY <1>1 DEF FindAccount, Begun, GateInv, TypeOK
<1>3. r.account = a /\ r.why = IF active[a] THEN None ELSE "account"
  BY <1>1, BegunIs
<1>4. r.why = "account" /\ ~active[a]
  BY <1>2, <1>3
<1>5. ~Holds("account", r)
  BY <1>3, <1>4 DEF Holds
<1> QED BY <1>2, <1>4, <1>5, NotIp

LEMMA FindParentsReason ==
  ASSUME GateInv, NEW v \in Worker, FindParents(v), NEW w \in Worker,
         req'[w].why # req[w].why, req'[w].why # None
  PROVE ~PlainlyHolds(req'[w].why, req'[w])
<1>1. PICK r : r = req'[w]
  OBVIOUS
<1>2. PICK u : u = req[v].account
  OBVIOUS
<1>3. u \in User /\ u \notin Root /\ u # None
  BY <1>2, TreeParts DEF FindParents, GateInv, Checked
<1>4. CASE Refuse(v, "root") /\ ~active[tree.root[u]]
  <2>1. r.why = "root" /\ r.account = u
    BY <1>1, <1>2, <1>4, OneRefused DEF Condition, GateInv
  <2>2. ~Holds("root", r)
    BY <1>3, <1>4, <2>1 DEF Holds
  <2> QED BY <1>1, <2>1, <2>2, NotIp
<1>5. CASE Refuse(v, "parent") /\ ~IsAdmin(u) /\ tree.parent[u] = None
  <2>1. r.why = "parent" /\ r.account = u
    BY <1>1, <1>2, <1>5, OneRefused DEF Condition, GateInv
  <2>2. HasParent(u) /\ Upline(u) = None
    BY <1>3, <1>5 DEF Upline, HasParent
  <2>3. ~Holds("parent", r)
    BY <1>3, <2>1, <2>2 DEF Holds
  <2> QED BY <1>1, <2>1, <2>3, NotIp
<1>6. ~Move(v, "whitelist") /\ ~Move(v, "parent")
  BY NoRefusal DEF Stage, GateInv
<1> QED BY <1>2, <1>4, <1>5, <1>6 DEF FindParents

LEMMA CheckParentReason ==
  ASSUME GateInv, NEW v \in Worker, CheckParent(v), NEW w \in Worker,
         req'[w].why # req[w].why, req'[w].why # None
  PROVE ~PlainlyHolds(req'[w].why, req'[w])
<1>1. PICK r : r = req'[w]
  OBVIOUS
<1>2. PICK u : u = req[v].account
  OBVIOUS
<1>3. ~Move(v, "level")
  BY NoRefusal DEF Stage, GateInv
<1>4. Refuse(v, "parent") /\ ~active[tree.parent[u]]
  BY <1>2, <1>3 DEF CheckParent, ParentActive
<1>5. r.why = "parent" /\ r.account = u
  BY <1>1, <1>2, <1>4, OneRefused DEF Condition, GateInv
<1>6. HasParent(u) /\ Upline(u) = tree.parent[u]
  BY <1>2, TreeParts DEF CheckParent, GateInv, Checked, Upline, HasParent
<1>7. ~Holds("parent", r)
  BY <1>4, <1>5, <1>6 DEF Holds
<1> QED BY <1>1, <1>5, <1>7, NotIp

LEMMA CheckLevelReason ==
  ASSUME GateInv, NEW v \in Worker, CheckLevel(v), NEW w \in Worker,
         req'[w].why # req[w].why, req'[w].why # None
  PROVE ~PlainlyHolds(req'[w].why, req'[w])
<1>1. PICK r : r = req'[w]
  OBVIOUS
<1>2. PICK u : u = req[v].account
  OBVIOUS
<1>3. ~Move(v, "whitelist")
  BY NoRefusal DEF Stage, GateInv
<1>4. Refuse(v, "level") /\ ~Below(u)
  BY <1>2, <1>3 DEF CheckLevel
<1>5. r.why = "level" /\ r.account = u
  BY <1>1, <1>2, <1>4, OneRefused DEF Condition, GateInv
<1>6. HasParent(u)
  BY <1>2, TreeParts DEF CheckLevel, GateInv, Checked, HasParent
<1>7. ~Holds("level", r)
  BY <1>4, <1>5, <1>6 DEF Holds
<1> QED BY <1>1, <1>5, <1>7, NotIp

LEMMA CheckWhitelistReason ==
  ASSUME GateInv, NEW v \in Worker, CheckWhitelist(v), NEW w \in Worker,
         req'[w].why # req[w].why, req'[w].why # None
  PROVE ~PlainlyHolds(req'[w].why, req'[w])
<1>1. PICK r : r = req'[w]
  OBVIOUS
<1>2. PICK s : s = req[v]
  OBVIOUS
<1>3. /\ s.account \in Account /\ Source(s.account) \in Account /\ s.ip \in Seen
      /\ s.origin \in Origin \cup {None}
  BY <1>2 DEF CheckWhitelist, GateInv, TypeOK, Checked, Request
<1>4. /\ DomainsOf(Source(s.account)) = {} <=> Listed(s.account) = {}
      /\ IsValidOrigin(s.origin, DomainsOf(Source(s.account))) <=> ListedOrigin(s.account, s.origin)
      /\ PlainlyListedIp(s.account, s.ip) => IsValidIp(s.ip, NetsOf(Source(s.account)))
  BY <1>3, ListMeaning DEF GateInv
<1>5. ~Move(v, "write")
  BY NoRefusal DEF Stage, GateInv
<1>6. \/ Refuse(v, "list") /\ Listed(s.account) = {}
      \/ Refuse(v, "origin") /\ ~ListedOrigin(s.account, s.origin)
      \/ Refuse(v, "ip") /\ ~PlainlyListedIp(s.account, s.ip)
  BY <1>2, <1>4, <1>5 DEF CheckWhitelist
<1>7. CASE Refuse(v, "list") /\ Listed(s.account) = {}
  <2>1. r.why = "list" /\ r.account = s.account
    BY <1>1, <1>2, <1>7, OneRefused DEF Condition, GateInv
  <2>2. ~Holds("list", r)
    BY <1>7, <2>1 DEF Holds
  <2> QED BY <1>1, <2>1, <2>2, NotIp
<1>8. CASE Refuse(v, "origin") /\ ~ListedOrigin(s.account, s.origin)
  <2>1. r.why = "origin" /\ r.account = s.account /\ r.origin = s.origin
    BY <1>1, <1>2, <1>8, OneRefused DEF Condition, GateInv
  <2>2. ~Holds("origin", r)
    BY <1>8, <2>1 DEF Holds
  <2> QED BY <1>1, <2>1, <2>2, NotIp
<1>9. CASE Refuse(v, "ip") /\ ~PlainlyListedIp(s.account, s.ip)
  <2>1. r.why = "ip" /\ r.account = s.account /\ r.ip = s.ip
    BY <1>1, <1>2, <1>9, OneRefused DEF Condition, GateInv
  <2> QED BY <1>1, <1>9, <2>1 DEF PlainlyHolds
<1> QED BY <1>6, <1>7, <1>8, <1>9

(* Every refusal has its cause. *)
LEMMA RefusalStep ==
  ASSUME GateInv, [Next]_vars, NEW w \in Worker,
         req'[w].why # req[w].why, req'[w].why # None
  PROVE ~PlainlyHolds(req'[w].why, req'[w])
<1>1. req' # req /\ Step
  BY DEF vars, Next
<1>2. CASE \E v \in Worker : \E a \in Account, ip \in ClientIp, o \in Origin :
              FindAccount(v, a, ip, o)
  BY <1>2, FindAccountReason
<1>3. CASE \E v \in Worker : FindParents(v)
  BY <1>3, FindParentsReason
<1>4. CASE \E v \in Worker : CheckParent(v)
  BY <1>4, CheckParentReason
<1>5. CASE \E v \in Worker : CheckLevel(v)
  BY <1>5, CheckLevelReason
<1>6. CASE \E v \in Worker : CheckWhitelist(v)
  BY <1>6, CheckWhitelistReason
<1>7. CASE \E v \in Worker : Admit(v)
  BY <1>7, NoRefusal DEF Admit, GateInv, Stage
<1>8. ASSUME NEW v \in Worker, EndRequest(v) PROVE FALSE
  <2>1. req'[w] = Idle \/ req'[w] = req[w]
    BY <1>8 DEF EndRequest, GateInv, TypeOK
  <2> QED BY <2>1 DEF Idle
<1>9. CASE \E d \in Domain, o \in Account, n \in Net : CreateEntry(d, o, n)
  BY <1>1, <1>9 DEF CreateEntry
<1>10. CASE \E d, e \in Domain, o \in Account, n \in Net : UpdateEntry(d, e, o, n)
  BY <1>1, <1>10 DEF UpdateEntry
<1>11. CASE \E d \in Domain : RemoveEntry(d)
  BY <1>1, <1>11 DEF RemoveEntry
<1>12. CASE \E a \in Account : SetStatus(a)
  BY <1>1, <1>12 DEF SetStatus
<1> QED
  BY <1>1, <1>2, <1>3, <1>4, <1>5, <1>6, <1>7, <1>8, <1>9, <1>10, <1>11, <1>12 DEF Step

-----------------------------------------------------------------------------
(* The theorems. *)

LEMMA InitHolds == Init => GateInv
<1> SUFFICES ASSUME Init PROVE GateInv
  OBVIOUS
<1>1. TypeOK
  <2>1. Idle \in Request
    BY DEF Idle, Request
  <2> QED BY <2>1 DEF Init, TypeOK
<1>2. \A w \in Worker : req[w].at = "idle"
  BY DEF Init, Idle
<1> QED BY <1>1, <1>2 DEF GateInv, Checked

(* The invariant of login: what each stage has checked was so at some      *)
(* moment of this login, whatever the tables became since.                 *)
THEOREM Invariance == Spec => []GateInv
<1>1. GateInv /\ [Next]_vars => GateInv'
  BY NextKeeps
<1> QED BY <1>1, InitHolds, PTL DEF Spec

(* Every variable keeps its type.                                          *)
THEOREM TypeCorrect == Spec => []TypeOK
<1>1. GateInv => TypeOK
  BY DEF GateInv
<1> QED BY <1>1, Invariance, PTL

(* userLogin and rootLogin: however the accounts and the lists change      *)
(* while it is checked, a login that gets a session met every condition at *)
(* some moment of it.                                                      *)
THEOREM Admission == Spec => []AdmittedOnlyIfHeld
<1>1. GateInv => AdmittedOnlyIfHeld
  <2>1. Condition = {"account", "root", "parent", "level"} \cup {"list", "origin", "ip"}
    BY DEF Condition
  <2> QED BY <2>1 DEF GateInv, TypeOK, Checked, AdmittedOnlyIfHeld
<1> QED BY <1>1, Invariance, PTL

(* userLogin and rootLogin: the reason a login is refused for is true of    *)
(* the tables at that moment, so that nobody who meets every condition is  *)
(* turned away, save by the spelling of a listed address.                  *)
THEOREM Refusal == Spec => RefusedForCause
<1>1. GateInv /\ [Next]_vars =>
        [\A w \in Worker : req'[w].why # req[w].why /\ req'[w].why # None =>
           ~PlainlyHolds(req'[w].why, req'[w])]_vars
  BY RefusalStep
<1> QED BY <1>1, Invariance, PTL DEF Spec, RefusedForCause
=============================================================================
