--------------------------- MODULE SlotAllocProofs ---------------------------
(***************************************************************************)
(* Proofs that the slots a memory node resolves fit its region and are     *)
(* shared fairly, for every size of memory, of header and of slot, and     *)
(* every width of a size_t.                                                *)
(***************************************************************************)
EXTENDS SlotAlloc, TLAPS

(* The explicit counts of the file do not overflow a size_t when they are  *)
(* added up.  td_resolve_mn_slots takes this for granted: the run          *)
(* allocwrap shows what happens to a node whose counts do.                 *)
ManualCountsFit == \A x, y, z \in ManualCounts : x + y + z < Word

(***************************************************************************)
(* The inductive invariant.                                                *)
(***************************************************************************)

Pcs == {"parse", "load", "share", "check", "done", "failed"}

TypeOK == /\ pc \in Pcs
          /\ cfg \in [number : Magnitudes, unit : Units, memory : Nat, replication : Int,
                      explicit : [Buckets -> BOOLEAN], slots : [Buckets -> Nat]]
          /\ remaining \in Nat /\ allocated \in Nat
          /\ remainder \in [Buckets -> Nat]

(* Until slots are shared out the counts are those of the file.            *)
Unshared == /\ allocated = 0
            /\ Sum(cfg.slots) < Word
            /\ \A b \in Weighted : cfg.slots[b] = 0

(* The size was read without overflow.                                     *)
MemoryRead == cfg.memory = cfg.number * multiplier[cfg.unit] /\ cfg.memory < Word

(* The region has room for the counts.                                     *)
Fits == cfg.memory > HeaderBytes /\ Sum(cfg.slots) <= capacity_slots

(* The count of bucket b is its exact share rounded down, and the rest is  *)
(* its remainder; or it has been given one more slot for a remainder that  *)
(* was not zero.                                                           *)
Rounded(b) ==
    \/ /\ cfg.slots[b] * weight_sum + remainder[b] = remaining * weight[b]
       /\ remainder[b] < weight_sum
    \/ /\ remainder[b] = 0
       /\ cfg.slots[b] * weight_sum > remaining * weight[b]
       /\ cfg.slots[b] * weight_sum < remaining * weight[b] + weight_sum

WeightedSlots == [b \in Buckets |-> IF b \in Weighted THEN cfg.slots[b] ELSE 0]

(* While slots are shared out, and afterwards.                             *)
Shared == /\ Weighted # {} /\ remaining > 0 /\ allocated <= remaining
          /\ Sum(WeightedSlots) = allocated
          /\ Sum(cfg.slots) + remaining = capacity_slots + allocated
          /\ \A b \in Weighted : Rounded(b)

AllocInv ==
    /\ TypeOK
    /\ pc \in {"parse", "load"} => Unshared
    /\ pc \in {"load", "share", "check", "done"} => MemoryRead
    /\ pc \in {"share", "check", "done"} => Fits
    /\ pc = "share" => Shared
    /\ pc \in {"check", "done"} /\ allocated > 0 => Shared /\ allocated = remaining

(***************************************************************************)
(* Arithmetic.                                                             *)
(***************************************************************************)

(* A number below the word size is its own remainder.                      *)
LEMMA ModIdentity == ASSUME NEW a \in Nat, a < Word PROVE a % Word = a
  BY WordAssumption

(* Division with remainder.                                                *)
LEMMA Division ==
  ASSUME NEW a \in Nat, NEW k \in Nat \ {0}
  PROVE  /\ a \div k \in Nat /\ a % k \in Nat /\ a % k < k
         /\ (a \div k) * k + (a % k) = a
         /\ (a \div k) * k <= a
  OBVIOUS

(* Multiples are in the order of their factors, a whole multiple apart.    *)
LEMMA Multiples ==
  ASSUME NEW i \in Nat, NEW j \in Nat, NEW k \in Nat
  PROVE  /\ i < j => i * k + k <= j * k
         /\ i <= j => i * k <= j * k
         /\ i * k \in Nat /\ (i + j) * k = i * k + j * k
  OBVIOUS

(* Parts that are no larger than their shares are together no larger than  *)
(* the whole, and parts no smaller no smaller.                             *)
LEMMA Shares ==
  ASSUME NEW rest \in Nat, NEW x \in Nat, NEW y \in Nat, NEW z \in Nat,
         NEW u \in Nat, NEW v \in Nat, NEW w \in Nat, NEW s \in Nat \ {0}, s = u + v + w
  PROVE  /\ x * s <= rest * u /\ y * s <= rest * v /\ z * s <= rest * w
            => x + y + z <= rest
         /\ x * s >= rest * u /\ y * s >= rest * v /\ z * s >= rest * w
            => x + y + z >= rest
<1> DEFINE t == x + y + z
<1>1. t * s = x * s + y * s + z * s /\ rest * s = rest * u + rest * v + rest * w
  OBVIOUS
<1>2. s \in Nat \ {0} /\ t \in Nat
  OBVIOUS
<1> HIDE DEF t
<1>3. /\ t < rest => t * s + s <= rest * s
      /\ rest < t => rest * s + s <= t * s
  BY <1>2, Multiples
<1>4. /\ x * s \in Nat /\ y * s \in Nat /\ z * s \in Nat /\ t * s \in Nat
      /\ rest * u \in Nat /\ rest * v \in Nat /\ rest * w \in Nat /\ rest * s \in Nat
  BY <1>2, Multiples
<1>5. /\ x * s <= rest * u /\ y * s <= rest * v /\ z * s <= rest * w => t * s <= rest * s
      /\ x * s >= rest * u /\ y * s >= rest * v /\ z * s >= rest * w => t * s >= rest * s
  BY <1>1, <1>4
<1>6. /\ t * s <= rest * s => t <= rest
      /\ t * s >= rest * s => t >= rest
  BY <1>2, <1>3, <1>4
<1> QED
  BY <1>5, <1>6 DEF t

(* The sizes are numbers below the word size.                              *)
LEMMA Sizes ==
  /\ HeaderBytes \in Nat \ {0} /\ SlotBytes \in Nat \ {0} /\ SlotBytes >= 4
  /\ Word \in Nat \ {0} /\ \A x \in SizeT : x \in Nat /\ x < Word
  BY SizesAssumption, WordAssumption DEF SizeT

(* Every unit multiplies by a positive number.                             *)
LEMMA UnitsMultiply == ASSUME NEW u \in Units PROVE multiplier[u] \in Nat \ {0}
<1>1. u \in {"b", "kb", "mb", "gb"}
  BY SizesAssumption
<1>2. Kilo \in Nat \ {0} /\ Kilo * Kilo \in Nat \ {0} /\ Kilo * Kilo * Kilo \in Nat \ {0}
  BY SizesAssumption
<1> QED
  BY <1>1, <1>2 DEF multiplier

(* Sums of counts.                                                         *)
LEMMA SumType ==
  ASSUME NEW f \in [Buckets -> Nat]
  PROVE  /\ f["prime"] \in Nat /\ f["cache"] \in Nat /\ f["backup"] \in Nat
         /\ Sum(f) \in Nat /\ \A b \in Buckets : f[b] <= Sum(f)
  BY DEF Sum, Buckets

(* The weights of the buckets that share, and their sum.                   *)
LEMMA WeightsOf ==
  ASSUME TypeOK
  PROVE  /\ Weighted \subseteq Buckets
         /\ \A b \in Buckets : weight[b] \in Nat \ {0} /\ weight[b] <= 4
         /\ weight_sum = (IF "prime" \in Weighted THEN weight["prime"] ELSE 0)
                         + (IF "cache" \in Weighted THEN weight["cache"] ELSE 0)
                         + (IF "backup" \in Weighted THEN weight["backup"] ELSE 0)
         /\ weight_sum \in Nat
         /\ Weighted # {} => weight_sum > 0
<1>1. Weighted \subseteq Buckets
  BY DEF Weighted
<1>2. weight["prime"] = 4 /\ weight["cache"] = 1 /\ weight["backup"] = 4
  BY DEF weight
<1>3. \A b \in Buckets : weight[b] \in Nat \ {0} /\ weight[b] <= 4
  BY <1>2 DEF Buckets
<1>4. weight_sum = (IF "prime" \in Weighted THEN weight["prime"] ELSE 0)
                   + (IF "cache" \in Weighted THEN weight["cache"] ELSE 0)
                   + (IF "backup" \in Weighted THEN weight["backup"] ELSE 0)
  BY DEF weight_sum, Sum, Buckets
<1>5. Weighted # {} => "prime" \in Weighted \/ "cache" \in Weighted \/ "backup" \in Weighted
  BY <1>1 DEF Buckets
<1> QED
  BY <1>1, <1>2, <1>3, <1>4, <1>5

(* The capacity of a memory that holds a header.                           *)
LEMMA Capacity ==
  ASSUME TypeOK, cfg.memory > HeaderBytes, cfg.memory < Word
  PROVE  /\ capacity_slots \in Nat
         /\ HeaderBytes + capacity_slots * SlotBytes <= cfg.memory
         /\ capacity_slots < Word
         /\ capacity_slots * 4 < Word
<1> DEFINE m == cfg.memory - HeaderBytes
           k == capacity_slots
<1>1. m \in Nat /\ cfg.memory \in Nat /\ cfg.memory = HeaderBytes + m
  BY Sizes DEF TypeOK
<1>2. k = m \div SlotBytes
  BY DEF capacity_slots
<1> HIDE DEF m, k
<1>3. k \in Nat /\ k * SlotBytes <= m
  BY <1>1, <1>2, Sizes, Division
<1>4. k * 4 <= k * SlotBytes /\ k * SlotBytes \in Nat
  <2>1. 4 * k <= SlotBytes * k
    BY <1>3, Sizes, Multiples
  <2> QED
    BY <1>3, <2>1, Sizes
<1>5. k \in Nat /\ HeaderBytes + k * SlotBytes <= cfg.memory /\ k < Word /\ k * 4 < Word
  BY <1>1, <1>3, <1>4, Sizes
<1> QED
  BY <1>5 DEF k

(***************************************************************************)
(* One lemma per action.                                                   *)
(***************************************************************************)

(* The counts of the file add up, and a bucket it does not name has none.  *)
LEMMA InitAlloc == ManualCountsFit /\ Init => AllocInv
<1> SUFFICES ASSUME ManualCountsFit, Init PROVE AllocInv
  OBVIOUS
<1>1. PICK m \in Magnitudes, u \in Units, r \in Replications, e \in [Buckets -> BOOLEAN],
           manual \in [Buckets -> ManualCounts] :
         cfg = [number |-> m, unit |-> u, memory |-> 0, replication |-> r, explicit |-> e,
                slots |-> [b \in Buckets |-> IF e[b] THEN manual[b] ELSE 0]]
  BY DEF Init, Configs
<1>2. ManualCounts \subseteq Nat /\ r \in Int
  BY SizesAssumption, Sizes
<1>3. /\ cfg.number = m /\ cfg.unit = u /\ cfg.memory = 0 /\ cfg.replication = r
      /\ cfg.explicit = e /\ cfg.slots = [b \in Buckets |-> IF e[b] THEN manual[b] ELSE 0]
  BY <1>1
<1>4. cfg.slots \in [Buckets -> Nat]
  <2>1. \A b \in Buckets : manual[b] \in Nat
    BY <1>2
  <2>2. \A b \in Buckets : (IF e[b] THEN manual[b] ELSE 0) \in Nat
    BY <2>1
  <2>3. [b \in Buckets |-> IF e[b] THEN manual[b] ELSE 0] \in [Buckets -> Nat]
    BY <2>2
  <2> QED
    BY <1>3, <2>3
<1>5. TypeOK
  <2>1. cfg \in [number : Magnitudes, unit : Units, memory : Nat, replication : Int,
                 explicit : [Buckets -> BOOLEAN], slots : [Buckets -> Nat]]
    <3> DEFINE s == [b \in Buckets |-> IF e[b] THEN manual[b] ELSE 0]
    <3>1. s \in [Buckets -> Nat]
      BY <1>3, <1>4
    <3> HIDE DEF s
    <3>2. [number |-> m, unit |-> u, memory |-> 0, replication |-> r, explicit |-> e, slots |-> s]
          \in [number : Magnitudes, unit : Units, memory : Nat, replication : Int,
              explicit : [Buckets -> BOOLEAN], slots : [Buckets -> Nat]]
      BY <1>2, <3>1
    <3> QED
      BY <1>1, <3>2 DEF s
  <2>2. pc = "parse" /\ remaining = 0 /\ allocated = 0 /\ remainder = [b \in Buckets |-> 0]
    BY DEF Init
  <2> QED
    BY <2>1, <2>2 DEF TypeOK, Pcs
<1>6. Sum(cfg.slots) < Word
  <2> DEFINE p == manual["prime"]
             c == manual["cache"]
             b == manual["backup"]
  <2>1. p \in ManualCounts /\ c \in ManualCounts /\ b \in ManualCounts
    BY DEF Buckets
  <2>2. p \in Nat /\ c \in Nat /\ b \in Nat /\ p + c + b < Word
    BY <1>2, <2>1 DEF ManualCountsFit
  <2>3. /\ cfg.slots["prime"] \in {0, p}
        /\ cfg.slots["cache"] \in {0, c}
        /\ cfg.slots["backup"] \in {0, b}
    BY <1>3 DEF Buckets
  <2> HIDE DEF p, c, b
  <2> QED
    BY <2>2, <2>3, Sizes DEF Sum
<1>7. \A b \in Weighted : cfg.slots[b] = 0
  BY <1>3 DEF Weighted
<1> QED
  BY <1>5, <1>6, <1>7 DEF AllocInv, Unshared, Init

(* A size that passes the check of td_parse_size_bytes is the product it   *)
(* stands for.                                                             *)
LEMMA SizeFits ==
  ASSUME TypeOK, ~TooLarge
  PROVE  /\ cfg.number * multiplier[cfg.unit] \in Nat
         /\ (cfg.number * multiplier[cfg.unit]) % Word = cfg.number * multiplier[cfg.unit]
         /\ cfg.number * multiplier[cfg.unit] < Word
<1> DEFINE k == multiplier[cfg.unit]
           q == (Word - 1) \div k
           x == cfg.number
<1>1. k \in Nat \ {0}
  BY UnitsMultiply DEF TypeOK
<1>2. x \in Nat /\ Word - 1 \in Nat
  <2>1. x \in Magnitudes
    BY DEF TypeOK
  <2>2. x \in SizeT
    BY <2>1, SizesAssumption
  <2> QED
    BY <2>2, Sizes
<1> HIDE DEF k, x
<1>3. q \in Nat /\ q * k <= Word - 1
  BY <1>1, <1>2, Division
<1>4. x <= q
  <2>1. ~(x > q)
    BY DEF TooLarge, x, k
  <2> HIDE DEF q
  <2> QED
    BY <1>2, <1>3, <2>1
<1> HIDE DEF q
<1>5. x * k \in Nat /\ x * k <= q * k /\ q * k \in Nat
  BY <1>1, <1>2, <1>3, <1>4, Multiples
<1>6. x * k < Word
  BY <1>2, <1>3, <1>5, Sizes
<1>7. (x * k) % Word = x * k
  BY <1>5, <1>6, ModIdentity
<1> QED
  BY <1>5, <1>6, <1>7 DEF x, k

(* Parse keeps the invariant.                                              *)
LEMMA ParseAlloc == ASSUME AllocInv, Parse PROVE AllocInv'
<1> DEFINE memory == cfg.number * multiplier[cfg.unit]
<1>1. TypeOK /\ Unshared
  BY DEF AllocInv, Parse
<1>2. CASE TooLarge
  <2>1. pc' = "failed" /\ cfg' = cfg /\ UNCHANGED <<remaining, allocated, remainder>>
    BY <1>2 DEF Parse
  <2> QED
    BY <1>1, <2>1 DEF AllocInv, TypeOK, Pcs
<1>3. CASE ~TooLarge
  <2>1. /\ pc' = "load" /\ UNCHANGED <<remaining, allocated, remainder>>
        /\ cfg' = [cfg EXCEPT !.memory = (cfg.number * multiplier[cfg.unit]) % Word,
                              !.replication = IF @ <= 0 THEN 1 ELSE @]
    BY <1>3 DEF Parse
  <2>2. memory \in Nat /\ memory % Word = memory /\ memory < Word
    BY <1>1, <1>3, SizeFits
  <2>3. /\ cfg'.number = cfg.number /\ cfg'.unit = cfg.unit /\ cfg'.memory = memory
        /\ cfg'.explicit = cfg.explicit /\ cfg'.slots = cfg.slots
    BY <1>1, <2>1, <2>2 DEF TypeOK
  <2>4. TypeOK'
    <3>1. (IF cfg.replication <= 0 THEN 1 ELSE cfg.replication) \in Int
      BY <1>1 DEF TypeOK
    <3> HIDE DEF memory
    <3>2. cfg' \in [number : Magnitudes, unit : Units, memory : Nat, replication : Int,
                    explicit : [Buckets -> BOOLEAN], slots : [Buckets -> Nat]]
      BY <1>1, <2>1, <2>2, <3>1 DEF TypeOK, memory
    <3> QED
      BY <1>1, <2>1, <3>2 DEF TypeOK, Pcs
  <2>5. Unshared'
    BY <1>1, <2>1, <2>3 DEF Unshared, Weighted, Sum
  <2>6. MemoryRead'
    BY <2>2, <2>3 DEF MemoryRead
  <2> QED
    BY <2>1, <2>4, <2>5, <2>6 DEF AllocInv
<1> QED
  BY <1>2, <1>3

(* The state in which counts are resolved.                                 *)
LEMMA Loaded ==
  ASSUME AllocInv, pc = "load", ~TooSmall
  PROVE  /\ TypeOK /\ Unshared /\ MemoryRead
         /\ cfg.memory > HeaderBytes /\ cfg.memory < Word
         /\ capacity_slots \in Nat
         /\ manual_slots = Sum(cfg.slots) /\ manual_slots \in Nat
         /\ manual_slots <= capacity_slots
<1>1. TypeOK /\ Unshared /\ MemoryRead /\ cfg.memory < Word
  BY DEF AllocInv, MemoryRead
<1>2. cfg.memory > HeaderBytes
  BY <1>1, Sizes DEF TooSmall, TypeOK
<1>3. capacity_slots \in Nat
  BY <1>1, <1>2, Capacity
<1>4. Sum(cfg.slots) \in Nat
  BY <1>1, SumType DEF TypeOK
<1>5. manual_slots = Sum(cfg.slots)
  BY <1>1, <1>4, ModIdentity DEF manual_slots, Unshared
<1>6. manual_slots <= capacity_slots
  <2>1. ~(manual_slots > capacity_slots)
    BY DEF TooSmall
  <2> QED
    BY <1>3, <1>4, <1>5, <2>1
<1> QED
  BY <1>1, <1>2, <1>3, <1>4, <1>5, <1>6

(* The steps that leave the counts alone keep the invariant.               *)
LEMMA SameCounts ==
  ASSUME AllocInv, UNCHANGED <<cfg, remaining, allocated, remainder>>, pc' \in Pcs,
         \/ pc' = "failed"
         \/ pc = "load" /\ ~TooSmall /\ pc' = "check"
         \/ pc = "share" /\ allocated >= remaining /\ pc' = "check"
         \/ pc = "check" /\ pc' = "done"
         \/ pc' = pc
  PROVE  AllocInv'
<1>2. TypeOK /\ TypeOK'
  BY DEF AllocInv, TypeOK
<1>3. /\ MemoryRead' = MemoryRead /\ Fits' = Fits /\ Shared' = Shared /\ Unshared' = Unshared
  BY DEF MemoryRead, Fits, Shared, Unshared, capacity_slots, Weighted, WeightedSlots, Rounded,
         weight_sum, Sum
<1>4. CASE pc' = "failed"
  BY <1>2, <1>4 DEF AllocInv
<1>5. CASE pc = "load" /\ ~TooSmall /\ pc' = "check"
  <2>1. MemoryRead /\ Fits /\ allocated = 0
    BY <1>5, Loaded DEF Fits, Unshared
  <2> QED
    BY <1>2, <1>3, <1>5, <2>1 DEF AllocInv
<1>6. CASE pc = "share" /\ allocated >= remaining /\ pc' = "check"
  <2>1. MemoryRead /\ Fits /\ Shared
    BY <1>6 DEF AllocInv
  <2>2. allocated = remaining
    BY <1>2, <1>6, <2>1 DEF Shared, TypeOK
  <2> QED
    BY <1>2, <1>3, <1>6, <2>1, <2>2 DEF AllocInv
<1>7. CASE (pc = "check" /\ pc' = "done") \/ pc' = pc
  BY <1>2, <1>3, <1>7 DEF AllocInv
<1> QED
  BY <1>4, <1>5, <1>6, <1>7

(* A part of the slots is weighed without overflow: a slot is larger than  *)
(* the largest weight, so a multiple of the capacity still fits a size_t.  *)
LEMMA PartFits ==
  ASSUME TypeOK, cfg.memory > HeaderBytes, cfg.memory < Word,
         NEW rest \in Nat, rest <= capacity_slots, NEW b \in Buckets
  PROVE  rest * weight[b] \in Nat /\ (rest * weight[b]) % Word = rest * weight[b]
<1> DEFINE w == weight[b]
<1>1. w \in Nat /\ w <= 4
  BY WeightsOf
<1>2. capacity_slots \in Nat /\ capacity_slots * 4 < Word
  BY Capacity
<1> HIDE DEF w
<1>3. w * rest <= 4 * rest /\ w * rest \in Nat
  BY <1>1, Multiples
<1>4. rest * w \in Nat /\ rest * w < Word
  BY <1>1, <1>2, <1>3, Sizes
<1> QED
  BY <1>4, ModIdentity DEF w

(* Sharing rounds every share down, and gives out no more than there is.   *)
LEMMA ShareAlloc == ASSUME AllocInv, Share PROVE AllocInv'
<1> DEFINE rest == capacity_slots - manual_slots
           part == [b \in Buckets |-> IF b \in Weighted THEN (rest * weight[b]) % Word ELSE 0]
           given == [b \in Buckets |-> part[b] \div weight_sum]
           left == [b \in Buckets |-> part[b] % weight_sum]
           slots == [b \in Buckets |-> IF b \in Weighted THEN given[b] ELSE cfg.slots[b]]
           ws == weight_sum
           W(b) == IF b \in Weighted THEN weight[b] ELSE 0
<1>1. /\ pc = "load" /\ ~TooSmall /\ Weighted # {} /\ rest > 0 /\ pc' = "share"
      /\ remainder' = left /\ remaining' = rest /\ allocated' = Sum(given)
      /\ cfg' = [cfg EXCEPT !.slots = [b \in Buckets |-> IF b \in Weighted THEN given[b] ELSE @[b]]]
  BY DEF Share
<1>2. /\ TypeOK /\ Unshared /\ MemoryRead
      /\ cfg.memory > HeaderBytes /\ cfg.memory < Word
      /\ capacity_slots \in Nat
      /\ manual_slots = Sum(cfg.slots) /\ manual_slots \in Nat
      /\ manual_slots <= capacity_slots
  BY <1>1, Loaded
<1>3. rest \in Nat /\ rest > 0 /\ rest <= capacity_slots /\ Sum(cfg.slots) + rest = capacity_slots
  BY <1>1, <1>2
<1>4. /\ Weighted \subseteq Buckets /\ ws \in Nat \ {0}
      /\ ws = W("prime") + W("cache") + W("backup")
      /\ \A b \in Buckets : W(b) \in Nat
      /\ \A b \in Buckets : weight[b] \in Nat
  BY <1>1, <1>2, WeightsOf
<1>5. \A b \in Buckets : part[b] = rest * W(b) /\ part[b] \in Nat
  <2> TAKE b \in Buckets
  <2>1. part[b] = IF b \in Weighted THEN (rest * weight[b]) % Word ELSE 0
    OBVIOUS
  <2>2. rest * weight[b] \in Nat /\ (rest * weight[b]) % Word = rest * weight[b]
    BY <1>2, <1>3, PartFits
  <2> HIDE DEF part, rest
  <2>3. rest * 0 = 0
    BY <1>3
  <2> QED
    BY <2>1, <2>2, <2>3
<1>6. \A b \in Buckets : given[b] = part[b] \div ws /\ left[b] = part[b] % ws
  OBVIOUS
<1>7. slots \in [Buckets -> Nat] /\ given \in [Buckets -> Nat] /\ left \in [Buckets -> Nat]
  <2> HIDE DEF part, ws
  <2>1. \A b \in Buckets : part[b] \div ws \in Nat /\ part[b] % ws \in Nat
    BY <1>4, <1>5, Division
  <2>2. given \in [Buckets -> Nat] /\ left \in [Buckets -> Nat]
    BY <2>1 DEF ws
  <2> HIDE DEF given, left
  <2>3. \A b \in Buckets : cfg.slots[b] \in Nat /\ given[b] \in Nat
    BY <1>2, <2>2 DEF TypeOK
  <2> QED
    BY <2>2, <2>3
<1>8. \A b \in Buckets : /\ given[b] * ws + left[b] = part[b] /\ left[b] < ws
                         /\ given[b] * ws <= part[b]
  <2> HIDE DEF part, ws, given, left
  <2>1. \A a \in Nat : /\ (a \div ws) * ws + (a % ws) = a /\ a % ws < ws
                       /\ (a \div ws) * ws <= a
    BY <1>4, Division
  <2> TAKE b \in Buckets
  <2>2. /\ (part[b] \div ws) * ws + (part[b] % ws) = part[b] /\ part[b] % ws < ws
        /\ (part[b] \div ws) * ws <= part[b]
    BY <1>5, <2>1, Zenon
  <2> QED
    BY <1>6, <2>2, Zenon
<1>9. \A b \in Buckets : b \notin Weighted => given[b] = 0
  <2> TAKE b \in Buckets
  <2> HAVE b \notin Weighted
  <2>1. part[b] = 0
    OBVIOUS
  <2> HIDE DEF part, ws, given, left
  <2>2. given[b] \in Nat /\ given[b] * ws <= 0
    BY <1>7, <1>8, <2>1
  <2>3. given[b] > 0 => 0 * ws + ws <= given[b] * ws
    BY <1>4, <2>2, Multiples
  <2> QED
    BY <1>4, <2>2, <2>3
<1>10. cfg'.slots = slots /\ cfg' = [cfg EXCEPT !.slots = slots]
  BY <1>1, <1>2 DEF TypeOK
<1>11. /\ cfg'.number = cfg.number /\ cfg'.unit = cfg.unit /\ cfg'.memory = cfg.memory
       /\ cfg'.explicit = cfg.explicit /\ cfg'.replication = cfg.replication
  <2> HIDE DEF slots
  <2> QED
    BY <1>2, <1>10 DEF TypeOK
<1>12. /\ \A b \in Buckets : slots[b] = IF b \in Weighted THEN given[b] ELSE cfg.slots[b]
  OBVIOUS
<1> HIDE DEF part, given, left, slots, rest, W
<1>13. Sum(given) \in Nat /\ Sum(given) <= rest
  <2>1. /\ given["prime"] \in Nat /\ given["cache"] \in Nat /\ given["backup"] \in Nat
        /\ W("prime") \in Nat /\ W("cache") \in Nat /\ W("backup") \in Nat
        /\ given["prime"] * ws <= rest * W("prime")
        /\ given["cache"] * ws <= rest * W("cache")
        /\ given["backup"] * ws <= rest * W("backup")
    BY <1>4, <1>5, <1>7, <1>8 DEF Buckets
  <2>2. given["prime"] + given["cache"] + given["backup"] <= rest
    <3> DEFINE x == given["prime"]
               y == given["cache"]
               z == given["backup"]
               u == W("prime")
               v == W("cache")
               w == W("backup")
    <3>1. /\ x \in Nat /\ y \in Nat /\ z \in Nat /\ u \in Nat /\ v \in Nat /\ w \in Nat
          /\ ws \in Nat \ {0} /\ ws = u + v + w /\ rest \in Nat
          /\ x * ws <= rest * u /\ y * ws <= rest * v /\ z * ws <= rest * w
      BY <1>3, <1>4, <2>1
    <3> HIDE DEF x, y, z, u, v, w, ws
    <3>2. x + y + z <= rest
      BY <3>1, Shares
    <3> QED
      BY <3>2 DEF x, y, z
  <2> QED
    BY <2>1, <2>2 DEF Sum
<1>14. Sum(slots) = Sum(cfg.slots) + Sum(given) /\ Sum(slots) \in Nat
  <2>1. \A b \in Buckets : slots[b] = cfg.slots[b] + given[b] /\ given[b] \in Nat /\ cfg.slots[b] \in Nat
    BY <1>2, <1>4, <1>7, <1>9, <1>12 DEF Unshared, TypeOK
  <2> QED
    BY <2>1 DEF Sum, Buckets
<1>15. /\ Weighted' = Weighted /\ weight_sum' = ws /\ capacity_slots' = capacity_slots
       /\ remaining' = rest /\ allocated' = Sum(given) /\ remainder' = left
       /\ cfg'.slots = slots
  BY <1>1, <1>10, <1>11 DEF Weighted, weight_sum, capacity_slots, Sum
<1>16. TypeOK'
  <2>1. cfg' \in [number : Magnitudes, unit : Units, memory : Nat, replication : Int,
                  explicit : [Buckets -> BOOLEAN], slots : [Buckets -> Nat]]
    BY <1>2, <1>7, <1>10 DEF TypeOK
  <2> QED
    BY <1>1, <1>3, <1>7, <1>13, <1>15, <2>1 DEF TypeOK, Pcs
<1>17. MemoryRead'
  BY <1>2, <1>11 DEF MemoryRead
<1>18. Fits'
  BY <1>2, <1>3, <1>11, <1>13, <1>14, <1>15 DEF Fits
<1>19. Sum(WeightedSlots)' = Sum(given)
  <2>1. \A b \in Buckets : WeightedSlots'[b] = given[b]
    BY <1>9, <1>12, <1>15 DEF WeightedSlots
  <2> QED
    BY <2>1 DEF Sum, Buckets
<1>20. \A b \in Weighted : Rounded(b)'
  <2> TAKE b \in Weighted
  <2>1. b \in Buckets /\ slots[b] = given[b] /\ W(b) = weight[b]
    BY <1>4, <1>12 DEF W
  <2>2. slots[b] * ws + left[b] = rest * weight[b] /\ left[b] < ws
    BY <1>5, <1>8, <2>1
  <2> QED
    BY <1>15, <2>2 DEF Rounded
<1>21. Shared'
  BY <1>1, <1>2, <1>3, <1>13, <1>14, <1>15, <1>19, <1>20 DEF Shared
<1> QED
  BY <1>1, <1>16, <1>17, <1>18, <1>21 DEF AllocInv

(* While slots are left over, some bucket has a remainder to trade for one *)
(* of them: the loop never gives a bucket a slot it has not earned.        *)
LEMMA SomeRemainder ==
  ASSUME TypeOK, Shared, allocated < remaining
  PROVE  \E b \in Weighted : remainder[b] > 0
<1> DEFINE ws == weight_sum
           W(b) == IF b \in Weighted THEN weight[b] ELSE 0
           x == WeightedSlots["prime"]
           y == WeightedSlots["cache"]
           z == WeightedSlots["backup"]
           u == W("prime")
           v == W("cache")
           w == W("backup")
<1> SUFFICES ASSUME \A b \in Weighted : ~(remainder[b] > 0) PROVE FALSE
  OBVIOUS
<1>1. /\ Weighted \subseteq Buckets /\ ws \in Nat \ {0} /\ ws = u + v + w
      /\ \A b \in Buckets : W(b) \in Nat /\ weight[b] \in Nat
  BY WeightsOf DEF Shared
<1>2. \A b \in Buckets : remainder[b] \in Nat /\ cfg.slots[b] \in Nat
  BY DEF TypeOK
<1>3. remaining \in Nat /\ allocated \in Nat
  BY DEF TypeOK
<1>4. \A b \in Weighted : cfg.slots[b] * ws >= remaining * weight[b]
  <2> TAKE b \in Weighted
  <2>1. b \in Buckets /\ remainder[b] = 0
    BY <1>1, <1>2
  <2>2. cfg.slots[b] * ws \in Nat /\ remaining * weight[b] \in Nat
    BY <1>1, <1>2, <1>3, <2>1, Multiples
  <2> QED
    BY <2>1, <2>2 DEF Shared, Rounded
<1>5. \A b \in Buckets : /\ WeightedSlots[b] \in Nat
                         /\ WeightedSlots[b] * ws >= remaining * W(b)
  <2> TAKE b \in Buckets
  <2>1. CASE b \in Weighted
    <3>1. WeightedSlots[b] = cfg.slots[b] /\ W(b) = weight[b]
      BY <2>1 DEF WeightedSlots
    <3> QED
      BY <1>2, <1>4, <2>1, <3>1
  <2>2. CASE b \notin Weighted
    <3>1. WeightedSlots[b] = 0 /\ W(b) = 0
      BY <2>2 DEF WeightedSlots
    <3>2. 0 * ws = 0 /\ remaining * 0 = 0
      BY <1>1, <1>3
    <3> QED
      BY <3>1, <3>2
  <2> QED
    BY <2>1, <2>2
<1>6. x + y + z = allocated
  BY DEF Shared, Sum
<1>7. /\ x \in Nat /\ y \in Nat /\ z \in Nat /\ u \in Nat /\ v \in Nat /\ w \in Nat
      /\ x * ws >= remaining * u /\ y * ws >= remaining * v /\ z * ws >= remaining * w
  BY <1>1, <1>5 DEF Buckets
<1> HIDE DEF x, y, z, u, v, w, ws, W
<1>8. x + y + z >= remaining
  BY <1>1, <1>3, <1>7, Shares
<1> QED
  BY <1>3, <1>6, <1>8

(* Giving a left-over slot to the largest remainder rounds that share up.  *)
LEMMA GiveOneAlloc == ASSUME AllocInv, GiveOne PROVE AllocInv'
<1>1. /\ pc = "share" /\ pc' = "share" /\ allocated < remaining
      /\ allocated' = allocated + 1 /\ remaining' = remaining
  BY DEF GiveOne
<1>2. PICK best \in Weighted :
         /\ \A b \in Weighted \ {best} :
               \/ remainder[best] > remainder[b]
               \/ remainder[best] = remainder[b] /\ priority[best] < priority[b]
         /\ cfg' = [cfg EXCEPT !.slots[best] = (@ + 1) % Word]
         /\ remainder' = Spend(best)
  BY DEF GiveOne
<1> DEFINE n == cfg.slots[best]
           slots == [cfg.slots EXCEPT ![best] = n + 1]
           ws == weight_sum
<1>3. TypeOK /\ MemoryRead /\ Fits /\ Shared
  BY <1>1 DEF AllocInv
<1>4. /\ remaining \in Nat /\ allocated \in Nat
      /\ \A b \in Buckets : remainder[b] \in Nat /\ cfg.slots[b] \in Nat
      /\ cfg.slots \in [Buckets -> Nat] /\ remainder \in [Buckets -> Nat]
  BY <1>3 DEF TypeOK
<1>5. /\ Weighted \subseteq Buckets /\ best \in Buckets /\ ws \in Nat \ {0}
      /\ \A b \in Buckets : weight[b] \in Nat
  BY <1>2, <1>3, WeightsOf DEF Shared
<1>6. /\ cfg.memory > HeaderBytes /\ cfg.memory < Word /\ capacity_slots \in Nat
      /\ capacity_slots < Word
  BY <1>3, Capacity DEF Fits, MemoryRead
<1>7. Sum(cfg.slots) \in Nat /\ n \in Nat /\ n <= Sum(cfg.slots) /\ Sum(cfg.slots) < capacity_slots
  <2>1. Sum(cfg.slots) \in Nat /\ n \in Nat /\ n <= Sum(cfg.slots)
    BY <1>4, <1>5, SumType
  <2> QED
    BY <1>1, <1>3, <1>4, <1>6, <2>1 DEF Shared
<1>8. (n + 1) % Word = n + 1
  <2> HIDE DEF n
  <2> QED
    BY <1>6, <1>7, ModIdentity, Sizes
<1>9. cfg' = [cfg EXCEPT !.slots = slots]
  BY <1>2, <1>3, <1>8 DEF TypeOK
<1>10. slots \in [Buckets -> Nat] /\ slots[best] = n + 1
       /\ \A b \in Buckets : b # best => slots[b] = cfg.slots[b]
  <2> HIDE DEF n
  <2> QED
    BY <1>4, <1>5, <1>7
<1> HIDE DEF slots
<1>11. /\ cfg'.number = cfg.number /\ cfg'.unit = cfg.unit /\ cfg'.memory = cfg.memory
       /\ cfg'.explicit = cfg.explicit /\ cfg'.replication = cfg.replication /\ cfg'.slots = slots
  BY <1>3, <1>9 DEF TypeOK
<1>12. /\ Weighted' = Weighted /\ weight_sum' = ws /\ capacity_slots' = capacity_slots
  BY <1>11 DEF Weighted, weight_sum, capacity_slots, Sum
<1>13. /\ remainder' \in [Buckets -> Nat] /\ remainder'[best] = 0
       /\ \A b \in Buckets : b # best => remainder'[b] = remainder[b]
  BY <1>2, <1>4, <1>5 DEF Spend
<1>14. TypeOK'
  <2>1. cfg' \in [number : Magnitudes, unit : Units, memory : Nat, replication : Int,
                  explicit : [Buckets -> BOOLEAN], slots : [Buckets -> Nat]]
    BY <1>3, <1>9, <1>10 DEF TypeOK
  <2> QED
    BY <1>1, <1>4, <1>13, <2>1 DEF TypeOK, Pcs
<1>15. Sum(slots) = Sum(cfg.slots) + 1
  <2> HIDE DEF n
  <2>1. \A b \in Buckets : slots[b] = IF b = best THEN cfg.slots[b] + 1 ELSE cfg.slots[b]
    BY <1>10 DEF n
  <2> QED
    BY <1>4, <1>5, <2>1 DEF Sum, Buckets
<1>16. Sum(WeightedSlots)' = Sum(WeightedSlots) + 1
  <2>1. \A b \in Buckets : /\ WeightedSlots'[b] = IF b = best THEN WeightedSlots[b] + 1
                                                  ELSE WeightedSlots[b]
                           /\ WeightedSlots[b] \in Nat
    BY <1>2, <1>4, <1>10, <1>11, <1>12 DEF WeightedSlots
  <2> QED
    BY <1>5, <2>1 DEF Sum, Buckets
<1>17. MemoryRead'
  BY <1>3, <1>11 DEF MemoryRead
<1>18. Fits'
  BY <1>6, <1>7, <1>11, <1>12, <1>15 DEF Fits
<1>19. remainder[best] > 0
  <2>1. PICK b \in Weighted : remainder[b] > 0
    BY <1>1, <1>3, SomeRemainder
  <2> QED
    BY <1>2, <1>4, <1>5, <2>1
<1>20. Rounded(best)'
  <2> DEFINE r == remainder[best]
             share == remaining * weight[best]
             base == n * ws
  <2>1. base + r = share /\ r < ws
    BY <1>3, <1>19 DEF Shared, Rounded
  <2>2. base \in Nat /\ share \in Nat /\ r \in Nat /\ r > 0
    BY <1>4, <1>5, <1>7, <1>19, Multiples
  <2>3. (n + 1) * ws = base + ws
    BY <1>5, <1>7
  <2> HIDE DEF r, share, base, ws, n
  <2>4. (n + 1) * ws > share /\ (n + 1) * ws < share + ws
    BY <1>5, <2>1, <2>2, <2>3
  <2> QED
    BY <1>1, <1>10, <1>11, <1>12, <1>13, <2>4 DEF Rounded, share
<1>21. \A b \in Weighted : Rounded(b)'
  <2> TAKE b \in Weighted
  <2>1. CASE b = best
    BY <1>20, <2>1
  <2>2. CASE b # best
    <3>1. Rounded(b) /\ cfg'.slots[b] = cfg.slots[b] /\ remainder'[b] = remainder[b]
      BY <1>3, <1>5, <1>10, <1>11, <1>13, <2>2 DEF Shared
    <3> QED
      BY <1>1, <1>12, <3>1 DEF Rounded
  <2> QED
    BY <2>1, <2>2
<1>22. Shared'
  <2>1. /\ Sum(WeightedSlots)' = allocated' /\ allocated' <= remaining' /\ remaining' > 0
        /\ Sum(slots) + remaining' = capacity_slots + allocated'
    BY <1>1, <1>3, <1>4, <1>6, <1>7, <1>15, <1>16 DEF Shared
  <2>2. Weighted' # {}
    BY <1>3, <1>12 DEF Shared
  <2> QED
    BY <1>11, <1>12, <1>21, <2>1, <2>2 DEF Shared
<1> QED
  BY <1>1, <1>14, <1>17, <1>18, <1>22 DEF AllocInv

(* Every step keeps the invariant.                                         *)
LEMMA NextAlloc == ASSUME AllocInv, [Next]_vars PROVE AllocInv'
<1>1. pc \in Pcs
  BY DEF AllocInv, TypeOK
<1>2. CASE Parse
  BY <1>2, ParseAlloc
<1>3. CASE Reject
  BY <1>3, SameCounts DEF Reject, Pcs
<1>4. CASE NothingToShare
  BY <1>4, SameCounts DEF NothingToShare, Pcs
<1>5. CASE Share
  BY <1>5, ShareAlloc
<1>6. CASE GiveOne
  BY <1>6, GiveOneAlloc
<1>7. CASE AllGiven
  BY <1>7, SameCounts DEF AllGiven, Pcs
<1>8. CASE Check
  BY <1>8, SameCounts DEF Check, Pcs
<1>9. CASE UNCHANGED vars
  BY <1>1, <1>9, SameCounts DEF vars
<1> QED
  BY <1>2, <1>3, <1>4, <1>5, <1>6, <1>7, <1>8, <1>9 DEF Next

(* The invariant holds of every behaviour whose explicit counts add up.    *)
LEMMA AllocInvariant == ASSUME ManualCountsFit PROVE Spec => []AllocInv
<1>1. Init => AllocInv
  BY InitAlloc
<1>2. AllocInv /\ [Next]_vars => AllocInv'
  BY NextAlloc
<1> QED
  BY <1>1, <1>2, PTL DEF Spec

(***************************************************************************)
(* The slots of the region.                                                *)
(***************************************************************************)

(* A slot's place in the region, counted from the first PRIME slot.        *)
Rank(id) == id[2] + (IF id[1] = "prime" THEN 0
                     ELSE IF id[1] = "cache" THEN cfg.slots["prime"]
                     ELSE cfg.slots["prime"] + cfg.slots["cache"])

(* The first slots of a region that fits its memory end without overflow.  *)
LEMMA NoWrap ==
  ASSUME TypeOK, MemoryRead, Fits, NEW k \in Nat, k <= capacity_slots
  PROVE  /\ k * SlotBytes \in Nat
         /\ HeaderBytes + k * SlotBytes <= cfg.memory
         /\ (HeaderBytes + k * SlotBytes) % Word = HeaderBytes + k * SlotBytes
<1> DEFINE c == capacity_slots
           o == HeaderBytes + k * SlotBytes
<1>1. cfg.memory \in Nat /\ cfg.memory > HeaderBytes /\ cfg.memory < Word
  BY DEF TypeOK, MemoryRead, Fits
<1>2. c \in Nat /\ HeaderBytes + c * SlotBytes <= cfg.memory
  BY <1>1, Capacity
<1>3. k <= c
  OBVIOUS
<1> HIDE DEF c
<1>4. k * SlotBytes \in Nat /\ c * SlotBytes \in Nat /\ k * SlotBytes <= c * SlotBytes
  BY <1>2, <1>3, Sizes, Multiples
<1>5. o \in Nat /\ o <= cfg.memory /\ o < Word
  BY <1>1, <1>2, <1>4, Sizes
<1> HIDE DEF o
<1>6. o % Word = o
  BY <1>5, ModIdentity
<1> QED
  BY <1>4, <1>5, <1>6 DEF o

(* The offset td_region_slot_offset_for_index computes is the header and   *)
(* the slots in front.                                                     *)
LEMMA OffsetIsRank ==
  ASSUME TypeOK, MemoryRead, Fits, NEW x \in SlotIds
  PROVE  /\ Rank(x) \in Nat /\ Rank(x) + 1 <= capacity_slots
         /\ OffsetOf(x) = HeaderBytes + Rank(x) * SlotBytes
<1> DEFINE p == cfg.slots["prime"]
           c == cfg.slots["cache"]
           b == cfg.slots["backup"]
           i == x[2]
           kind == x[1]
           H == HeaderBytes
           S == SlotBytes
           cap == capacity_slots
<1>1. p \in Nat /\ c \in Nat /\ b \in Nat /\ p + c + b <= cap
  BY SumType DEF TypeOK, Fits, Sum
<1>2. /\ kind \in {"prime", "cache", "backup"} /\ i \in Nat
      /\ kind = "prime" => i < p
      /\ kind = "cache" => i < c
      /\ kind = "backup" => i < b
  BY Sizes DEF SlotIds, Buckets
<1>3. cap \in Nat
  BY Capacity DEF MemoryRead, Fits
<1>4. Rank(x) = IF kind = "prime" THEN i ELSE IF kind = "cache" THEN p + i ELSE p + c + i
  <2>1. Rank(x) = i + (IF kind = "prime" THEN 0 ELSE IF kind = "cache" THEN p ELSE p + c)
    BY DEF Rank
  <2> HIDE DEF p, c, i, kind
  <2> QED
    BY <1>1, <1>2, <2>1
<1>5. \A k \in Nat : k <= cap => k * S \in Nat /\ (H + k * S) % Word = H + k * S
  BY NoWrap
<1>6. H \in Nat /\ S \in Nat
  BY Sizes
<1>7. \A j, k \in Nat : (j + k) * S = j * S + k * S /\ j * S \in Nat
  BY <1>6, Multiples
<1>8. /\ kind = "prime" => OffsetOf(x) = (H + i * S) % Word
      /\ kind = "cache" => OffsetOf(x) = (((H + p * S) % Word) + i * S) % Word
      /\ kind = "backup" => OffsetOf(x) = (((((H + p * S) % Word) + c * S) % Word) + i * S) % Word
  BY DEF OffsetOf, td_region_slot_offset_for_index, td_region_kind_base_offset
<1> HIDE DEF p, c, b, i, kind, H, S, cap
<1>9. CASE kind = "prime"
  <2>1. i <= cap /\ i + 1 <= cap
    BY <1>1, <1>2, <1>3, <1>9
  <2>2. OffsetOf(x) = H + i * S
    BY <1>2, <1>5, <1>8, <1>9, <2>1
  <2> QED
    BY <1>2, <1>4, <1>9, <2>1, <2>2 DEF H, S, cap
<1>10. CASE kind = "cache"
  <2>1. p + i \in Nat /\ p <= cap /\ p + i <= cap /\ p + i + 1 <= cap
    BY <1>1, <1>2, <1>3, <1>10
  <2>2. (H + p * S) % Word = H + p * S /\ (H + (p + i) * S) % Word = H + (p + i) * S
    BY <1>1, <1>5, <2>1
  <2>3. (H + p * S) + i * S = H + (p + i) * S
    BY <1>1, <1>2, <1>6, <1>7
  <2>4. OffsetOf(x) = H + (p + i) * S
    BY <1>8, <1>10, <2>2, <2>3
  <2> QED
    BY <1>4, <1>10, <2>1, <2>4 DEF H, S, cap
<1>11. CASE kind = "backup"
  <2>1. /\ p + c \in Nat /\ p + c + i \in Nat
        /\ p <= cap /\ p + c <= cap /\ p + c + i <= cap /\ p + c + i + 1 <= cap
    BY <1>1, <1>2, <1>3, <1>11
  <2>2. /\ (H + p * S) % Word = H + p * S
        /\ (H + (p + c) * S) % Word = H + (p + c) * S
        /\ (H + (p + c + i) * S) % Word = H + (p + c + i) * S
    BY <1>1, <1>5, <2>1
  <2>3. (H + p * S) + c * S = H + (p + c) * S
    BY <1>1, <1>6, <1>7
  <2>4. (H + (p + c) * S) + i * S = H + (p + c + i) * S
    BY <1>2, <1>6, <1>7, <2>1
  <2>5. OffsetOf(x) = H + (p + c + i) * S
    BY <1>8, <1>11, <2>2, <2>3, <2>4
  <2> QED
    BY <1>4, <1>11, <2>1, <2>5 DEF H, S, cap
<1> QED
  BY <1>2, <1>9, <1>10, <1>11

(* No two slots have the same place.                                       *)
LEMMA RanksDiffer ==
  ASSUME TypeOK, NEW x \in SlotIds, NEW y \in SlotIds, x # y
  PROVE  Rank(x) # Rank(y)
<1> DEFINE p == cfg.slots["prime"]
           c == cfg.slots["cache"]
           b == cfg.slots["backup"]
<1>1. p \in Nat /\ c \in Nat /\ b \in Nat
  BY SumType DEF TypeOK
<1>2. \A id \in SlotIds : /\ id[1] \in {"prime", "cache", "backup"} /\ id[2] \in Nat
                          /\ id[1] = "prime" => id[2] < p
                          /\ id[1] = "cache" => id[2] < c
                          /\ id[1] = "backup" => id[2] < b
  BY Sizes DEF SlotIds, Buckets
<1>3. x[1] # y[1] \/ x[2] # y[2]
  BY DEF SlotIds
<1>4. \A id \in SlotIds : Rank(id) = id[2] + (IF id[1] = "prime" THEN 0
                                             ELSE IF id[1] = "cache" THEN p ELSE p + c)
  BY DEF Rank
<1> HIDE DEF p, c, b
<1> QED
  BY <1>1, <1>2, <1>3, <1>4

(* The counts a memory node resolves make a region in which every slot     *)
(* lies inside the memory, behind the header, and apart from the others,   *)
(* for every size of memory and every mixture of explicit and weighted     *)
(* counts (td_resolve_mn_slots, td_region_slot_offset_for_index), if the   *)
(* explicit counts do not overflow.                                        *)
THEOREM SlotsFitRegion == ASSUME ManualCountsFit PROVE Spec => []RegionFits
<1>1. AllocInv => RegionFits
  <2> SUFFICES ASSUME AllocInv, pc = "done", NEW x \in SlotIds
               PROVE  /\ OffsetOf(x) >= HeaderBytes
                      /\ OffsetOf(x) + SlotBytes <= cfg.memory
                      /\ \A y \in SlotIds \ {x} :
                            \/ OffsetOf(x) + SlotBytes <= OffsetOf(y)
                            \/ OffsetOf(y) + SlotBytes <= OffsetOf(x)
    BY DEF RegionFits
  <2>1. TypeOK /\ MemoryRead /\ Fits
    BY DEF AllocInv
  <2>2. cfg.memory \in Nat /\ HeaderBytes \in Nat /\ SlotBytes \in Nat
    BY <2>1, Sizes DEF TypeOK
  <2>3. \A id \in SlotIds : /\ Rank(id) \in Nat /\ Rank(id) + 1 <= capacity_slots
                            /\ OffsetOf(id) = HeaderBytes + Rank(id) * SlotBytes
    BY <2>1, OffsetIsRank
  <2>4. \A j, k \in Nat : /\ j * SlotBytes \in Nat
                          /\ (j + 1) * SlotBytes = j * SlotBytes + SlotBytes
                          /\ j < k => j * SlotBytes + SlotBytes <= k * SlotBytes
    BY <2>2, Multiples
  <2>5. OffsetOf(x) >= HeaderBytes /\ OffsetOf(x) + SlotBytes <= cfg.memory
    <3> DEFINE r == Rank(x)
    <3>1. r \in Nat /\ r + 1 \in Nat /\ r + 1 <= capacity_slots
      BY <2>3
    <3>2. OffsetOf(x) = HeaderBytes + r * SlotBytes
      BY <2>3
    <3> HIDE DEF r
    <3>3. HeaderBytes + (r + 1) * SlotBytes <= cfg.memory
      BY <2>1, <3>1, NoWrap
    <3>4. (r + 1) * SlotBytes = r * SlotBytes + SlotBytes /\ r * SlotBytes \in Nat
      BY <2>4, <3>1
    <3> QED
      BY <2>2, <3>2, <3>3, <3>4
  <2>6. ASSUME NEW y \in SlotIds \ {x}
        PROVE  \/ OffsetOf(x) + SlotBytes <= OffsetOf(y)
               \/ OffsetOf(y) + SlotBytes <= OffsetOf(x)
    <3> DEFINE j == Rank(x)
               k == Rank(y)
    <3>1. /\ j \in Nat /\ k \in Nat
          /\ OffsetOf(x) = HeaderBytes + j * SlotBytes
          /\ OffsetOf(y) = HeaderBytes + k * SlotBytes
      BY <2>3
    <3>2. j # k
      BY <2>1, RanksDiffer
    <3> HIDE DEF j, k
    <3>3. /\ j * SlotBytes \in Nat /\ k * SlotBytes \in Nat
          /\ \/ j * SlotBytes + SlotBytes <= k * SlotBytes
             \/ k * SlotBytes + SlotBytes <= j * SlotBytes
      BY <2>4, <3>1, <3>2
    <3> QED
      BY <2>2, <3>1, <3>3
  <2> QED
    BY <2>5, <2>6
<1> QED
  BY <1>1, AllocInvariant, PTL

(* A node that shares slots out uses all of its memory but for less than a *)
(* slot, and gives each bucket its exact weighted share rounded down or up *)
(* (the largest-remainder loop of td_allocate_weighted_slots), if the      *)
(* explicit counts do not overflow.                                        *)
THEOREM SharesAreFair == ASSUME ManualCountsFit PROVE Spec => []FairShares
<1>1. AllocInv => FairShares
  <2> SUFFICES ASSUME AllocInv, pc = "done", allocated > 0
               PROVE  /\ Sum(cfg.slots)
                           = (cfg.number * multiplier[cfg.unit] - HeaderBytes) \div SlotBytes
                      /\ \A b \in Weighted :
                            /\ cfg.slots[b] * weight_sum > remaining * weight[b] - weight_sum
                            /\ cfg.slots[b] * weight_sum < remaining * weight[b] + weight_sum
    BY DEF FairShares
  <2>1. TypeOK /\ MemoryRead /\ Fits /\ Shared /\ allocated = remaining
    BY DEF AllocInv
  <2>2. Sum(cfg.slots) \in Nat /\ capacity_slots \in Nat
    BY <2>1, SumType, Capacity DEF TypeOK, MemoryRead, Fits
  <2>3. Sum(cfg.slots) = capacity_slots
    BY <2>1, <2>2 DEF Shared, TypeOK
  <2>4. capacity_slots = (cfg.number * multiplier[cfg.unit] - HeaderBytes) \div SlotBytes
    BY <2>1 DEF capacity_slots, MemoryRead
  <2>5. ASSUME NEW b \in Weighted
        PROVE  /\ cfg.slots[b] * weight_sum > remaining * weight[b] - weight_sum
               /\ cfg.slots[b] * weight_sum < remaining * weight[b] + weight_sum
    <3> DEFINE base == cfg.slots[b] * weight_sum
               share == remaining * weight[b]
               ws == weight_sum
               r == remainder[b]
    <3>1. Weighted \subseteq Buckets /\ ws \in Nat \ {0} /\ weight[b] \in Nat
      BY <2>1, WeightsOf DEF Shared
    <3>2. cfg.slots[b] \in Nat /\ r \in Nat /\ remaining \in Nat
      BY <2>1, <3>1 DEF TypeOK
    <3>3. base \in Nat /\ share \in Nat
      BY <3>1, <3>2, Multiples
    <3>4. \/ base + r = share /\ r < ws
          \/ base > share /\ base < share + ws
      BY <2>1 DEF Shared, Rounded
    <3> HIDE DEF base, share, ws, r
    <3>5. base > share - ws /\ base < share + ws
      BY <3>1, <3>2, <3>3, <3>4
    <3> QED
      BY <3>5 DEF base, share, ws
  <2> QED
    BY <2>3, <2>4, <2>5
<1> QED
  BY <1>1, AllocInvariant, PTL

=============================================================================
