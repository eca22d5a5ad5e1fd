----------------------------- MODULE LimitsProofs -----------------------------
(***************************************************************************)
(* The three bounded resources of the process: the quota store, the queue  *)
(* of operational events and the password hasher's semaphore.  They share  *)
(* lemmas about least elements and about sequences, and nothing else.      *)
(***************************************************************************)
EXTENDS RequestProtection, EventQueue, PasswordHasher,
        WellFoundedInduction, FiniteSetTheorems, SequenceTheorems, TLAPS

-----------------------------------------------------------------------------
(***************************************************************************)
(* The quota store, for every limit, window length, clock resolution,      *)
(* capacity and clean-up batch, and for any number of client addresses.    *)
(*                                                                         *)
(* The comment in the store says that a fixed TTL and monotonic insertion  *)
(* times keep the entries in expiry order.  InOrder is that claim, and     *)
(* everything rests on it: it is why removing from the front finds every   *)
(* expired entry, and so why a full table is full of running windows.  The *)
(* other half is Remembered: no way of removing an entry forgets a window  *)
(* that still runs.                                                        *)
(***************************************************************************)

WindowRow == [key : Ips, expires_at : Nat, count : 1..Limit]

\* A table: entries of addresses, each at most once, in expiry order.
InOrder(ws) ==
    \A i, j \in DOMAIN ws : i < j =>
        ws[i].expires_at <= ws[j].expires_at /\ ws[i].key # ws[j].key
Table(ws) ==
    /\ ws \in Seq(WindowRow)
    /\ InOrder(ws)
    /\ \A i \in DOMAIN ws : ws[i].expires_at <= now + Window

\* It counts what was admitted, for the windows that run,
Counted(ws) ==
    \A i \in DOMAIN ws : ~Expired(ws[i]) =>
        /\ opened[ws[i].key] # Never
        /\ ws[i].expires_at = opened[ws[i].key] + Window
        /\ ws[i].count = since[ws[i].key]

\* and has all of those.
Remembered(ws) ==
    \A ip \in Ips : Running(ip) =>
        \E i \in DOMAIN ws : ws[i].key = ip /\ ~Expired(ws[i])

Clocks ==
    /\ now \in 0..MaxTime
    /\ opened \in [Ips -> 0..MaxTime \cup {Never}]
    /\ \A ip \in Ips : opened[ip] # Never => opened[ip] <= now
    /\ since \in [Ips -> Nat]

StoreInv ==
    /\ Clocks
    /\ Table(windows)
    /\ Len(windows) <= Capacity
    /\ Counted(windows)
    /\ Remembered(windows)

QuotaInv == StoreInv /\ UntrackedOnlyWhenFull /\ RetryAfterIsTight

-----------------------------------------------------------------------------
(***************************************************************************)
(* The operators.                                                          *)
(***************************************************************************)

\* Every non-empty set of naturals has a least element.
LEMMA LeastNatural ==
    ASSUME NEW T, T \subseteq Nat, T # {}
    PROVE  \E x \in T : \A y \in T : x <= y
<1>1. PICK R : R = {ss \in Nat \X Nat : ss[1] < ss[2]}
  OBVIOUS
<1>2. IsWellFoundedOn(R, Nat)
  BY <1>1, NatLessThanWellFounded DEF OpToRel
<1>3. PICK x \in T : \A y \in T : ~(<<y, x>> \in R)
  BY <1>2, WFMin, Zenon
<1>4. ASSUME NEW y \in T
      PROVE  x <= y
  <2>1. x \in Nat /\ y \in Nat /\ ~(<<y, x>> \in R)
    BY <1>3
  <2>2. ~(y < x)
    BY <1>1, <2>1
  <2> QED
    BY <2>1, <2>2
<1> QED
  BY <1>4

\* So a bounded one has a greatest, and Max is it.
LEMMA MaxOfBounded ==
    ASSUME NEW L \in Nat, NEW S, S \subseteq 0..L, S # {}
    PROVE  Max(S) \in S /\ \A y \in S : y <= Max(S)
<1>1. PICK T : T = {L - n : n \in S}
  OBVIOUS
<1>2. T \subseteq Nat /\ T # {}
  <2>1. \A n \in S : L - n \in Nat
    OBVIOUS
  <2> QED
    BY <1>1, <2>1
<1>3. PICK x \in T : \A y \in T : x <= y
  BY <1>2, LeastNatural
<1>4. PICK m \in S : x = L - m
  BY <1>1
<1>5. \A y \in S : m >= y
  BY <1>1, <1>3, <1>4
<1>6. \A y \in S : Max(S) \in S /\ Max(S) >= y
  BY <1>4, <1>5 DEF Max
<1> QED
  BY <1>4, <1>6

LEMMA MaxOfTwo ==
    ASSUME NEW a \in Nat, NEW b \in Nat, a <= b
    PROVE  Max({a, b}) = b
<1>1. \A x \in {a, b} : (\A y \in {a, b} : x >= y) <=> x = b
  OBVIOUS
<1> QED
  BY <1>1 DEF Max

\* What is left of a window, in seconds rounded up.
LEMMA RoundedUp ==
    ASSUME NEW T \in Nat, T >= 1, NEW y \in Nat, y >= 1,
           NEW q, q = (y + T - 1) \div T
    PROVE  q \in Nat /\ q >= 1 /\ q * T >= y /\ (q - 1) * T < y
<1>1. PICK x \in Nat : x = y + T - 1
  OBVIOUS
<1>2. q = x \div T /\ q \in Nat
  BY <1>1
<1>3. q * T <= x /\ x < q * T + T
  BY <1>2
<1>4. q # 0
  BY <1>1, <1>2, <1>3
<1>5. (q - 1) * T = q * T - T
  BY <1>2
<1>6. PICK p \in Int : p = q * T
  BY <1>2
<1>7. p >= y /\ p - T < y
  BY <1>1, <1>3, <1>6
<1> QED
  BY <1>2, <1>4, <1>5, <1>6, <1>7

LEMMA Parameters ==
    /\ Limit \in Nat /\ Limit >= 1 /\ TicksPerSecond \in Nat /\ TicksPerSecond >= 1
    /\ Capacity \in Nat /\ Capacity >= 1 /\ CleanupBatch \in Nat /\ CleanupBatch >= 1
    /\ MaxTime \in Nat /\ Window \in Nat /\ Window >= 1
<1>1. \A n \in {Limit, WindowSeconds, TicksPerSecond, Capacity, CleanupBatch} : n \in Nat \ {0}
  BY ProtectionAssumption
<1>2. /\ Limit \in Nat \ {0} /\ WindowSeconds \in Nat \ {0} /\ TicksPerSecond \in Nat \ {0}
      /\ Capacity \in Nat \ {0} /\ CleanupBatch \in Nat \ {0}
  BY <1>1, Zenon
<1>3. \A a, b \in Nat \ {0} : a * b \in Nat \ {0}
  OBVIOUS
<1>4. Window \in Nat \ {0}
  BY <1>2, <1>3 DEF Window
<1> QED
  BY <1>2, <1>4, ProtectionAssumption

\* The clean-up drops expired entries from the front; if it drops nothing,
\* nothing in the table has expired.
LEMMA CleanedIs ==
    ASSUME Clocks, NEW ws, Table(ws)
    PROVE  \E n \in 0..Len(ws) :
              /\ Cleaned(ws) = SubSeq(ws, n + 1, Len(ws))
              /\ \A i \in 1..n : Expired(ws[i])
              /\ n = 0 => \A i \in DOMAIN ws : ~Expired(ws[i])
<1>1. PICK gone : gone = {n \in 0..Len(ws) : /\ n <= CleanupBatch
                                             /\ \A i \in 1..n : Expired(ws[i])}
  OBVIOUS
<1>2. ws \in Seq(WindowRow) /\ Len(ws) \in Nat
  BY DEF Table
<1>3. 0 \in gone /\ gone \subseteq 0..Len(ws)
  BY <1>1, <1>2, Parameters
<1>4. PICK n \in gone : n = Max(gone) /\ \A y \in gone : y <= n
  BY <1>2, <1>3, MaxOfBounded
<1>5. Cleaned(ws) = SubSeq(ws, n + 1, Len(ws))
  BY <1>1, <1>4 DEF Cleaned
<1>6. ASSUME n = 0, NEW k \in DOMAIN ws
      PROVE  ~Expired(ws[k])
  <2>1. k \in 1..Len(ws) /\ 1 \in 0..Len(ws) /\ 1 \in DOMAIN ws
    BY <1>2, <1>6
  <2>2. 1 \notin gone
    BY <1>4, <1>6
  <2>3. ~Expired(ws[1])
    <3>1. 1 <= CleanupBatch
      BY Parameters
    <3>2. ~\A i \in 1..1 : Expired(ws[i])
      BY <1>1, <2>1, <2>2, <3>1
    <3> QED
      BY <3>2
  <2>4. ws[1].expires_at <= ws[k].expires_at
    <3>1. ws[1] \in WindowRow
      BY <1>2, <2>1
    <3>2. k = 1 \/ 1 < k
      BY <2>1
    <3> QED
      BY <2>1, <3>1, <3>2 DEF Table, InOrder, WindowRow
  <2>5. ws[1].expires_at \in Nat /\ ws[k].expires_at \in Nat /\ now \in Nat
    <3>1. ws[1] \in WindowRow /\ ws[k] \in WindowRow
      BY <1>2, <2>1
    <3> QED
      BY <3>1, Parameters DEF WindowRow, Clocks
  <2> QED
    BY <2>3, <2>4, <2>5 DEF Expired
<1> QED
  BY <1>1, <1>3, <1>4, <1>5, <1>6

\* An entry is taken out.
LEMMA RemovedIs ==
    ASSUME NEW E, NEW ws \in Seq(E), NEW k \in DOMAIN ws
    PROVE  /\ RemoveAt(ws, k) \in Seq(E)
           /\ Len(RemoveAt(ws, k)) = Len(ws) - 1
           /\ \A i \in 1..Len(ws) - 1 : RemoveAt(ws, k)[i] = ws[IF i < k THEN i ELSE i + 1]
<1>1. PICK a, b : a = SubSeq(ws, 1, k - 1) /\ b = SubSeq(ws, k + 1, Len(ws))
  OBVIOUS
<1>2. k \in 1..Len(ws) /\ Len(ws) \in Nat
  OBVIOUS
<1>3. /\ a \in Seq(E) /\ Len(a) = k - 1
      /\ \A i \in 1..k - 1 : a[i] = ws[i]
  BY <1>1, <1>2
<1>4. /\ b \in Seq(E) /\ Len(b) = Len(ws) - k
      /\ \A i \in 1..Len(ws) - k : b[i] = ws[k + i]
  BY <1>1, <1>2
<1>5. RemoveAt(ws, k) = a \o b
  BY <1>1 DEF RemoveAt
<1>6. /\ a \o b \in Seq(E) /\ Len(a \o b) = Len(ws) - 1
      /\ \A i \in 1..Len(ws) - 1 : (a \o b)[i] = IF i <= k - 1 THEN a[i] ELSE b[i - (k - 1)]
  <2>1. /\ a \o b \in Seq(E) /\ Len(a \o b) = Len(a) + Len(b)
        /\ \A i \in 1..Len(a) + Len(b) :
              (a \o b)[i] = IF i <= Len(a) THEN a[i] ELSE b[i - Len(a)]
    BY <1>3, <1>4, ConcatProperties
  <2>2. Len(a) = k - 1 /\ Len(a) + Len(b) = Len(ws) - 1
    BY <1>2, <1>3, <1>4
  <2> QED
    BY <2>1, <2>2
<1>7. ASSUME NEW i \in 1..Len(ws) - 1
      PROVE  (a \o b)[i] = ws[IF i < k THEN i ELSE i + 1]
  <2>1. CASE i < k
    BY <2>1, <1>2, <1>3, <1>6
  <2>2. CASE ~(i < k)
    <3>1. (a \o b)[i] = b[i - (k - 1)] /\ i - (k - 1) \in 1..Len(ws) - k
      BY <2>2, <1>2, <1>6
    <3>2. b[i - (k - 1)] = ws[k + (i - (k - 1))]
      BY <3>1, <1>4, Zenon
    <3>3. k + (i - (k - 1)) = i + 1
      BY <1>2
    <3> QED
      BY <3>1, <3>2, <3>3, <2>2
  <2> QED
    BY <2>1, <2>2
<1> QED
  BY <1>5, <1>6, <1>7

\* cs is ws without some expired entries; f says where each entry was.
Drops(ws, cs, f) ==
    /\ cs \in Seq(WindowRow)
    /\ f \in [DOMAIN cs -> DOMAIN ws]
    /\ \A i \in DOMAIN cs : cs[i] = ws[f[i]]
    /\ \A i, j \in DOMAIN cs : i < j => f[i] < f[j]
    /\ \A k \in DOMAIN ws : Expired(ws[k]) \/ \E i \in DOMAIN cs : f[i] = k

Sound(ws) == Table(ws) /\ Counted(ws) /\ Remembered(ws)

LEMMA DropsKeep ==
    ASSUME Clocks, NEW ws, Sound(ws), NEW cs, NEW f, Drops(ws, cs, f)
    PROVE  Sound(cs)
<1>1. /\ cs \in Seq(WindowRow) /\ f \in [DOMAIN cs -> DOMAIN ws]
      /\ \A i \in DOMAIN cs : f[i] \in DOMAIN ws /\ cs[i] = ws[f[i]]
      /\ \A i, j \in DOMAIN cs : i < j => f[i] < f[j]
  BY DEF Drops
<1>2. InOrder(cs)
  BY <1>1 DEF InOrder, Sound, Table
<1>3. Table(cs)
  BY <1>1, <1>2 DEF Sound, Table
<1>4. Counted(cs)
  BY <1>1 DEF Sound, Counted
<1>5. Remembered(cs)
  <2> SUFFICES ASSUME NEW ip \in Ips, Running(ip)
               PROVE  \E i \in DOMAIN cs : cs[i].key = ip /\ ~Expired(cs[i])
    BY DEF Remembered
  <2>1. PICK k \in DOMAIN ws : ws[k].key = ip /\ ~Expired(ws[k])
    BY DEF Sound, Remembered
  <2>2. PICK i \in DOMAIN cs : f[i] = k
    BY <2>1 DEF Drops
  <2> QED
    BY <1>1, <2>1, <2>2
<1> QED
  BY <1>3, <1>4, <1>5 DEF Sound

\* What a request finds: no running window was dropped, its own is there only
\* if it runs, and a table as long as before has nothing but running windows.
LEMMA CurrentIs ==
    ASSUME StoreInv, NEW ip \in Ips
    PROVE  /\ Sound(Current(ip))
           /\ Len(Current(ip)) <= Len(windows)
           /\ \A i \in DOMAIN Current(ip) :
                  Current(ip)[i].key = ip => ~Expired(Current(ip)[i])
           /\ Len(Current(ip)) >= Len(windows) =>
                  \A i \in DOMAIN Current(ip) : ~Expired(Current(ip)[i])
<1>1. Clocks /\ Sound(windows) /\ Table(windows) /\ windows \in Seq(WindowRow)
  BY DEF StoreInv, Sound, Table
<1>2. PICK n \in 0..Len(windows) :
        /\ Cleaned(windows) = SubSeq(windows, n + 1, Len(windows))
        /\ \A i \in 1..n : Expired(windows[i])
        /\ n = 0 => \A i \in DOMAIN windows : ~Expired(windows[i])
  BY <1>1, CleanedIs
<1>3. PICK ws : ws = Cleaned(windows)
  OBVIOUS
<1>4. /\ ws \in Seq(WindowRow) /\ Len(ws) = Len(windows) - n
      /\ \A i \in 1..Len(ws) : ws[i] = windows[i + n]
      /\ DOMAIN ws = 1..Len(ws) /\ DOMAIN windows = 1..Len(windows)
      /\ Len(ws) \in Nat /\ Len(windows) \in Nat
  <2>1. Len(windows) \in Nat /\ DOMAIN windows = 1..Len(windows)
        /\ \A i \in 1..Len(windows) : windows[i] \in WindowRow
    BY <1>1
  <2>2. /\ ws \in Seq(WindowRow)
        /\ Len(ws) = IF n + 1 <= Len(windows) THEN Len(windows) - (n + 1) + 1 ELSE 0
        /\ \A i \in 1..Len(windows) - (n + 1) + 1 : ws[i] = windows[n + 1 + i - 1]
    BY <1>2, <1>3, <2>1, SubSeqProperties
  <2>3. n \in Nat /\ n <= Len(windows)
    BY <2>1
  <2>4. Len(ws) = Len(windows) - n
    BY <2>1, <2>2, <2>3
  <2>5. ASSUME NEW i \in 1..Len(ws)
        PROVE  ws[i] = windows[i + n]
    <3>1. n + 1 + i - 1 = i + n /\ i \in 1..Len(windows) - (n + 1) + 1
      BY <2>1, <2>3, <2>4
    <3> QED
      BY <2>2, <3>1
  <2>6. ws \in Seq(WindowRow) /\ DOMAIN ws = 1..Len(ws) /\ Len(ws) \in Nat
    BY <2>2
  <2> QED
    BY <2>1, <2>4, <2>5, <2>6
<1>5. Sound(ws)
  <2>1. PICK f : f = [i \in 1..Len(ws) |-> i + n]
    OBVIOUS
  <2>2. f \in [DOMAIN ws -> DOMAIN windows]
    <3>1. \A i \in 1..Len(ws) : i + n \in 1..Len(windows)
      BY <1>2, <1>4
    <3> QED
      BY <1>4, <2>1, <3>1
  <2>3. \A i \in DOMAIN ws : ws[i] = windows[f[i]]
    <3>1. \A i \in DOMAIN ws : f[i] = i + n
      BY <1>4, <2>1
    <3> QED
      BY <1>4, <3>1
  <2>4. \A i, j \in DOMAIN ws : i < j => f[i] < f[j]
    BY <1>2, <1>4, <2>1
  <2>5. ASSUME NEW k \in DOMAIN windows, ~Expired(windows[k])
        PROVE  \E i \in DOMAIN ws : f[i] = k
    <3>1. k - n \in DOMAIN ws /\ f[k - n] = k
      BY <1>2, <1>4, <2>1, <2>5
    <3> QED
      BY <3>1
  <2>6. Drops(windows, ws, f)
    BY <1>4, <2>2, <2>3, <2>4, <2>5 DEF Drops
  <2> QED
    BY <1>1, <2>6, DropsKeep
<1>6. PICK stale : stale = {i \in DOMAIN ws : ws[i].key = ip /\ Expired(ws[i])}
  OBVIOUS
<1>7. Current(ip) = IF stale = {} THEN ws ELSE RemoveAt(ws, CHOOSE i \in stale : TRUE)
  BY <1>3, <1>6 DEF Current
<1>8. CASE stale = {}
  <2>1. Current(ip) = ws
    BY <1>7, <1>8
  <2>2. \A i \in DOMAIN ws : ws[i].key = ip => ~Expired(ws[i])
    BY <1>6, <1>8
  <2>3. Len(ws) >= Len(windows) => n = 0 /\ \A i \in DOMAIN ws : ~Expired(ws[i])
    BY <1>2, <1>4
  <2>4. Len(ws) <= Len(windows)
    BY <1>2, <1>4
  <2> QED
    BY <1>5, <2>1, <2>2, <2>3, <2>4
<1>9. CASE stale # {}
  <2>1. PICK k \in stale : Current(ip) = RemoveAt(ws, k)
    BY <1>7, <1>9
  <2>2. k \in DOMAIN ws /\ ws[k].key = ip /\ Expired(ws[k])
    BY <1>6, <2>1
  <2>3. PICK cs : cs = Current(ip)
    OBVIOUS
  <2>4. /\ cs \in Seq(WindowRow) /\ Len(cs) = Len(ws) - 1
        /\ \A i \in 1..Len(ws) - 1 : cs[i] = ws[IF i < k THEN i ELSE i + 1]
        /\ DOMAIN cs = 1..Len(ws) - 1
    <3>1. /\ cs \in Seq(WindowRow) /\ Len(cs) = Len(ws) - 1
          /\ \A i \in 1..Len(ws) - 1 : cs[i] = ws[IF i < k THEN i ELSE i + 1]
      BY <1>4, <2>1, <2>2, <2>3, RemovedIs
    <3>2. DOMAIN cs = 1..Len(cs)
      BY <3>1
    <3> QED
      BY <3>1, <3>2
  <2>5. PICK f : f = [i \in 1..Len(ws) - 1 |-> IF i < k THEN i ELSE i + 1]
    OBVIOUS
  <2>6. f \in [DOMAIN cs -> DOMAIN ws]
    <3>1. \A i \in 1..Len(ws) - 1 : (IF i < k THEN i ELSE i + 1) \in 1..Len(ws)
      BY <1>4, <2>2
    <3> QED
      BY <1>4, <2>4, <2>5, <3>1
  <2>7. \A i \in DOMAIN cs : cs[i] = ws[f[i]] /\ f[i] # k
    BY <1>4, <2>2, <2>4, <2>5
  <2>8. \A i, j \in DOMAIN cs : i < j => f[i] < f[j]
    BY <1>4, <2>2, <2>4, <2>5
  <2>9. ASSUME NEW j \in DOMAIN ws, j # k
        PROVE  \E i \in DOMAIN cs : f[i] = j
    <3>1. CASE j < k
      BY <3>1, <1>4, <2>2, <2>4, <2>5
    <3>2. CASE j > k
      <4>1. j - 1 \in DOMAIN cs /\ f[j - 1] = j
        BY <3>2, <1>4, <2>2, <2>4, <2>5
      <4> QED
        BY <4>1
    <3> QED
      BY <3>1, <3>2, <2>9, <1>4, <2>2
  <2>10. Drops(ws, cs, f)
    BY <2>2, <2>4, <2>6, <2>7, <2>8, <2>9 DEF Drops
  <2>11. Sound(cs)
    BY <1>1, <1>5, <2>10, DropsKeep
  <2>12. \A i \in DOMAIN cs : cs[i].key # ip
    <3> TAKE i \in DOMAIN cs
    <3>1. f[i] \in DOMAIN ws /\ f[i] # k /\ cs[i] = ws[f[i]]
      BY <2>6, <2>7
    <3>2. f[i] < k \/ k < f[i]
      BY <1>4, <2>2, <3>1
    <3> QED
      BY <1>5, <2>2, <3>1, <3>2 DEF Sound, Table, InOrder
  <2>13. Len(cs) < Len(windows)
    BY <1>2, <1>4, <2>4
  <2> QED
    BY <2>3, <2>11, <2>12, <2>13, <1>4, <2>4
<1> QED
  BY <1>8, <1>9

LEMMA OwnWindowIs ==
    ASSUME StoreInv, NEW ip \in Ips, Tracked(ip)
    PROVE  \E k \in DOMAIN Current(ip) :
              /\ OwnWindow(ip) = Current(ip)[k] /\ Current(ip)[k].key = ip
              /\ ~Expired(Current(ip)[k])
<1>1. PICK k \in DOMAIN Current(ip) : Current(ip)[k].key = ip
  BY DEF Tracked
<1>2. PICK S : S = {Current(ip)[i] : i \in DOMAIN Current(ip)}
  OBVIOUS
<1>3. OwnWindow(ip) \in S /\ OwnWindow(ip).key = ip
  BY <1>1, <1>2 DEF OwnWindow
<1>4. PICK j \in DOMAIN Current(ip) : OwnWindow(ip) = Current(ip)[j]
  BY <1>2, <1>3
<1> QED
  BY <1>3, <1>4, CurrentIs

\* An address that is not tracked has no running window.
LEMMA UntrackedIsIdle ==
    ASSUME StoreInv, NEW ip \in Ips, ~Tracked(ip)
    PROVE  ~Running(ip) /\ \A i \in DOMAIN Current(ip) : Current(ip)[i].key # ip
BY CurrentIs DEF Sound, Remembered, Tracked

-----------------------------------------------------------------------------
(***************************************************************************)
(* The steps.                                                              *)
(***************************************************************************)

\* Time passes: windows end, none begins.
LEMMA TickKeeps ==
    ASSUME StoreInv, Tick
    PROVE  StoreInv'
<1>1. /\ now' = now + 1 /\ now < MaxTime /\ windows' = windows /\ opened' = opened
      /\ since' = since /\ now \in 0..MaxTime /\ MaxTime \in Nat /\ Window \in Nat
  BY Parameters DEF Tick, StoreInv, Clocks
<1>2. Clocks'
  BY <1>1 DEF StoreInv, Clocks, Never
<1>3. \A i \in DOMAIN windows : windows[i] \in WindowRow
  BY DEF StoreInv, Table
<1>4. \A i \in DOMAIN windows : ~Expired(windows[i])' => ~Expired(windows[i])
  BY <1>1, <1>3 DEF Expired, WindowRow
<1>5. Table(windows)'
  BY <1>1, <1>3 DEF StoreInv, Table, InOrder, WindowRow
<1>6. Counted(windows)'
  BY <1>1, <1>4 DEF StoreInv, Counted
<1>7. Remembered(windows)'
  <2> SUFFICES ASSUME NEW ip \in Ips, Running(ip)'
               PROVE  \E i \in DOMAIN windows : windows[i].key = ip /\ ~Expired(windows[i])'
    BY <1>1 DEF Remembered
  <2>1. opened[ip] # Never /\ opened[ip] \in Nat /\ now + 1 < opened[ip] + Window
    BY <1>1 DEF Running, StoreInv, Clocks
  <2>2. Running(ip)
    BY <1>1, <2>1 DEF Running
  <2>3. PICK i \in DOMAIN windows : windows[i].key = ip /\ ~Expired(windows[i])
    BY <2>2 DEF StoreInv, Remembered
  <2>4. windows[i].expires_at = opened[ip] + Window
    BY <2>3 DEF StoreInv, Counted
  <2>5. ~Expired(windows[i])'
    BY <1>1, <2>1, <2>4 DEF Expired
  <2> QED
    BY <2>3, <2>5
<1> QED
  BY <1>1, <1>2, <1>5, <1>6, <1>7 DEF StoreInv

\* A table that is written while the clock and the history stand still.
LEMMA SoundTable ==
    ASSUME NEW cs, Sound(cs), Clocks, Len(cs) <= Capacity,
           windows' = cs, UNCHANGED <<now, opened, since>>
    PROVE  StoreInv'
BY DEF StoreInv, Sound, Clocks, Table, InOrder, Counted, Remembered, Running, Expired

LEMMA RefuseKeeps ==
    ASSUME StoreInv, NEW ip \in Ips, Refuse(ip)
    PROVE  StoreInv' /\ UntrackedOnlyWhenFull' /\ RetryAfterIsTight'
<1>1. PICK cs : cs = Current(ip)
  OBVIOUS
<1>2. /\ Sound(cs) /\ Len(cs) <= Len(windows) /\ Len(windows) <= Capacity
      /\ windows' = cs /\ UNCHANGED <<now, opened, since>> /\ Clocks
  BY <1>1, CurrentIs DEF Refuse, StoreInv
<1>3. Len(cs) \in Nat /\ Len(windows) \in Nat /\ Capacity \in Nat /\ cs \in Seq(WindowRow)
  BY <1>2, Parameters DEF Sound, Table, StoreInv
<1>4. StoreInv'
  BY <1>2, <1>3, SoundTable
<1>5. PICK k \in DOMAIN cs : OwnWindow(ip) = cs[k] /\ ~Expired(cs[k])
  BY <1>1, OwnWindowIs DEF Refuse
<1>6. PICK w : w = OwnWindow(ip)
  OBVIOUS
<1>7. w.expires_at \in Nat /\ now \in Nat /\ w.expires_at > now
  <2>1. cs[k] \in WindowRow
    BY <1>3
  <2> QED
    BY <1>2, <1>5, <1>6, <2>1, Parameters DEF WindowRow, Expired, Clocks
<1>8. /\ answer'.outcome = "limited" /\ answer'.retry_after = RetryAfter(w)
      /\ answer'.until = w.expires_at
  BY <1>6 DEF Refuse
<1>9. PICK q : q = (w.expires_at - now + TicksPerSecond - 1) \div TicksPerSecond
  OBVIOUS
<1>10. /\ q \in Nat /\ q >= 1 /\ q * TicksPerSecond >= w.expires_at - now
       /\ (q - 1) * TicksPerSecond < w.expires_at - now
  <2>1. PICK y \in Nat : y = w.expires_at - now /\ y >= 1
    BY <1>7
  <2>2. q = (y + TicksPerSecond - 1) \div TicksPerSecond
    BY <1>9, <2>1
  <2>3. q \in Nat /\ q >= 1 /\ q * TicksPerSecond >= y /\ (q - 1) * TicksPerSecond < y
    BY <2>1, <2>2, Parameters, RoundedUp
  <2> QED
    BY <2>1, <2>3
<1>11. RetryAfter(w) = q
  BY <1>9, <1>10, MaxOfTwo DEF RetryAfter
<1>12. PICK a, b \in Int : a = q * TicksPerSecond /\ b = (q - 1) * TicksPerSecond
  BY <1>10, Parameters
<1>13. now + a >= w.expires_at /\ now + b < w.expires_at
  BY <1>7, <1>10, <1>12
<1>14. RetryAfterIsTight'
  BY <1>2, <1>8, <1>11, <1>12, <1>13 DEF RetryAfterIsTight
<1>15. UntrackedOnlyWhenFull'
  BY <1>2, <1>3, <1>8 DEF UntrackedOnlyWhenFull
<1> QED
  BY <1>4, <1>14, <1>15

LEMMA CountUpKeeps ==
    ASSUME StoreInv, NEW ip \in Ips, CountUp(ip)
    PROVE  StoreInv' /\ UntrackedOnlyWhenFull' /\ RetryAfterIsTight'
<1>1. PICK cs : cs = Current(ip)
  OBVIOUS
<1>2. /\ Table(cs) /\ Counted(cs) /\ Remembered(cs)
      /\ Len(cs) <= Len(windows) /\ Len(windows) <= Capacity
      /\ now' = now /\ opened' = opened /\ Clocks
      /\ since' = [since EXCEPT ![ip] = since[ip] + 1]
      /\ windows' = [i \in DOMAIN cs |-> IF cs[i].key = ip
                                         THEN [cs[i] EXCEPT !.count = cs[i].count + 1]
                                         ELSE cs[i]]
      /\ answer' = [outcome |-> "admitted", ip |-> ip]
  BY <1>1, CurrentIs DEF CountUp, StoreInv, Sound
<1>3. /\ Len(cs) \in Nat /\ Len(windows) \in Nat /\ Capacity \in Nat /\ cs \in Seq(WindowRow)
      /\ DOMAIN cs = 1..Len(cs) /\ \A i \in DOMAIN cs : cs[i] \in WindowRow
  BY <1>2, Parameters DEF Table, StoreInv
<1>4. PICK k \in DOMAIN cs : /\ OwnWindow(ip) = cs[k] /\ cs[k].key = ip /\ ~Expired(cs[k])
                             /\ ~(cs[k].count >= Limit)
  <2>1. PICK k \in DOMAIN cs : OwnWindow(ip) = cs[k] /\ cs[k].key = ip /\ ~Expired(cs[k])
    BY <1>1, OwnWindowIs DEF CountUp
  <2> QED
    BY <2>1 DEF CountUp, Exhausted
<1>5. \A i \in DOMAIN cs : cs[i].key = ip => i = k
  <2> TAKE i \in DOMAIN cs
  <2>1. i < k \/ k < i \/ i = k
    BY <1>3
  <2> QED
    BY <1>2, <1>4, <2>1 DEF Table, InOrder
<1>6. PICK row : row = [cs[k] EXCEPT !.count = cs[k].count + 1]
  OBVIOUS
<1>7. /\ row \in WindowRow /\ row.key = ip /\ row.expires_at = cs[k].expires_at
      /\ row.count = cs[k].count + 1
  <2>1. cs[k] \in WindowRow /\ cs[k].count \in 1..Limit /\ cs[k].count + 1 \in 1..Limit
    BY <1>3, <1>4, Parameters DEF WindowRow
  <2> QED
    BY <1>4, <1>6, <2>1 DEF WindowRow
<1>8. windows' = [i \in 1..Len(cs) |-> IF i = k THEN row ELSE cs[i]]
  BY <1>2, <1>3, <1>4, <1>5, <1>6
<1>9. /\ windows' \in Seq(WindowRow) /\ Len(windows') = Len(cs) /\ DOMAIN windows' = DOMAIN cs
      /\ windows'[k] = row /\ \A i \in DOMAIN cs : i # k => windows'[i] = cs[i]
  BY <1>3, <1>7, <1>8
<1>10. \A i \in DOMAIN cs : /\ windows'[i].key = cs[i].key
                            /\ windows'[i].expires_at = cs[i].expires_at
  BY <1>4, <1>7, <1>9
<1>11. Table(windows)'
  BY <1>2, <1>9, <1>10 DEF Table, InOrder
<1>12. Counted(windows)'
  <2> SUFFICES ASSUME NEW i \in DOMAIN cs, ~Expired(cs[i])
               PROVE  /\ opened[cs[i].key] # Never
                      /\ cs[i].expires_at = opened[cs[i].key] + Window
                      /\ windows'[i].count = since'[cs[i].key]
    BY <1>2, <1>9, <1>10 DEF Counted, Expired
  <2>1. /\ opened[cs[i].key] # Never /\ cs[i].expires_at = opened[cs[i].key] + Window
        /\ cs[i].count = since[cs[i].key] /\ cs[i].key \in Ips
    BY <1>2, <1>3 DEF Counted, WindowRow
  <2>2. since' \in [Ips -> Nat] /\ since'[ip] = since[ip] + 1
        /\ \A a \in Ips : a # ip => since'[a] = since[a]
    BY <1>2 DEF Clocks
  <2>3. windows'[i].count = since'[cs[i].key]
    BY <2>1, <2>2, <1>4, <1>5, <1>7, <1>9
  <2> QED
    BY <2>1, <2>3
<1>13. Remembered(windows)'
  BY <1>2, <1>9, <1>10 DEF Remembered, Running, Expired
<1>14. Clocks'
  BY <1>2 DEF Clocks
<1>15. StoreInv'
  BY <1>2, <1>3, <1>9, <1>11, <1>12, <1>13, <1>14 DEF StoreInv
<1> QED
  BY <1>2, <1>3, <1>9, <1>15 DEF UntrackedOnlyWhenFull, RetryAfterIsTight

LEMMA AdmitUntrackedKeeps ==
    ASSUME StoreInv, NEW ip \in Ips, AdmitUntracked(ip)
    PROVE  StoreInv' /\ UntrackedOnlyWhenFull' /\ RetryAfterIsTight'
<1>1. PICK cs : cs = Current(ip)
  OBVIOUS
<1>2. /\ Table(cs) /\ Counted(cs) /\ Remembered(cs)
      /\ Len(cs) <= Len(windows) /\ Len(windows) <= Capacity /\ Len(cs) >= Capacity
      /\ Len(cs) >= Len(windows) => \A i \in DOMAIN cs : ~Expired(cs[i])
      /\ now' = now /\ opened' = opened /\ Clocks /\ windows' = cs
      /\ answer' = [outcome |-> "untracked", ip |-> ip]
  BY <1>1, CurrentIs DEF AdmitUntracked, Full, StoreInv, Sound
<1>3. ~Running(ip) /\ \A i \in DOMAIN cs : cs[i].key # ip
  BY <1>1, UntrackedIsIdle DEF AdmitUntracked
<1>4. since' = [since EXCEPT ![ip] = 0]
  BY <1>3 DEF AdmitUntracked
<1>5. /\ Len(cs) \in Nat /\ Len(windows) \in Nat /\ Capacity \in Nat /\ cs \in Seq(WindowRow)
      /\ \A i \in DOMAIN cs : cs[i] \in WindowRow
  BY <1>2, Parameters DEF Table, StoreInv
<1>6. Clocks'
  BY <1>2, <1>4 DEF Clocks
<1>7. \A i \in DOMAIN cs : since'[cs[i].key] = since[cs[i].key]
  BY <1>2, <1>3, <1>4, <1>5 DEF Clocks, WindowRow
<1>8. Table(windows)' /\ Counted(windows)' /\ Remembered(windows)'
  BY <1>2, <1>7 DEF Table, InOrder, Counted, Remembered, Running, Expired
<1>9. StoreInv'
  BY <1>2, <1>5, <1>6, <1>8 DEF StoreInv
<1>10. UntrackedOnlyWhenFull'
  BY <1>2, <1>3, <1>5 DEF UntrackedOnlyWhenFull, Expired
<1> QED
  BY <1>2, <1>9, <1>10 DEF RetryAfterIsTight

LEMMA OpenWindowKeeps ==
    ASSUME StoreInv, NEW ip \in Ips, OpenWindow(ip)
    PROVE  StoreInv' /\ UntrackedOnlyWhenFull' /\ RetryAfterIsTight'
<1>1. PICK cs : cs = Current(ip)
  OBVIOUS
<1>2. PICK row : row = NewWindow(ip)
  OBVIOUS
<1>3. /\ Table(cs) /\ Counted(cs) /\ Remembered(cs) /\ ~(Len(cs) >= Capacity)
      /\ now' = now /\ Clocks /\ windows' = Append(cs, row)
      /\ answer' = [outcome |-> "admitted", ip |-> ip]
  BY <1>1, <1>2, CurrentIs DEF OpenWindow, Entered, Full, StoreInv, Sound
<1>4. ~Running(ip) /\ \A i \in DOMAIN cs : cs[i].key # ip
  BY <1>1, UntrackedIsIdle DEF OpenWindow
<1>5. since' = [since EXCEPT ![ip] = 1] /\ opened' = [opened EXCEPT ![ip] = now]
  BY <1>4 DEF OpenWindow
<1>6. /\ Len(cs) \in Nat /\ Capacity \in Nat /\ cs \in Seq(WindowRow) /\ DOMAIN cs = 1..Len(cs)
      /\ \A i \in DOMAIN cs : cs[i] \in WindowRow
      /\ now \in Nat /\ now <= MaxTime /\ MaxTime \in Nat /\ Window \in Nat /\ Window >= 1
      /\ Limit \in Nat /\ Limit >= 1
  BY <1>3, Parameters DEF Table, StoreInv, Clocks
<1>7. row \in WindowRow /\ row.key = ip /\ row.expires_at = now + Window /\ row.count = 1
  BY <1>2, <1>6 DEF NewWindow, WindowRow
<1>8. /\ windows' \in Seq(WindowRow) /\ Len(windows') = Len(cs) + 1
      /\ DOMAIN windows' = 1..Len(cs) + 1
      /\ windows'[Len(cs) + 1] = row /\ \A i \in 1..Len(cs) : windows'[i] = cs[i]
  BY <1>3, <1>6, <1>7
<1>9. Clocks'
  BY <1>3, <1>5, <1>6 DEF Clocks, Never
<1>10. /\ opened'[ip] = now /\ since'[ip] = 1
       /\ \A a \in Ips : a # ip => opened'[a] = opened[a] /\ since'[a] = since[a]
  BY <1>3, <1>5 DEF Clocks
<1>11. Table(windows)'
  <2>1. ASSUME NEW i \in 1..Len(cs) + 1
        PROVE  windows'[i].expires_at <= now + Window
    BY <1>3, <1>6, <1>7, <1>8 DEF Table
  <2>2. ASSUME NEW i \in 1..Len(cs) + 1, NEW j \in 1..Len(cs) + 1, i < j
        PROVE  windows'[i].expires_at <= windows'[j].expires_at /\ windows'[i].key # windows'[j].key
    <3>1. CASE j = Len(cs) + 1
      <4>1. i \in DOMAIN cs /\ windows'[i] = cs[i] /\ windows'[j] = row
        BY <1>6, <1>8, <2>2, <3>1
      <4> QED
        BY <4>1, <1>3, <1>4, <1>7 DEF Table
    <3>2. CASE j # Len(cs) + 1
      <4>1. i \in DOMAIN cs /\ j \in DOMAIN cs /\ windows'[i] = cs[i] /\ windows'[j] = cs[j]
        BY <1>6, <1>8, <2>2, <3>2
      <4> QED
        BY <4>1, <1>3, <2>2 DEF Table, InOrder
    <3> QED
      BY <3>1, <3>2
  <2> QED
    BY <1>3, <1>8, <2>1, <2>2 DEF Table, InOrder
<1>12. Counted(windows)'
  <2> SUFFICES ASSUME NEW i \in 1..Len(cs) + 1, ~Expired(windows[i])'
               PROVE  /\ opened'[windows'[i].key] # Never
                      /\ windows'[i].expires_at = opened'[windows'[i].key] + Window
                      /\ windows'[i].count = since'[windows'[i].key]
    BY <1>8 DEF Counted
  <2>1. CASE i = Len(cs) + 1
    BY <2>1, <1>6, <1>7, <1>8, <1>10 DEF Never
  <2>2. CASE i # Len(cs) + 1
    <3>1. i \in DOMAIN cs /\ windows'[i] = cs[i] /\ cs[i].key \in Ips /\ cs[i].key # ip
      <4>1. i \in 1..Len(cs)
        BY <2>2, <1>6
      <4>2. cs[i] \in WindowRow
        BY <4>1, <1>6
      <4> QED
        BY <4>1, <4>2, <1>4, <1>6, <1>8 DEF WindowRow
    <3>2. ~Expired(cs[i])
      BY <1>3, <3>1 DEF Expired
    <3> QED
      BY <1>3, <1>10, <3>1, <3>2 DEF Counted
  <2> QED
    BY <2>1, <2>2
<1>13. Remembered(windows)'
  <2> SUFFICES ASSUME NEW a \in Ips, Running(a)'
               PROVE  \E i \in 1..Len(cs) + 1 : windows'[i].key = a /\ ~Expired(windows[i])'
    BY <1>8 DEF Remembered
  <2>1. CASE a = ip
    <3>1. ~Expired(windows[Len(cs) + 1])'
      BY <1>3, <1>6, <1>7, <1>8 DEF Expired
    <3>2. Len(cs) + 1 \in 1..Len(cs) + 1
      BY <1>6
    <3> QED
      BY <2>1, <3>1, <3>2, <1>7, <1>8
  <2>2. CASE a # ip
    <3>1. Running(a)
      BY <2>2, <1>3, <1>10 DEF Running
    <3>2. PICK i \in DOMAIN cs : cs[i].key = a /\ ~Expired(cs[i])
      BY <1>3, <3>1 DEF Remembered
    <3>3. i \in 1..Len(cs) + 1 /\ windows'[i] = cs[i]
      BY <1>6, <1>8, <3>2
    <3> QED
      BY <1>3, <3>2, <3>3 DEF Expired
  <2> QED
    BY <2>1, <2>2
<1>14. Len(windows') <= Capacity
  BY <1>3, <1>6, <1>8
<1>15. StoreInv'
  BY <1>9, <1>11, <1>12, <1>13, <1>14 DEF StoreInv
<1> QED
  BY <1>3, <1>14, <1>15 DEF UntrackedOnlyWhenFull, RetryAfterIsTight

\* A step that leaves the store, the clock and the history alone.
LEMMA StoreUnchanged ==
    ASSUME StoreInv, UNCHANGED <<now, windows, opened, since>>
    PROVE  StoreInv'
BY DEF StoreInv, Clocks, Table, InOrder, Counted, Remembered, Running, Expired

LEMMA QuotaStep ==
    ASSUME QuotaInv, [Next]_vars
    PROVE  QuotaInv'
<1>1. StoreInv
  BY DEF QuotaInv
<1>2. /\ Len(windows) \in Nat /\ Capacity \in Nat
  BY <1>1, Parameters DEF StoreInv, Table
<1>3. CASE Tick
  <2>1. StoreInv' /\ answer' = NoAnswer
    BY <1>1, <1>3, TickKeeps DEF Tick
  <2> QED
    BY <2>1 DEF QuotaInv, StoreInv, UntrackedOnlyWhenFull, RetryAfterIsTight, NoAnswer
<1>4. ASSUME NEW outcome \in {"origin", "csrf", "unlimited", "unresolved"}, Answered(outcome)
      PROVE  QuotaInv'
  <2>1. StoreInv' /\ answer'.outcome = outcome
    BY <1>1, <1>4, StoreUnchanged DEF Answered
  <2> QED
    BY <2>1, <1>4 DEF QuotaInv, StoreInv, UntrackedOnlyWhenFull, RetryAfterIsTight
<1>5. ASSUME NEW ip \in Ips, consume(ip)
      PROVE  QuotaInv'
  <2>1. CASE Refuse(ip)
    BY <1>1, <2>1, RefuseKeeps DEF QuotaInv
  <2>2. CASE CountUp(ip)
    BY <1>1, <2>2, CountUpKeeps DEF QuotaInv
  <2>3. CASE AdmitUntracked(ip)
    BY <1>1, <2>3, AdmitUntrackedKeeps DEF QuotaInv
  <2>4. CASE OpenWindow(ip)
    BY <1>1, <2>4, OpenWindowKeeps DEF QuotaInv
  <2> QED
    BY <1>5, <2>1, <2>2, <2>3, <2>4 DEF consume
<1>6. CASE check
  BY <1>4, <1>5, <1>6 DEF check, OriginNotAllowed, CsrfValidationFailed, Unlimited,
                          ClientIpUnresolved, Consume
<1>7. CASE UNCHANGED vars
  <2>1. StoreInv' /\ answer' = answer /\ now' = now /\ windows' = windows
    BY <1>1, <1>7, StoreUnchanged DEF vars
  <2> QED
    BY <2>1 DEF QuotaInv, UntrackedOnlyWhenFull, RetryAfterIsTight, Expired
<1> QED
  BY <1>3, <1>6, <1>7 DEF Next

LEMMA QuotaStart == Init => QuotaInv
<1> SUFFICES ASSUME Init PROVE QuotaInv
  OBVIOUS
<1>1. /\ windows = << >> /\ Len(windows) = 0 /\ DOMAIN windows = {}
      /\ windows \in Seq(WindowRow)
  BY DEF Init
<1>2. Clocks /\ \A ip \in Ips : ~Running(ip)
  BY Parameters DEF Init, Clocks, Running
<1>3. Table(windows) /\ Counted(windows) /\ Remembered(windows)
  BY <1>1, <1>2 DEF Table, InOrder, Counted, Remembered
<1>4. StoreInv
  BY <1>1, <1>2, <1>3, Parameters DEF StoreInv
<1> QED
  BY <1>4 DEF Init, NoAnswer, QuotaInv, StoreInv, UntrackedOnlyWhenFull, RetryAfterIsTight

-----------------------------------------------------------------------------
(***************************************************************************)
(* The theorems.                                                           *)
(***************************************************************************)

\* The inductive invariant: the table of InMemoryRateLimitStore is in expiry
\* order, without duplicates, and remembers every running window.
THEOREM StoreIsSound == Spec => []QuotaInv
<1>1. Init => QuotaInv
  BY QuotaStart
<1>2. QuotaInv /\ [Next]_vars => QuotaInv'
  BY QuotaStep
<1> QED
  BY <1>1, <1>2, PTL DEF Spec

\* consume: an address has at most Limit requests admitted until its window
\* ends, whatever is cleaned up and whoever else fills the table, and a
\* running window counts exactly the requests it admitted.
THEOREM QuotaAlwaysHolds == Spec => []QuotaHolds
<1>1. ASSUME StoreInv, NEW ip \in Ips, Running(ip)
      PROVE  since[ip] <= Limit
  <2>1. PICK i \in DOMAIN windows : windows[i].key = ip /\ ~Expired(windows[i])
    BY <1>1 DEF StoreInv, Remembered
  <2>2. windows[i].count = since[ip]
    BY <1>1, <2>1 DEF StoreInv, Counted
  <2>3. windows[i] \in WindowRow
    BY <1>1, <2>1 DEF StoreInv, Table
  <2> QED
    BY <2>2, <2>3, Parameters DEF WindowRow
<1>2. QuotaInv => QuotaHolds
  BY <1>1 DEF QuotaInv, StoreInv, Counted, QuotaHolds
<1> QED
  BY <1>2, StoreIsSound, PTL

\* consume: a request goes untracked only while the table is full of windows
\* that all still run.
THEOREM UntrackedMeansFull == Spec => []UntrackedOnlyWhenFull
<1>1. QuotaInv => UntrackedOnlyWhenFull
  BY DEF QuotaInv
<1> QED
  BY <1>1, StoreIsSound, PTL

\* retry_after is never early and less than a second late, at any resolution
\* of the clock.
THEOREM RetryAfterStaysTight == Spec => []RetryAfterIsTight
<1>1. QuotaInv => RetryAfterIsTight
  BY DEF QuotaInv
<1> QED
  BY <1>1, StoreIsSound, PTL

-----------------------------------------------------------------------------
(***************************************************************************)
(* The event queue keeps the accepted events in order, for every capacity  *)
(* and every number of events.                                             *)
(*                                                                         *)
(* The order alone is not inductive: a shutdown overwrites what an earlier *)
(* one discarded, and a late put would follow the discarded events.  The   *)
(* invariant adds why neither happens: the queue is shut, and the sink     *)
(* admits nothing, from the moment aclose begins (Admission), nothing is   *)
(* discarded before aclose returns, and the writer holds an event exactly  *)
(* while it writes (WriterState).                                          *)
(***************************************************************************)
QueueTypeOK ==
    /\ accepting \in BOOLEAN /\ shut \in BOOLEAN
    /\ closing \in {"no", "joining", "returned"}
    /\ writer \in {"new", "waiting", "writing", "gone"}
    /\ emitted \in Nat
    /\ queue \in Seq(Nat) /\ current \in Seq(Nat)
    /\ accepted \in Seq(Nat) /\ handled \in Seq(Nat) /\ discarded \in Seq(Nat)

\* From BeginClose on the queue takes nothing.
Admission ==
    /\ shut <=> closing # "no"
    /\ closing # "returned" => discarded = <<>>

WriterState ==
    /\ writer # "writing" => current = <<>>
    /\ writer = "gone" => shut /\ queue = <<>>

QueueInv == QueueTypeOK /\ Admission /\ WriterState /\ EventsKeepOrder

\* The order in which parts are joined does not matter.
LEMMA Regroup ==
    \A a, b, c \in Seq(Nat) : (a \o b) \o c = a \o (b \o c)
<1> TAKE a, b, c \in Seq(Nat)
<1> QED BY ConcatAssociative, SMTT(30)

\* Where an event may be: moving the boundary between two neighbours of the
\* concatenation changes nothing.
LEMMA FourParts ==
    ASSUME NEW a \in Seq(Nat), NEW b \in Seq(Nat), NEW c \in Seq(Nat), NEW d \in Seq(Nat)
    PROVE  /\ a \o b \o c \o d = (a \o b) \o (c \o d)
           /\ a \o b \o c \o <<>> = a \o b \o c
           /\ a \o b \o c \in Seq(Nat)
<1>1. a \o b \in Seq(Nat)
  BY ConcatProperties
<1>2. ((a \o b) \o c) \o d = (a \o b) \o (c \o d)
  BY <1>1, Regroup, Zenon
<1>3. (a \o b) \o c \in Seq(Nat)
  BY <1>1, ConcatProperties
<1>4. ((a \o b) \o c) \o <<>> = (a \o b) \o c
  BY <1>3, ConcatEmptySeq
<1> QED BY <1>2, <1>3, <1>4

\* get takes the oldest event: the writer's event and the queue, one after
\* the other, are the queue as it was.
LEMMA HeadThenTail ==
    ASSUME NEW q \in Seq(Nat), q # <<>>
    PROVE  /\ <<Head(q)>> \in Seq(Nat) /\ Tail(q) \in Seq(Nat)
           /\ <<Head(q)>> \o Tail(q) = q
<1>1. /\ Head(q) \in Nat /\ Tail(q) \in Seq(Nat) /\ Len(Tail(q)) = Len(q) - 1
      /\ \A i \in 1..Len(Tail(q)) : Tail(q)[i] = q[i + 1]
      /\ Len(q) \in Nat \ {0} /\ Head(q) = q[1]
  BY HeadTailProperties, EmptySeq
<1>2. <<Head(q)>> \in Seq(Nat) /\ Len(<<Head(q)>>) = 1 /\ <<Head(q)>>[1] = q[1]
  BY <1>1
<1>3. /\ <<Head(q)>> \o Tail(q) \in Seq(Nat)
      /\ Len(<<Head(q)>> \o Tail(q)) = Len(q)
      /\ \A i \in 1..Len(q) : (<<Head(q)>> \o Tail(q))[i] =
             IF i <= 1 THEN <<Head(q)>>[i] ELSE Tail(q)[i - 1]
  BY <1>1, <1>2, ConcatProperties
<1>4. \A i \in 1..Len(q) : (<<Head(q)>> \o Tail(q))[i] = q[i]
  <2> TAKE i \in 1..Len(q)
  <2>1. CASE i = 1
    BY <1>1, <1>2, <1>3, <2>1
  <2>2. CASE i # 1
    BY <1>1, <1>3, <2>2
  <2> QED BY <2>1, <2>2
<1> QED BY <1>1, <1>2, <1>3, <1>4, SeqEqual

LEMMA QueueInvInit == QueueInit => QueueInv
<1> SUFFICES ASSUME QueueInit PROVE QueueInv
  OBVIOUS
<1>1. QueueTypeOK /\ Admission /\ WriterState
  BY EmptySeq DEF QueueInit, QueueTypeOK, Admission, WriterState
<1>2. EventsKeepOrder
  BY EmptySeq, ConcatEmptySeq DEF QueueInit, EventsKeepOrder
<1> QED BY <1>1, <1>2 DEF QueueInv

\* Every step keeps the types, the admission state and the writer's state.
LEMMA QueueStateStep ==
    ASSUME QueueInv, [QueueNext]_queueVars
    PROVE  QueueTypeOK' /\ Admission' /\ WriterState'
<1> USE DEF QueueInv, QueueTypeOK, Admission, WriterState, flags
<1>1. CASE start
  BY <1>1 DEF start
<1>2. CASE emit
  <2>1. emitted' \in Nat /\ queue' \in Seq(Nat) /\ accepted' \in Seq(Nat)
    <3>1. emitted' \in Nat
      BY <1>2 DEF emit
    <3>2. Append(queue, emitted') \in Seq(Nat) /\ Append(accepted, emitted') \in Seq(Nat)
      BY <3>1, AppendProperties
    <3> QED BY <1>2, <3>1, <3>2 DEF emit
  <2>2. shut => queue' = queue
    BY <1>2 DEF emit
  <2> QED BY <1>2, <2>1, <2>2 DEF emit
<1>3. CASE get
  BY <1>3, HeadThenTail DEF get
<1>4. CASE Written
  BY <1>4, ConcatProperties DEF Written
<1>5. CASE Leave
  BY <1>5 DEF Leave
<1>6. CASE \E grace \in BOOLEAN : BeginClose(grace)
  BY <1>6, EmptySeq DEF BeginClose
<1>7. CASE Joined \/ GaveUp
  BY <1>7, EmptySeq DEF Joined, GaveUp, Discard
<1>8. CASE UNCHANGED queueVars
  BY <1>8 DEF queueVars
<1> QED BY <1>1, <1>2, <1>3, <1>4, <1>5, <1>6, <1>7, <1>8 DEF QueueNext

\* Every step keeps the order of the accepted events.
LEMMA QueueOrderStep ==
    ASSUME QueueInv, [QueueNext]_queueVars
    PROVE  EventsKeepOrder'
<1>0. /\ queue \in Seq(Nat) /\ current \in Seq(Nat) /\ accepted \in Seq(Nat)
      /\ handled \in Seq(Nat) /\ discarded \in Seq(Nat) /\ emitted \in Nat
      /\ QueueTypeOK' /\ Admission' /\ WriterState'
  BY QueueStateStep DEF QueueInv, QueueTypeOK
<1>a. accepted = handled \o current \o queue \o discarded
  BY DEF QueueInv, EventsKeepOrder
\* The last two conjuncts follow from the first and the new state.
<1>b. ASSUME accepted' = handled' \o current' \o queue' \o discarded',
             closing' = "returned" => queue' = <<>>
      PROVE  EventsKeepOrder'
  <2>1. ASSUME writer' = "gone", closing' = "joining" PROVE handled' = accepted'
    <3>1. queue' = <<>> /\ current' = <<>> /\ discarded' = <<>> /\ handled' \in Seq(Nat)
      BY <1>0, <2>1 DEF WriterState, Admission, QueueTypeOK
    <3> QED BY <1>b, <3>1, ConcatEmptySeq
  <2> QED BY <1>b, <2>1 DEF EventsKeepOrder
<1>c. closing = "returned" => queue = <<>> /\ shut
  BY DEF QueueInv, EventsKeepOrder, Admission
\* An immediate shutdown: nothing was discarded before.
<1>d. ASSUME closing # "returned", queue' = <<>>, discarded' = queue,
             UNCHANGED <<accepted, handled, current>>
      PROVE  accepted' = handled' \o current' \o queue' \o discarded'
  <2>1. discarded = <<>>
    BY <1>d DEF QueueInv, Admission
  <2>2. accepted = handled \o current \o queue
    BY <1>0, <1>a, <2>1, FourParts
  <2>3. handled \o current \o <<>> = handled \o current
    BY <1>0, ConcatProperties, ConcatEmptySeq
  <2> QED BY <1>d, <2>2, <2>3
<1>1. CASE start
  BY <1>1, <1>a, <1>b, <1>c DEF start
<1>2. CASE emit
  <2>1. CASE accepting /\ ~shut /\ ~QueueFull
    <3>1. closing = "no" /\ discarded = <<>>
      BY <2>1 DEF QueueInv, Admission
    <3>2. accepted = handled \o current \o queue
      BY <1>0, <1>a, <3>1, FourParts
    <3>3. emitted' \in Nat /\ accepted' = Append(accepted, emitted') /\ queue' = Append(queue, emitted')
          /\ UNCHANGED <<handled, current, discarded, closing>>
      BY <1>0, <1>2, <2>1 DEF emit, flags
    <3>4. handled \o current \in Seq(Nat)
      BY <1>0, ConcatProperties
    <3>11. <<emitted'>> \in Seq(Nat)
      BY <3>3
    <3>5. accepted' = (handled \o current \o queue) \o <<emitted'>>
      BY <1>0, <3>2, <3>3, AppendIsConcat
    <3>10. ((handled \o current) \o queue) \o <<emitted'>>
             = (handled \o current) \o (queue \o <<emitted'>>)
      <4>1. queue \in Seq(Nat)
        BY <1>0
      <4> QED BY <3>4, <3>11, <4>1, Regroup, Zenon
    <3>6. accepted' = (handled \o current) \o (queue \o <<emitted'>>)
      BY <3>5, <3>10
    <3>7. queue' = queue \o <<emitted'>>
      BY <1>0, <3>3, AppendIsConcat
    <3>8. queue' \in Seq(Nat)
      BY <1>0 DEF QueueTypeOK
    <3>9. accepted' = handled' \o current' \o queue' \o discarded'
      BY <1>0, <3>1, <3>3, <3>6, <3>7, <3>8, FourParts
    <3> QED BY <1>b, <3>1, <3>3, <3>9
  <2>2. CASE ~(accepting /\ ~shut /\ ~QueueFull)
    BY <1>2, <2>2, <1>a, <1>b, <1>c DEF emit, flags
  <2> QED BY <2>1, <2>2
<1>3. CASE get
  <2>1. /\ queue # <<>> /\ current' = <<Head(queue)>> /\ queue' = Tail(queue)
        /\ UNCHANGED <<accepted, handled, discarded, closing>> /\ current = <<>>
    BY <1>3 DEF get, flags, QueueInv, WriterState
  <2>2. current' \in Seq(Nat) /\ queue' \in Seq(Nat) /\ current' \o queue' = queue
    BY <1>0, <2>1, HeadThenTail
  <2>3. handled \o current = handled
    BY <1>0, <2>1, ConcatEmptySeq
  <2>6. handled \in Seq(Nat)
    BY <1>0
  <2>7. PICK c \in Seq(Nat) : c = current'
    BY <2>2
  <2>8. PICK q \in Seq(Nat) : q = queue'
    BY <2>2
  <2>9. (handled \o c) \o q = handled \o (c \o q)
    BY <2>6, Regroup, Zenon
  <2>5. (handled \o current') \o queue' = handled \o (current' \o queue')
    BY <2>7, <2>8, <2>9
  <2>4. handled \o current' \o queue' = handled \o queue
    BY <2>2, <2>5
  <2> QED BY <1>a, <1>b, <1>c, <2>1, <2>3, <2>4
<1>4. CASE Written
  <2>1. /\ handled' = handled \o current /\ current' = <<>>
        /\ UNCHANGED <<accepted, queue, discarded, closing>>
    BY <1>4 DEF Written, flags
  <2>2. (handled \o current) \o <<>> = handled \o current
    BY <1>0, ConcatProperties, ConcatEmptySeq
  <2> QED BY <1>a, <1>b, <1>c, <2>1, <2>2
<1>5. CASE Leave
  BY <1>5, <1>a, <1>b, <1>c DEF Leave, flags
<1>6. CASE \E grace \in BOOLEAN : BeginClose(grace)
  <2>1. PICK grace \in BOOLEAN : BeginClose(grace)
    BY <1>6
  <2>2. CASE writer # "new" /\ grace
    BY <2>1, <2>2, <1>a, <1>b DEF BeginClose
  <2>3. CASE ~(writer # "new" /\ grace)
    BY <2>1, <2>3, <1>b, <1>d DEF BeginClose
  <2> QED BY <2>2, <2>3
<1>7. CASE Joined \/ GaveUp
  BY <1>7, <1>b, <1>d DEF Joined, GaveUp, Discard
<1>8. CASE UNCHANGED queueVars
  BY <1>8, <1>a, <1>b, <1>c DEF queueVars, flags
<1> QED BY <1>1, <1>2, <1>3, <1>4, <1>5, <1>6, <1>7, <1>8 DEF QueueNext

\* No event the queue accepted is lost, repeated or overtaken: it is written,
\* being written, queued, or discarded by the shutdown, in the order of
\* acceptance, whatever the writer, the emitters and aclose do.
THEOREM EventsStayInOrder == QueueSpec => []EventsKeepOrder
<1>1. QueueInv /\ [QueueNext]_queueVars => QueueInv'
  BY QueueStateStep, QueueOrderStep DEF QueueInv
<1>2. QueueInv => EventsKeepOrder
  BY DEF QueueInv
<1> QED BY QueueInvInit, <1>1, <1>2, PTL DEF QueueSpec


-----------------------------------------------------------------------------
(***************************************************************************)
(* The permits of the password hasher, for any number of callers.          *)
(*                                                                         *)
(* The count alone is not inductive: a permit is handed to a waiter before *)
(* the waiter runs, so one has to know that whoever waits stands in the    *)
(* queue (InQueue), that nobody is handed more permits than there are      *)
(* (WokenIs), and that none goes to a caller that has one.                 *)
(***************************************************************************)
WaitingAt == {"queued", "lapsed", "granted", "revoked"}
WithPermit == {"granted", "revoked", "working", "draining"}

HasherTypeOK ==
    /\ pc \in [Callers -> Ended \cup WaitingAt \cup WithPermit]
    /\ work \in [Callers -> {"none", "running", "done", "error"}]
    /\ permits \in Nat
    /\ waiters \in Seq(Callers)

InQueue ==
    \A c \in Callers : pc[c] \in WaitingAt => \E i \in DOMAIN waiters : waiters[i] = c

Holders == {c \in Callers : pc[c] \in WithPermit}

HasherInv ==
    /\ HasherTypeOK
    /\ InQueue
    /\ permits + Cardinality(Holders) = MaxConcurrency
    /\ \A c \in Callers : work[c] = "running" => pc[c] \in {"working", "draining"}

\* _wake_up_next and acquire wake at most as many waiters as there are
\* permits, and only waiters whose future is pending.
LEMMA WokenIs ==
    ASSUME NEW n \in Nat, NEW ws \in Seq(Callers)
    PROVE  /\ Woken(n, ws) \subseteq {c \in Callers : pc[c] = "queued"}
           /\ IsFiniteSet(Woken(n, ws))
           /\ Cardinality(Woken(n, ws)) \in Nat
           /\ Cardinality(Woken(n, ws)) <= n
<1>1. PICK pending : pending = {i \in DOMAIN ws : pc[ws[i]] = "queued"}
  OBVIOUS
<1>2. PICK first : first = {k \in pending : Cardinality({j \in pending : j < k}) < n}
  OBVIOUS
<1>3. PICK g : g = {ws[i] : i \in first}
  OBVIOUS
<1>4. Woken(n, ws) = g
  BY <1>1, <1>2, <1>3 DEF Woken
<1>5. /\ Len(ws) \in Nat /\ DOMAIN ws = 1..Len(ws) /\ \A i \in DOMAIN ws : ws[i] \in Callers
      /\ first \subseteq pending /\ pending \subseteq 1..Len(ws)
  BY <1>1, <1>2
<1>6. IsFiniteSet(pending) /\ IsFiniteSet(first)
  <2>1. IsFiniteSet(1..Len(ws))
    BY <1>5, FS_Interval
  <2> QED BY <1>5, <2>1, FS_Subset
<1>7. Cardinality(first) \in Nat /\ Cardinality(first) <= n
  <2>1. CASE first = {}
    BY <2>1, FS_EmptySet
  <2>2. CASE first # {}
    <3>1. PICK m \in first : \A y \in first : y <= m
      <4>1. first \subseteq 0..Len(ws)
        BY <1>5
      <4> QED BY <1>5, <2>2, <4>1, MaxOfBounded
    <3>2. PICK before : before = {j \in pending : j < m}
      OBVIOUS
    <3>3. IsFiniteSet(before) /\ Cardinality(before) \in Nat /\ Cardinality(before) < n
      <4>1. before \subseteq pending
        BY <3>2
      <4>2. IsFiniteSet(before) /\ Cardinality(before) \in Nat
        BY <1>6, <4>1, FS_Subset, FS_CardinalityType
      <4> QED BY <1>2, <3>1, <3>2, <4>2
    <3>4. first \subseteq before \cup {m}
      BY <1>5, <3>1, <3>2
    <3>5. IsFiniteSet(before \cup {m}) /\ Cardinality(before \cup {m}) = Cardinality(before) + 1
      <4>1. m \notin before
        BY <1>5, <3>1, <3>2
      <4> QED BY <3>3, <4>1, FS_AddElement
    <3>6. /\ Cardinality(first) <= Cardinality(before \cup {m})
          /\ Cardinality(first) \in Nat /\ Cardinality(before \cup {m}) \in Nat
      BY <1>6, <3>4, <3>5, FS_Subset, FS_CardinalityType
    <3> QED BY <3>3, <3>5, <3>6
  <2> QED BY <2>1, <2>2
<1>8. IsFiniteSet(g) /\ Cardinality(g) <= Cardinality(first)
  <2>1. [i \in first |-> ws[i]] \in Surjection(first, g)
    BY <1>3 DEF Surjection
  <2> QED BY <1>6, <2>1, FS_Surjection
<1>9. Cardinality(g) \in Nat
  BY <1>8, FS_CardinalityType
<1>10. g \subseteq {c \in Callers : pc[c] = "queued"}
  BY <1>1, <1>3, <1>5
<1> QED BY <1>4, <1>7, <1>8, <1>9, <1>10

\* A caller's future leaves the queue, the others stay.
LEMMA WithoutIs ==
    ASSUME HasherTypeOK, InQueue, NEW c \in Callers, pc[c] \in WaitingAt
    PROVE  /\ Without(c) \in Seq(Callers)
           /\ \A d \in Callers \ {c} : pc[d] \in WaitingAt =>
                \E i \in DOMAIN Without(c) : Without(c)[i] = d
<1>1. waiters \in Seq(Callers)
  BY DEF HasherTypeOK
<1>2. PICK k \in DOMAIN waiters : waiters[k] = c /\ Without(c) = RemoveAt(waiters, k)
  <2>1. \E i \in DOMAIN waiters : waiters[i] = c
    BY DEF InQueue
  <2> QED BY <2>1 DEF Without
<1>3. PICK rest : rest = RemoveAt(waiters, k)
  OBVIOUS
<1>4. /\ rest \in Seq(Callers) /\ Len(rest) = Len(waiters) - 1
      /\ \A i \in 1..Len(waiters) - 1 : rest[i] = waiters[IF i < k THEN i ELSE i + 1]
  BY <1>1, <1>3, RemovedIs
<1>5. ASSUME NEW d \in Callers \ {c}, pc[d] \in WaitingAt
      PROVE  \E i \in DOMAIN rest : rest[i] = d
  <2>1. PICK i \in DOMAIN waiters : waiters[i] = d
    BY <1>5 DEF InQueue
  <2>2. /\ i \in 1..Len(waiters) /\ k \in 1..Len(waiters) /\ i # k /\ Len(waiters) \in Nat
        /\ DOMAIN rest = 1..Len(waiters) - 1
    BY <1>1, <1>2, <1>4, <1>5, <2>1
  <2>3. CASE i < k
    <3>1. i \in 1..Len(waiters) - 1
      BY <2>2, <2>3
    <3> QED BY <1>4, <2>1, <2>2, <2>3, <3>1
  <2>4. CASE ~(i < k)
    <3>1. i - 1 \in 1..Len(waiters) - 1 /\ ~(i - 1 < k) /\ (i - 1) + 1 = i
      BY <2>2, <2>4
    <3>2. rest[i - 1] = waiters[(i - 1) + 1]
      BY <1>4, <3>1
    <3> QED BY <2>1, <2>2, <3>1, <3>2
  <2> QED BY <2>3, <2>4
<1> QED BY <1>2, <1>3, <1>4, <1>5

\* Who has a permit once caller c goes on and set g is handed one each.
LEMMA HoldersAfter ==
    ASSUME HasherInv, NEW c \in Callers, pc[c] # "queued", NEW to, NEW g,
           g \subseteq {d \in Callers : pc[d] = "queued"}, IsFiniteSet(g), Granting(c, to, g)
    PROVE  /\ Cardinality(Holders) \in Nat /\ Cardinality(g) \in Nat
           /\ Cardinality(Holders') =
                Cardinality(Holders) + Cardinality(g)
                  - (IF pc[c] \in WithPermit THEN 1 ELSE 0)
                  + (IF to \in WithPermit THEN 1 ELSE 0)
<1>1. PICK rest : rest = Holders \ {c}
  OBVIOUS
<1>2. IsFiniteSet(Holders)
  BY HasherAssumption, FS_Subset DEF Holders
<1>3. Cardinality(Holders) \in Nat /\ Cardinality(g) \in Nat
  BY <1>2, FS_CardinalityType
<1>4. /\ IsFiniteSet(rest)
      /\ Cardinality(rest) = Cardinality(Holders) - (IF pc[c] \in WithPermit THEN 1 ELSE 0)
  <2>1. c \in Holders <=> pc[c] \in WithPermit
    BY DEF Holders
  <2> QED BY <1>1, <1>2, <1>3, <2>1, FS_RemoveElement
<1>5. IsFiniteSet(rest \cup g) /\ Cardinality(rest \cup g) = Cardinality(rest) + Cardinality(g)
  <2>1. rest \cap g = {}
    BY <1>1 DEF Holders, WithPermit
  <2>2. Cardinality(rest \cap g) = 0
    BY <2>1, FS_EmptySet
  <2>3. Cardinality(rest) \in Nat
    BY <1>4, FS_CardinalityType
  <2> QED BY <1>3, <1>4, <2>2, <2>3, FS_Union
<1>6. c \notin rest \cup g
  BY <1>1
<1>7. Holders' = IF to \in WithPermit THEN (rest \cup g) \cup {c} ELSE rest \cup g
  <2>1. \A d \in Callers : pc'[d] = IF d = c THEN to ELSE IF d \in g THEN "granted" ELSE pc[d]
    BY DEF Granting
  <2>2. "granted" \in WithPermit
    BY DEF WithPermit
  <2> QED BY <1>1, <2>1, <2>2 DEF Holders
<1>8. Cardinality((rest \cup g) \cup {c}) = Cardinality(rest \cup g) + 1
  BY <1>5, <1>6, FS_AddElement
<1>9. Cardinality(rest) \in Nat
  BY <1>4, FS_CardinalityType
<1> QED BY <1>3, <1>4, <1>5, <1>7, <1>8, <1>9

\* A step after which c is no longer in the queue: resumed, or given up.
LEMMA LeaveQueueKeeps ==
    ASSUME HasherInv, NEW c \in Callers, pc[c] \in WaitingAt, pc[c] # "queued",
           NEW to \in Ended \cup {"working"}, NEW back \in 0..1, LeaveQueue(c, to, back),
           back = (IF pc[c] \in WithPermit THEN 1 ELSE 0) - (IF to \in WithPermit THEN 1 ELSE 0)
    PROVE  /\ pc' \in [Callers -> Ended \cup WaitingAt \cup WithPermit]
           /\ permits' \in Nat /\ waiters' \in Seq(Callers) /\ InQueue'
           /\ permits' + Cardinality(Holders') = MaxConcurrency
           /\ pc'[c] = to
           /\ \A d \in Callers \ {c} : pc[d] \in {"working", "draining"} => pc'[d] = pc[d]
<1>1. HasherTypeOK /\ InQueue /\ permits \in Nat
  BY DEF HasherInv, HasherTypeOK
<1>2. PICK rest : rest = Without(c)
  OBVIOUS
<1>3. /\ rest \in Seq(Callers)
      /\ \A d \in Callers \ {c} : pc[d] \in WaitingAt => \E i \in DOMAIN rest : rest[i] = d
  BY <1>1, <1>2, WithoutIs
<1>4. PICK g : g = Woken(permits + back, rest)
  OBVIOUS
<1>5. permits + back \in Nat
  BY <1>1
<1>6. /\ g \subseteq {d \in Callers : pc[d] = "queued"}
      /\ IsFiniteSet(g) /\ Cardinality(g) \in Nat /\ Cardinality(g) <= permits + back
  BY <1>3, <1>4, <1>5, WokenIs
<1>7. /\ Granting(c, to, g) /\ permits' = permits + back - Cardinality(g)
      /\ waiters' = rest
  BY <1>2, <1>4 DEF LeaveQueue
<1>8. permits' \in Nat
  <2>1. PICK k \in Nat : k = Cardinality(g) /\ k <= permits + back
    BY <1>6
  <2>2. permits' = permits + back - k
    BY <1>7, <2>1, Zenon
  <2> QED BY <1>1, <2>1, <2>2
<1>9. permits' + Cardinality(Holders') = MaxConcurrency
  <2>1. /\ Cardinality(Holders) \in Nat
        /\ Cardinality(Holders') =
             Cardinality(Holders) + Cardinality(g)
               - (IF pc[c] \in WithPermit THEN 1 ELSE 0)
               + (IF to \in WithPermit THEN 1 ELSE 0)
    BY <1>6, <1>7, HoldersAfter
  <2>2. permits + Cardinality(Holders) = MaxConcurrency
    BY DEF HasherInv
  <2> QED BY <1>1, <1>6, <1>7, <2>1, <2>2
<1>10. /\ \A d \in Callers :
            pc'[d] = IF d = c THEN to ELSE IF d \in g THEN "granted" ELSE pc[d]
       /\ pc' \in [Callers -> Ended \cup WaitingAt \cup WithPermit]
  <2>1. pc \in [Callers -> Ended \cup WaitingAt \cup WithPermit]
    BY <1>1 DEF HasherTypeOK
  <2>2. to \in Ended \cup WaitingAt \cup WithPermit /\ "granted" \in WaitingAt
    BY DEF WithPermit, WaitingAt
  <2> QED BY <1>7, <2>1, <2>2 DEF Granting
<1>11. InQueue'
  <2> SUFFICES ASSUME NEW d \in Callers, pc'[d] \in WaitingAt
               PROVE  \E i \in DOMAIN waiters' : waiters'[i] = d
    BY DEF InQueue
  <2>1. d # c
    BY <1>10 DEF WaitingAt, Ended
  <2>2. pc[d] \in WaitingAt
    BY <1>6, <1>10, <2>1 DEF WaitingAt
  <2> QED BY <1>3, <1>7, <2>1, <2>2
<1> QED BY <1>3, <1>6, <1>7, <1>8, <1>9, <1>10, <1>11

\* release returns one permit, to a waiter if there is one.
LEMMA ReleaseKeeps ==
    ASSUME HasherInv, NEW c \in Callers, pc[c] \in {"working", "draining"},
           NEW to \in Ended, Release(c, to)
    PROVE  /\ pc' \in [Callers -> Ended \cup WaitingAt \cup WithPermit]
           /\ permits' \in Nat /\ waiters' = waiters /\ InQueue'
           /\ permits' + Cardinality(Holders') = MaxConcurrency
           /\ \A d \in Callers \ {c} : pc[d] \in {"working", "draining"} => pc'[d] = pc[d]
<1>1. HasherTypeOK /\ InQueue /\ permits \in Nat /\ waiters \in Seq(Callers)
  BY DEF HasherInv, HasherTypeOK
<1>2. PICK g : g = Woken(1, waiters)
  OBVIOUS
<1>3. /\ g \subseteq {d \in Callers : pc[d] = "queued"}
      /\ IsFiniteSet(g) /\ Cardinality(g) \in Nat /\ Cardinality(g) <= 1
  BY <1>1, <1>2, WokenIs
<1>4. Granting(c, to, g) /\ permits' = permits + 1 - Cardinality(g) /\ waiters' = waiters
  BY <1>2 DEF Release
<1>5. pc[c] \in WithPermit /\ to \notin WithPermit /\ pc[c] # "queued" /\ to \notin WaitingAt
  BY DEF WithPermit, WaitingAt, Ended
<1>6. permits' + Cardinality(Holders') = MaxConcurrency
  <2>1. /\ Cardinality(Holders) \in Nat
        /\ Cardinality(Holders') =
             Cardinality(Holders) + Cardinality(g)
               - (IF pc[c] \in WithPermit THEN 1 ELSE 0)
               + (IF to \in WithPermit THEN 1 ELSE 0)
    BY <1>3, <1>4, <1>5, HoldersAfter
  <2>2. permits + Cardinality(Holders) = MaxConcurrency
    BY DEF HasherInv
  <2> QED BY <1>1, <1>3, <1>4, <1>5, <2>1, <2>2
<1>7. /\ \A d \in Callers :
            pc'[d] = IF d = c THEN to ELSE IF d \in g THEN "granted" ELSE pc[d]
      /\ pc' \in [Callers -> Ended \cup WaitingAt \cup WithPermit]
  <2>1. pc \in [Callers -> Ended \cup WaitingAt \cup WithPermit]
    BY <1>1 DEF HasherTypeOK
  <2>2. "granted" \in WaitingAt
    BY DEF WaitingAt
  <2> QED BY <1>4, <2>1, <2>2 DEF Granting
<1>8. InQueue'
  <2> SUFFICES ASSUME NEW d \in Callers, pc'[d] \in WaitingAt
               PROVE  \E i \in DOMAIN waiters' : waiters'[i] = d
    BY DEF InQueue
  <2>1. d # c
    BY <1>5, <1>7
  <2>2. pc[d] \in WaitingAt
    BY <1>3, <1>7, <2>1 DEF WaitingAt
  <2> QED BY <1>1, <1>4, <2>2 DEF InQueue
<1>9. permits' \in Nat
  BY <1>1, <1>3, <1>4
<1> QED BY <1>3, <1>4, <1>6, <1>7, <1>8, <1>9

\* A step that gives no permit to anybody and takes none.
LEMMA PermitsStay ==
    ASSUME HasherInv, NEW c \in Callers, NEW to \in WaitingAt \cup {"draining"},
           pc' = [pc EXCEPT ![c] = to], UNCHANGED permits,
           pc[c] \in WithPermit <=> to \in WithPermit
    PROVE  /\ pc' \in [Callers -> Ended \cup WaitingAt \cup WithPermit]
           /\ permits' + Cardinality(Holders') = MaxConcurrency
<1>1. pc \in [Callers -> Ended \cup WaitingAt \cup WithPermit]
  BY DEF HasherInv, HasherTypeOK
<1>2. pc' \in [Callers -> Ended \cup WaitingAt \cup WithPermit]
  <2>1. to \in Ended \cup WaitingAt \cup WithPermit
    BY DEF WithPermit
  <2> QED BY <1>1, <2>1
<1>3. \A d \in Callers : pc'[d] \in WithPermit <=> pc[d] \in WithPermit
  BY <1>1
<1>4. Holders' = Holders
  BY <1>3 DEF Holders
<1> QED BY <1>2, <1>4 DEF HasherInv

LEMMA HasherInitially == HasherInit => HasherInv
<1> SUFFICES ASSUME HasherInit PROVE HasherInv
  OBVIOUS
<1>1. HasherTypeOK
  BY HasherAssumption, EmptySeq DEF HasherInit, HasherTypeOK, Ended
<1>2. InQueue /\ Holders = {} /\ \A c \in Callers : work[c] # "running"
  BY DEF HasherInit, InQueue, Holders, WaitingAt, WithPermit
<1>3. permits + Cardinality(Holders) = MaxConcurrency
  BY <1>2, HasherAssumption, FS_EmptySet DEF HasherInit
<1> QED BY <1>1, <1>2, <1>3 DEF HasherInv

LEMMA HasherStep == HasherInv /\ [HasherNext]_hasherVars => HasherInv'
<1> SUFFICES ASSUME HasherInv, [HasherNext]_hasherVars PROVE HasherInv'
  OBVIOUS
<1>1. /\ HasherTypeOK /\ InQueue
      /\ pc \in [Callers -> Ended \cup WaitingAt \cup WithPermit]
      /\ work \in [Callers -> {"none", "running", "done", "error"}]
      /\ permits \in Nat /\ waiters \in Seq(Callers)
      /\ permits + Cardinality(Holders) = MaxConcurrency
      /\ \A c \in Callers : work[c] = "running" => pc[c] \in {"working", "draining"}
  BY DEF HasherInv, HasherTypeOK
<1>2. IsFiniteSet(Holders) /\ Cardinality(Holders) \in Nat
  BY HasherAssumption, FS_Subset, FS_CardinalityType DEF Holders
<1>3. ASSUME NEW c \in Callers, AcquireAtOnce(c) PROVE HasherInv'
  <2>1. /\ pc[c] \in Ended /\ permits # 0 /\ pc' = [pc EXCEPT ![c] = "working"]
        /\ work' = [work EXCEPT ![c] = "running"] /\ permits' = permits - 1
        /\ waiters' = waiters
    BY <1>3 DEF AcquireAtOnce, locked
  <2>2. Holders' = Holders \cup {c} /\ c \notin Holders
    BY <1>1, <2>1 DEF Holders, WithPermit, Ended
  <2>3. permits' + Cardinality(Holders') = MaxConcurrency
    <3>1. Cardinality(Holders') = Cardinality(Holders) + 1
      BY <1>2, <2>2, FS_AddElement
    <3> QED BY <1>1, <1>2, <2>1, <3>1
  <2>4. HasherTypeOK'
    BY <1>1, <2>1 DEF HasherTypeOK, WithPermit
  <2>5. InQueue'
    BY <1>1, <2>1 DEF InQueue, WaitingAt
  <2>6. \A d \in Callers : work'[d] = "running" => pc'[d] \in {"working", "draining"}
    BY <1>1, <2>1
  <2> QED BY <2>3, <2>4, <2>5, <2>6 DEF HasherInv
<1>4. ASSUME NEW c \in Callers, Queue(c) PROVE HasherInv'
  <2>1. /\ pc[c] \in Ended /\ pc' = [pc EXCEPT ![c] = "queued"]
        /\ waiters' = Append(waiters, c) /\ work' = work /\ permits' = permits
    BY <1>4 DEF Queue
  <2>2. /\ pc' \in [Callers -> Ended \cup WaitingAt \cup WithPermit]
        /\ permits' + Cardinality(Holders') = MaxConcurrency
    <3>1. "queued" \in WaitingAt /\ pc[c] \notin WithPermit /\ "queued" \notin WithPermit
      BY <2>1 DEF WaitingAt, WithPermit, Ended
    <3> QED BY <2>1, <3>1, PermitsStay
  <2>3. /\ waiters' \in Seq(Callers) /\ Len(waiters') = Len(waiters) + 1
        /\ waiters'[Len(waiters) + 1] = c
        /\ \A i \in 1..Len(waiters) : waiters'[i] = waiters[i]
    BY <1>1, <2>1
  <2>4. InQueue'
    <3> SUFFICES ASSUME NEW d \in Callers, pc'[d] \in WaitingAt
                 PROVE  \E i \in DOMAIN waiters' : waiters'[i] = d
      BY DEF InQueue
    <3>1. /\ DOMAIN waiters' = 1..Len(waiters) + 1 /\ DOMAIN waiters = 1..Len(waiters)
          /\ Len(waiters) \in Nat
      BY <1>1, <2>3
    <3>2. CASE d = c
      BY <2>3, <3>1, <3>2
    <3>3. CASE d # c
      <4>1. PICK i \in DOMAIN waiters : waiters[i] = d
        BY <1>1, <2>1, <3>3 DEF InQueue
      <4> QED BY <2>3, <3>1, <4>1
    <3> QED BY <3>2, <3>3
  <2>5. \A d \in Callers : work'[d] = "running" => pc'[d] \in {"working", "draining"}
    BY <1>1, <2>1 DEF Ended
  <2> QED BY <1>1, <2>1, <2>2, <2>3, <2>4, <2>5 DEF HasherInv, HasherTypeOK
<1>5. ASSUME NEW c \in Callers, NEW reason, Interrupt(c, reason) PROVE HasherInv'
  <2>1. PICK to : to = IF pc[c] \in {"queued", "lapsed"} THEN "lapsed" ELSE "revoked"
    OBVIOUS
  <2>2. /\ pc' = [pc EXCEPT ![c] = to] /\ work' = work /\ permits' = permits
        /\ waiters' = waiters /\ pc[c] \in WaitingAt /\ to \in WaitingAt
        /\ pc[c] \in WithPermit <=> to \in WithPermit
    BY <1>5, <2>1 DEF Interrupt, WaitingAt, WithPermit
  <2>3. /\ pc' \in [Callers -> Ended \cup WaitingAt \cup WithPermit]
        /\ permits' + Cardinality(Holders') = MaxConcurrency
    BY <2>2, PermitsStay
  <2>4. InQueue'
    BY <1>1, <2>2 DEF InQueue
  <2>5. \A d \in Callers : work'[d] = "running" => pc'[d] \in {"working", "draining"}
    BY <1>1, <2>2 DEF WaitingAt
  <2> QED BY <1>1, <2>2, <2>3, <2>4, <2>5 DEF HasherInv, HasherTypeOK
<1>6. ASSUME NEW c \in Callers, CancelWorking(c) PROVE HasherInv'
  <2>1. /\ pc' = [pc EXCEPT ![c] = "draining"] /\ work' = work /\ permits' = permits
        /\ waiters' = waiters /\ pc[c] = "working"
    BY <1>6 DEF CancelWorking
  <2>2. /\ pc' \in [Callers -> Ended \cup WaitingAt \cup WithPermit]
        /\ permits' + Cardinality(Holders') = MaxConcurrency
    <3>1. pc[c] \in WithPermit /\ "draining" \in WithPermit
      BY <2>1 DEF WithPermit
    <3> QED BY <2>1, <3>1, PermitsStay
  <2>3. InQueue'
    BY <1>1, <2>1 DEF InQueue, WaitingAt
  <2>4. \A d \in Callers : work'[d] = "running" => pc'[d] \in {"working", "draining"}
    BY <1>1, <2>1
  <2> QED BY <1>1, <2>1, <2>2, <2>3, <2>4 DEF HasherInv, HasherTypeOK
<1>7. ASSUME NEW c \in Callers, Resume(c) PROVE HasherInv'
  <2>1. /\ pc[c] = "granted" /\ LeaveQueue(c, "working", 0)
        /\ work' = [work EXCEPT ![c] = "running"]
    BY <1>7 DEF Resume
  <2>2. /\ pc[c] \in WaitingAt /\ pc[c] # "queued" /\ pc[c] \in WithPermit
        /\ "working" \in WithPermit /\ "working" \in Ended \cup {"working"} /\ 0 \in 0..1
        /\ 0 = (IF pc[c] \in WithPermit THEN 1 ELSE 0)
                 - (IF "working" \in WithPermit THEN 1 ELSE 0)
    BY <2>1 DEF WaitingAt, WithPermit
  <2>3. /\ pc' \in [Callers -> Ended \cup WaitingAt \cup WithPermit]
        /\ permits' \in Nat /\ waiters' \in Seq(Callers) /\ InQueue'
        /\ permits' + Cardinality(Holders') = MaxConcurrency
        /\ pc'[c] = "working"
        /\ \A d \in Callers \ {c} : pc[d] \in {"working", "draining"} => pc'[d] = pc[d]
    BY <2>1, <2>2, LeaveQueueKeeps
  <2>4. \A d \in Callers : work'[d] = "running" => pc'[d] \in {"working", "draining"}
    BY <1>1, <2>1, <2>3
  <2> QED BY <1>1, <2>1, <2>3, <2>4 DEF HasherInv, HasherTypeOK
<1>8. ASSUME NEW c \in Callers, GiveUp(c) \/ HandBack(c) PROVE HasherInv'
  <2>1. /\ Outcome(c) \in Ended /\ work' = work /\ pc[c] \in {"lapsed", "revoked"}
        /\ LeaveQueue(c, Outcome(c), IF pc[c] = "revoked" THEN 1 ELSE 0)
    BY <1>8 DEF GiveUp, HandBack, Outcome, Ended
  <2>2. PICK to, back : to = Outcome(c) /\ back = IF pc[c] = "revoked" THEN 1 ELSE 0
    OBVIOUS
  <2>3. /\ pc[c] \in WaitingAt /\ pc[c] # "queued" /\ to \notin WithPermit /\ back \in 0..1
        /\ to \in Ended \cup {"working"} /\ LeaveQueue(c, to, back)
        /\ back = (IF pc[c] \in WithPermit THEN 1 ELSE 0) - (IF to \in WithPermit THEN 1 ELSE 0)
    <3>1. to \in Ended /\ to \notin WithPermit
      BY <2>1, <2>2 DEF Ended, WithPermit
    <3>2. pc[c] \in WithPermit <=> pc[c] = "revoked"
      BY <2>1 DEF WithPermit
    <3> QED BY <2>1, <2>2, <3>1, <3>2 DEF WaitingAt
  <2>4. /\ pc' \in [Callers -> Ended \cup WaitingAt \cup WithPermit]
        /\ permits' \in Nat /\ waiters' \in Seq(Callers) /\ InQueue'
        /\ permits' + Cardinality(Holders') = MaxConcurrency
        /\ \A d \in Callers \ {c} : pc[d] \in {"working", "draining"} => pc'[d] = pc[d]
    BY <2>3, LeaveQueueKeeps
  <2>5. \A d \in Callers : work'[d] = "running" => pc'[d] \in {"working", "draining"}
    BY <1>1, <2>1, <2>4
  <2> QED BY <1>1, <2>1, <2>4, <2>5 DEF HasherInv, HasherTypeOK
<1>9. ASSUME NEW c \in Callers, WorkerEnds(c) PROVE HasherInv'
  <2>1. /\ work' \in [Callers -> {"none", "running", "done", "error"}]
        /\ \A d \in Callers : work'[d] = "running" => work[d] = "running"
        /\ pc' = pc /\ permits' = permits /\ waiters' = waiters
    BY <1>1, <1>9 DEF WorkerEnds
  <2>2. InQueue' /\ Holders' = Holders
    BY <1>1, <2>1 DEF InQueue, Holders
  <2> QED BY <1>1, <2>1, <2>2 DEF HasherInv, HasherTypeOK
<1>10. ASSUME NEW c \in Callers, Return(c) \/ Drained(c) PROVE HasherInv'
  <2>1. PICK to \in Ended : Release(c, to)
    BY <1>10 DEF Return, Drained, Ended
  <2>2. /\ pc[c] \in {"working", "draining"} /\ work' = [work EXCEPT ![c] = "none"]
    BY <1>10 DEF Return, Drained
  <2>3. /\ pc' \in [Callers -> Ended \cup WaitingAt \cup WithPermit]
        /\ permits' \in Nat /\ waiters' = waiters /\ InQueue'
        /\ permits' + Cardinality(Holders') = MaxConcurrency
        /\ \A d \in Callers \ {c} : pc[d] \in {"working", "draining"} => pc'[d] = pc[d]
    BY <2>1, <2>2, ReleaseKeeps
  <2>4. \A d \in Callers : work'[d] = "running" => pc'[d] \in {"working", "draining"}
    BY <1>1, <2>2, <2>3
  <2> QED BY <1>1, <2>2, <2>3, <2>4 DEF HasherInv, HasherTypeOK
<1>11. CASE UNCHANGED hasherVars
  BY <1>1, <1>11 DEF hasherVars, HasherInv, HasherTypeOK, InQueue, Holders
<1> QED
  BY <1>3, <1>4, <1>5, <1>6, <1>7, <1>8, <1>9, <1>10, <1>11 DEF HasherNext, Progress

\* _run: whatever is interrupted, and whenever, no permit is lost or returned
\* twice, and never do more threads hash than max_concurrency allows.
THEOREM PermitsStayConserved == HasherSpec => []PermitsConserved
<1>1. ASSUME HasherInv PROVE PermitsConserved
  <2>1. PICK hashing : hashing = {c \in Callers : work[c] = "running"}
    OBVIOUS
  <2>2. /\ IsFiniteSet(Holders) /\ hashing \subseteq Holders
        /\ permits \in Nat /\ permits + Cardinality(Holders) = MaxConcurrency
    BY <1>1, <2>1, HasherAssumption, FS_Subset
       DEF HasherInv, HasherTypeOK, Holders, WithPermit
  <2>3. /\ Cardinality(hashing) <= Cardinality(Holders)
        /\ Cardinality(hashing) \in Nat /\ Cardinality(Holders) \in Nat
    BY <2>2, FS_Subset, FS_CardinalityType
  <2>4. Cardinality(hashing) <= MaxConcurrency
    BY <2>2, <2>3
  <2>5. Holders = {c \in Callers : pc[c] \in {"granted", "revoked", "working", "draining"}}
    BY DEF Holders, WithPermit
  <2> QED BY <1>1, <2>1, <2>2, <2>4, <2>5 DEF PermitsConserved, Count, HasherInv
<1> QED BY <1>1, HasherInitially, HasherStep, PTL DEF HasherSpec

=============================================================================
