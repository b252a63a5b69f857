-------------------------- MODULE QueuePlayerProofs --------------------------
(***************************************************************************)
(* Theorems about the queue and the player, for any songs, lists, orders   *)
(* and bounds: the screen shows the row that plays, two devices with       *)
(* nothing on its way have the same queue, a skip offered is a skip done,  *)
(* and the highlighted row stays highlighted while the queue is edited.    *)
(*                                                                         *)
(* Init and Next keep QueueInv: the types, what the player owes a preview  *)
(* (PlayerInv), that the mark is on a row outside a room (PlacedInv), and  *)
(* what is on its way between the devices of a room (RoomInv). What a step *)
(* does to the queue is one of three things - it Stays, the mark Moves, or *)
(* rows are put in, taken out or moved (Edits) - and each sends the frames *)
(* that take the other device's copy the same way.                         *)
(***************************************************************************)
EXTENDS QueuePlayer, FiniteSetTheorems, SequenceTheorems, WellFoundedInduction, TLAPS

(***************************************************************************)
(* Sequences: what is found, put in, moved and permuted                    *)
(***************************************************************************)

LEMMA LeastNat ==
  ASSUME NEW T \in SUBSET Nat, T # {}
  PROVE  \E x \in T : \A y \in T : x <= y
<1>1. PICK x \in T : \A y \in T : ~(<<y, x>> \in OpToRel(<, Nat))
  BY NatLessThanWellFounded, WFMin
<1>2. \A y \in T : ~(y < x)
  BY <1>1 DEF OpToRel
<1> QED
  BY <1>2

\* The first track of an id, and 0 where there is none.
LEMMA FindIs ==
  ASSUME NEW q \in Seq(Tracks), NEW id
  PROVE  /\ Find(q, id) \in Nat
         /\ \A i \in 1 .. Len(q) : q[i].id = id =>
              /\ Find(q, id) \in 1 .. Len(q)
              /\ q[Find(q, id)].id = id
              /\ Find(q, id) <= i
         /\ Find(q, id) # 0 => Find(q, id) \in 1 .. Len(q) /\ q[Find(q, id)].id = id
<1>1. Copies(q, id) \in SUBSET Nat /\ Copies(q, id) = {i \in 1 .. Len(q) : q[i].id = id}
  BY DEF Copies
<1>2. CASE Copies(q, id) = {}
  BY <1>1, <1>2 DEF Find
<1>3. CASE Copies(q, id) # {}
  <2>1. \E x \in Copies(q, id) : \A y \in Copies(q, id) : x <= y
    BY <1>1, <1>3, LeastNat
  <2>2. Find(q, id) \in Copies(q, id) /\ \A y \in Copies(q, id) : Find(q, id) <= y
    BY <1>3, <2>1 DEF Find, Min
  <2> QED
    BY <1>1, <2>2
<1> QED
  BY <1>2, <1>3

LEMMA IdsOf ==
  ASSUME NEW q \in Seq(Tracks)
  PROVE  /\ Ids(q) \in Seq(Songs) /\ Len(Ids(q)) = Len(q) /\ DOMAIN Ids(q) = 1 .. Len(q)
         /\ \A i \in 1 .. Len(q) : Ids(q)[i] = q[i].id
<1>1. \A i \in 1 .. Len(q) : q[i].id \in Songs
  <2>1. \A i \in 1 .. Len(q) : q[i] \in Tracks
    OBVIOUS
  <2> QED
    BY <2>1 DEF Tracks
<1>2. Ids(q) \in [1 .. Len(q) -> Songs] /\ Len(q) \in Nat
  BY <1>1 DEF Ids
<1>3. Ids(q) \in Seq(Songs) /\ Len(Ids(q)) = Len(q)
  BY <1>2
<1> QED
  BY <1>2, <1>3 DEF Ids

LEMMA SpliceIs ==
  ASSUME NEW S, NEW q \in Seq(S), NEW songs \in Seq(S), NEW k \in Nat, k <= Len(q)
  PROVE  /\ Splice(q, songs, k) \in Seq(S)
         /\ Len(Splice(q, songs, k)) = Len(q) + Len(songs)
         /\ \A i \in 1 .. k : Splice(q, songs, k)[i] = q[i]
         /\ \A i \in 1 .. Len(songs) : Splice(q, songs, k)[i + k] = songs[i]
         /\ \A i \in k + 1 .. Len(q) : Splice(q, songs, k)[i + Len(songs)] = q[i]
<1> DEFINE n == Len(q)
           m == Len(songs)
           before == SubSeq(q, 1, k)
           after == SubSeq(q, k + 1, n)
           mid == before \o songs
           all == mid \o after
<1>1. n \in Nat /\ m \in Nat /\ k <= n /\ \A i \in 1 .. n : q[i] \in S
  OBVIOUS
<1>2. Splice(q, songs, k) = all
  <2>1. (IF k > n THEN n ELSE k) = k
    BY <1>1
  <2> QED
    BY <2>1 DEF Splice
<1>3. before \in Seq(S) /\ Len(before) = k /\ \A i \in 1 .. k : before[i] = q[i]
  <2>1. 1 \in Int /\ k \in Int /\ \A i \in 1 .. k : q[i] \in S
    BY <1>1
  <2>2. /\ before \in Seq(S) /\ Len(before) = IF 1 <= k THEN k - 1 + 1 ELSE 0
        /\ \A i \in 1 .. k - 1 + 1 : before[i] = q[1 + i - 1]
    BY <2>1, SubSeqProperties
  <2> HIDE DEF before
  <2>3. k - 1 + 1 = k /\ (IF 1 <= k THEN k - 1 + 1 ELSE 0) = k /\ \A i \in 1 .. k : 1 + i - 1 = i
    OBVIOUS
  <2> QED
    BY <2>2, <2>3
<1>4. /\ after \in Seq(S) /\ Len(after) = n - k
      /\ \A i \in 1 .. n - k : after[i] = q[k + i]
  <2>1. k + 1 \in Int /\ n \in Int /\ \A i \in k + 1 .. n : q[i] \in S
    BY <1>1
  <2>2. /\ after \in Seq(S) /\ Len(after) = IF k + 1 <= n THEN n - (k + 1) + 1 ELSE 0
        /\ \A i \in 1 .. n - (k + 1) + 1 : after[i] = q[(k + 1) + i - 1]
    BY <2>1, SubSeqProperties
  <2> HIDE DEF after, n
  <2>3. /\ n - (k + 1) + 1 = n - k /\ (IF k + 1 <= n THEN n - (k + 1) + 1 ELSE 0) = n - k
        /\ \A i \in 1 .. n - k : (k + 1) + i - 1 = k + i
    BY <1>1
  <2> QED
    BY <2>2, <2>3
<1> HIDE DEF before, after
<1>5. /\ mid \in Seq(S) /\ Len(mid) = k + m
      /\ \A i \in 1 .. k + m : mid[i] = IF i <= k THEN before[i] ELSE songs[i - k]
  BY <1>3, ConcatProperties
<1> HIDE DEF mid
<1>6. /\ all \in Seq(S) /\ Len(all) = (k + m) + (n - k)
      /\ \A i \in 1 .. (k + m) + (n - k) : all[i] = IF i <= k + m THEN mid[i] ELSE after[i - (k + m)]
  <2>0. mid \in Seq(S) /\ after \in Seq(S)
    BY <1>4, <1>5
  <2>1. /\ all \in Seq(S) /\ Len(all) = Len(mid) + Len(after)
        /\ \A i \in 1 .. Len(mid) + Len(after) :
             all[i] = IF i <= Len(mid) THEN mid[i] ELSE after[i - Len(mid)]
    BY <2>0, ConcatProperties
  <2> HIDE DEF all, n, m
  <2>2. Len(mid) = k + m /\ Len(after) = n - k
    BY <1>4, <1>5
  <2> QED
    BY <2>1, <2>2
<1> HIDE DEF all
<1>7. (k + m) + (n - k) = n + m
  <2> HIDE DEF n, m
  <2> QED
    BY <1>1
<1> HIDE DEF n, m
<1>8. \A i \in 1 .. k : all[i] = q[i]
  BY <1>1, <1>3, <1>5, <1>6, <1>7
<1>9. \A i \in 1 .. m : all[i + k] = songs[i]
  <2> SUFFICES ASSUME NEW i \in 1 .. m PROVE all[i + k] = songs[i]
    OBVIOUS
  <2>1. i + k \in 1 .. n + m /\ i + k \in 1 .. k + m /\ i + k <= k + m /\ ~(i + k <= k) /\ (i + k) - k = i
    BY <1>1
  <2> QED
    BY <1>5, <1>6, <1>7, <2>1
<1>10. \A i \in k + 1 .. n : all[i + m] = q[i]
  <2> SUFFICES ASSUME NEW i \in k + 1 .. n PROVE all[i + m] = q[i]
    OBVIOUS
  <2>1. /\ i + m \in 1 .. n + m /\ ~(i + m <= k + m) /\ (i + m) - (k + m) = i - k
        /\ i - k \in 1 .. n - k /\ k + (i - k) = i
    BY <1>1
  <2> QED
    BY <1>4, <1>6, <1>7, <2>1
<1> QED
  BY <1>2, <1>6, <1>7, <1>8, <1>9, <1>10 DEF n, m

\* After the end of a shorter queue is at its end.
LEMMA SpliceAt ==
  ASSUME NEW S, NEW q \in Seq(S), NEW to \in Nat
  PROVE  \E k \in Nat : k <= Len(q) /\ \A t, s : Len(t) = Len(q) => Splice(t, s, to) = Splice(t, s, k)
<1> DEFINE n == Len(q)
           k == IF to > n THEN n ELSE to
<1>1. n \in Nat
  OBVIOUS
<1>2. k \in Nat /\ k <= n /\ (IF k > n THEN n ELSE k) = k
  <2> HIDE DEF n
  <2> QED
    BY <1>1
<1>3. ASSUME NEW t, NEW s, Len(t) = n PROVE Splice(t, s, to) = Splice(t, s, k)
  <2>1. (IF k > Len(t) THEN Len(t) ELSE k) = k /\ (IF to > Len(t) THEN Len(t) ELSE to) = k
    BY <1>2, <1>3
  <2> QED
    BY <2>1 DEF Splice
<1> QED
  BY <1>2, <1>3

\* A track taken out leaves every other one.
LEMMA RemoveIs ==
  ASSUME NEW S, NEW s \in Seq(S), NEW k \in 1 .. Len(s)
  PROVE  /\ RemoveAt(s, k) \in Seq(S)
         /\ Len(RemoveAt(s, k)) = Len(s) - 1
         /\ \A j \in 1 .. Len(s) : j # k => \E i \in 1 .. Len(s) - 1 : RemoveAt(s, k)[i] = s[j]
<1> DEFINE before == SubSeq(s, 1, k - 1)
           after == SubSeq(s, k + 1, Len(s))
<1>1. Len(s) \in Nat /\ \A i \in 1 .. Len(s) : s[i] \in S
  OBVIOUS
<1>2. /\ before \in Seq(S) /\ Len(before) = k - 1
      /\ \A i \in 1 .. k - 1 : before[i] = s[i]
  BY <1>1, SubSeqProperties
<1>3. /\ after \in Seq(S) /\ Len(after) = Len(s) - k
      /\ \A i \in 1 .. Len(s) - k : after[i] = s[k + i]
  <2>1. \A i \in k + 1 .. Len(s) : s[i] \in S
    BY <1>1
  <2> QED
   BY <1>1, <2>1, SubSeqProperties
<1> HIDE DEF before, after
<1>4. RemoveAt(s, k) = before \o after
  BY DEF RemoveAt, before, after
<1>5. /\ before \o after \in Seq(S) /\ Len(before \o after) = Len(s) - 1
      /\ \A i \in 1 .. Len(s) - 1 : (before \o after)[i] = IF i < k THEN s[i] ELSE s[i + 1]
  <2> DEFINE both == before \o after
             n == Len(s)
  <2>1. before \in Seq(S) /\ after \in Seq(S)
    BY <1>2, <1>3
  <2>2. /\ both \in Seq(S) /\ Len(both) = Len(before) + Len(after)
        /\ \A i \in 1 .. Len(before) + Len(after) :
             both[i] = IF i <= Len(before) THEN before[i] ELSE after[i - Len(before)]
    BY <2>1, ConcatProperties
  <2> HIDE DEF both, n
  <2>3. n \in Nat /\ k \in 1 .. n /\ Len(before) = k - 1 /\ Len(after) = n - k /\ (k - 1) + (n - k) = n - 1
    BY <1>1, <1>2, <1>3 DEF n
  <2>4. \A i \in 1 .. n - 1 : both[i] = IF i <= k - 1 THEN before[i] ELSE after[i - (k - 1)]
    BY <2>2, <2>3
  <2>5. \A i \in 1 .. n - k : after[i] = s[k + i]
    BY <1>3 DEF n
  <2>6. \A i \in 1 .. n - 1 : both[i] = IF i < k THEN s[i] ELSE s[i + 1]
    <3> SUFFICES ASSUME NEW i \in 1 .. n - 1 PROVE both[i] = IF i < k THEN s[i] ELSE s[i + 1]
      OBVIOUS
    <3>1. CASE i < k
      BY <1>2, <2>3, <2>4, <3>1
    <3>2. CASE ~(i < k)
      <4>1. ~(i <= k - 1) /\ i - (k - 1) \in 1 .. n - k /\ k + (i - (k - 1)) = i + 1
        BY <2>3, <3>2
      <4> QED
        BY <2>4, <2>5, <3>2, <4>1
    <3> QED
      BY <3>1, <3>2
  <2> QED
    BY <2>2, <2>3, <2>6 DEF both, n
<1>6. ASSUME NEW j \in 1 .. Len(s), j # k
      PROVE  \E i \in 1 .. Len(s) - 1 : s[j] = IF i < k THEN s[i] ELSE s[i + 1]
  <2>1. CASE j < k
    BY <1>1, <2>1
  <2>2. CASE j > k
    <3>1. j - 1 \in 1 .. Len(s) - 1 /\ ~(j - 1 < k) /\ (j - 1) + 1 = j
      BY <1>1, <2>2
    <3> QED
      BY <3>1
  <2> QED
    BY <1>1, <1>6, <2>1, <2>2
<1> QED
  BY <1>4, <1>5, <1>6

\* A track put in is there, and so is every other one.
LEMMA SpliceOne ==
  ASSUME NEW S, NEW s \in Seq(S), NEW x \in S, NEW k \in Nat, k <= Len(s)
  PROVE  /\ Splice(s, <<x>>, k) \in Seq(S)
         /\ Len(Splice(s, <<x>>, k)) = Len(s) + 1
         /\ Splice(s, <<x>>, k)[k + 1] = x
         /\ \A i \in 1 .. k : Splice(s, <<x>>, k)[i] = s[i]
         /\ \A j \in 1 .. Len(s) : \E i \in 1 .. Len(s) + 1 : Splice(s, <<x>>, k)[i] = s[j]
<1> DEFINE one == <<x>>
           all == Splice(s, one, k)
           n == Len(s)
<1>1. one \in Seq(S) /\ Len(one) = 1 /\ one[1] = x /\ n \in Nat
  OBVIOUS
<1> HIDE DEF one
<1>2. /\ all \in Seq(S) /\ Len(all) = n + 1
      /\ \A i \in 1 .. k : all[i] = s[i]
      /\ \A i \in 1 .. 1 : all[i + k] = one[i]
      /\ \A i \in k + 1 .. n : all[i + 1] = s[i]
  <2>1. /\ all \in Seq(S) /\ Len(all) = n + Len(one)
        /\ \A i \in 1 .. k : all[i] = s[i]
        /\ \A i \in 1 .. Len(one) : all[i + k] = one[i]
        /\ \A i \in k + 1 .. n : all[i + Len(one)] = s[i]
    <3>1. one \in Seq(S)
      BY <1>1
    <3>2. k \in Nat /\ k <= Len(s)
      OBVIOUS
    <3>3. Splice(s, one, k) \in Seq(S) /\ Len(Splice(s, one, k)) = Len(s) + Len(one)
      BY <3>1, <3>2, SpliceIs
    <3>4. \A i \in 1 .. k : Splice(s, one, k)[i] = s[i]
      BY <3>1, <3>2, SpliceIs
    <3>5. \A i \in 1 .. Len(one) : Splice(s, one, k)[i + k] = one[i]
      BY <3>1, <3>2, SpliceIs
    <3>6. \A i \in k + 1 .. Len(s) : Splice(s, one, k)[i + Len(one)] = s[i]
      BY <3>1, <3>2, SpliceIs
    <3> QED
      BY <3>3, <3>4, <3>5, <3>6
  <2> HIDE DEF all, n
  <2>2. Len(one) = 1
    BY <1>1
  <2> QED
    BY <2>1, <2>2
<1> HIDE DEF all, n
<1>3. all[k + 1] = x
  BY <1>1, <1>2
<1>4. ASSUME NEW j \in 1 .. n PROVE \E i \in 1 .. n + 1 : all[i] = s[j]
  <2>1. CASE j <= k
    BY <1>1, <1>2, <2>1
  <2>2. CASE ~(j <= k)
    <3>1. j + 1 \in 1 .. n + 1 /\ j \in k + 1 .. n
      BY <1>1, <2>2
    <3>2. all[j + 1] = s[j]
      BY <1>2, <3>1
    <3> QED
      BY <3>1, <3>2
  <2> QED
    BY <2>1, <2>2
<1> QED
  BY <1>2, <1>3, <1>4 DEF all, one, n

\* moveQueue keeps the tracks.
LEMMA MovedIs ==
  ASSUME NEW S, NEW s \in Seq(S), NEW from \in 1 .. Len(s), NEW to \in 1 .. Len(s)
  PROVE  /\ Moved(s, from, to) \in Seq(S) /\ Len(Moved(s, from, to)) = Len(s)
         /\ \A j \in 1 .. Len(s) : \E i \in 1 .. Len(s) : Moved(s, from, to)[i] = s[j]
<1> DEFINE rest == RemoveAt(s, from)
           n == Len(s)
           x == s[from]
           k == to - 1
           all == Splice(rest, <<x>>, k)
<1>1. n \in Nat /\ from \in 1 .. n /\ x \in S
  OBVIOUS
<1>2. rest \in Seq(S) /\ Len(rest) = n - 1 /\ \A j \in 1 .. n : j # from => \E i \in 1 .. n - 1 : rest[i] = s[j]
  BY RemoveIs
<1>3. k \in Nat /\ k <= n - 1 /\ k + 1 \in 1 .. n /\ (n - 1) + 1 = n
  BY <1>1
<1> HIDE DEF rest, n, x, k
<1>4. /\ all \in Seq(S) /\ Len(all) = Len(rest) + 1 /\ all[k + 1] = x
      /\ \A j \in 1 .. Len(rest) : \E i \in 1 .. Len(rest) + 1 : all[i] = rest[j]
  <2>1. rest \in Seq(S) /\ x \in S /\ k \in Nat /\ k <= Len(rest)
    BY <1>1, <1>2, <1>3
  <2>2. Splice(rest, <<x>>, k) \in Seq(S) /\ Len(Splice(rest, <<x>>, k)) = Len(rest) + 1
    BY <2>1, SpliceOne
  <2>3. Splice(rest, <<x>>, k)[k + 1] = x
    BY <2>1, SpliceOne
  <2>4. \A j \in 1 .. Len(rest) : \E i \in 1 .. Len(rest) + 1 : Splice(rest, <<x>>, k)[i] = rest[j]
    BY <2>1, SpliceOne
  <2> QED
    BY <2>2, <2>3, <2>4
<1> HIDE DEF all
<1>5. Len(all) = n /\ \A j \in 1 .. n - 1 : \E i \in 1 .. n : all[i] = rest[j]
  BY <1>2, <1>3, <1>4
<1>6. ASSUME NEW j \in 1 .. n PROVE \E i \in 1 .. n : all[i] = s[j]
  <2>1. CASE j = from
    BY <1>3, <1>4, <2>1 DEF x
  <2>2. CASE j # from
    <3>1. PICK r \in 1 .. n - 1 : rest[r] = s[j]
      BY <1>2, <2>2
    <3> QED
      BY <1>5, <3>1
  <2> QED
    BY <2>1, <2>2
<1>7. Moved(s, from, to) = all
  BY DEF Moved, all, rest, x, k
<1> QED
  BY <1>4, <1>5, <1>6, <1>7 DEF n

\* pinAfter keeps the track that plays, and finds it again.
LEMMA PinIs ==
  ASSUME NEW q \in Seq(Tracks), NEW i, NEW from, CanPin(q, i, from)
  PROVE  /\ PinAfter(q, i, from).queue \in Seq(Tracks)
         /\ PinAfter(q, i, from).index \in 1 .. Len(PinAfter(q, i, from).queue)
         /\ Len(PinAfter(q, i, from).queue) = Len(q)
<1> DEFINE rest == RemoveAt(q, from)
           n == Len(q)
           x == q[from]
           k == Find(rest, q[i].id)
           all == Splice(rest, <<x>>, k)
<1>1. n \in Nat /\ from \in 1 .. n /\ i \in 1 .. n /\ i # from /\ x \in Tracks
  BY DEF CanPin, Holds
<1>2. rest \in Seq(Tracks) /\ Len(rest) = n - 1 /\ \A j \in 1 .. n : j # from => \E r \in 1 .. n - 1 : rest[r] = q[j]
  BY <1>1, RemoveIs
<1>3. PICK r \in 1 .. n - 1 : rest[r] = q[i]
  BY <1>1, <1>2
<1> HIDE DEF rest, x
<1>4. k \in 1 .. n - 1
  BY <1>2, <1>3, FindIs
<1> HIDE DEF n, k
<1>5. k \in Nat /\ k <= Len(rest) /\ k \in 1 .. n /\ (n - 1) + 1 = n
  BY <1>1, <1>2, <1>4
<1>6. all \in Seq(Tracks) /\ Len(all) = Len(rest) + 1
  BY <1>1, <1>2, <1>5, SpliceOne
<1>7. PinAfter(q, i, from) = [queue |-> all, index |-> k]
  BY DEF PinAfter, all, rest, x, k
<1> HIDE DEF all
<1> QED
  BY <1>2, <1>5, <1>6, <1>7 DEF n

\* A shuffle keeps the tracks.
LEMMA PermuteIs ==
  ASSUME NEW q \in Seq(Tracks), NEW seed \in Seeds, Draws(seed, q)
  PROVE  /\ Permute(q, seed) \in Seq(Tracks) /\ Len(Permute(q, seed)) = Len(q)
         /\ \A j \in 1 .. Len(q) : \E i \in 1 .. Len(q) : Permute(q, seed)[i] = q[j]
<1> DEFINE n == Len(q)
           o == seed[n]
           all == Permute(q, seed)
<1>1. n \in Nat /\ n \in DOMAIN seed /\ \A i \in 1 .. n : q[i] \in Tracks
  BY DEF Draws
<1>2. Permutes(o, n)
  BY <1>1, QueueAssumption DEF QueueAssumption
<1>3. \A i \in 1 .. n : o[i] \in 1 .. n
  BY <1>2 DEF Permutes
<1>4. \A i \in 1 .. n : \E j \in 1 .. n : o[j] = i
  BY <1>2 DEF Permutes
<1>5. all = [i \in 1 .. n |-> q[o[i]]]
  BY DEF Permute
<1> HIDE DEF all, o, n
<1>6. all \in [1 .. n -> Tracks]
  BY <1>1, <1>3, <1>5
<1>7. all \in Seq(Tracks) /\ Len(all) = n
  BY <1>1, <1>6
<1>8. \A j \in 1 .. n : \E i \in 1 .. n : all[i] = q[j]
  BY <1>4, <1>5
<1> QED
  BY <1>7, <1>8 DEF all, n

(***************************************************************************)
(* What delta() sends rebuilds what it was made of                         *)
(***************************************************************************)

QueueFrames == [op : {"queue"}, songs : Seq(Tracks)]
EnqueueFrames == [op : {"enqueue"}, songs : Seq(Tracks), at : Nat]
YoutubeFrames == [op : {"youtube"}, id : Songs, yt : BOOLEAN]
ShuffleFrames == [op : {"shuffle"}, seed : Seeds]
Controls == {"play", "pause", "stop", "unshuffle"}
ControlFrames == [op : Controls]
PrepareFrames == [op : {"prepare"}, song : Songs, at : Nat]
Snapshots == [op : {"snapshot"}, role : {"host", "guest"}, songs : Seq(Tracks),
              song : Songs \union {NoSong}]
DeltaFrames == QueueFrames \union EnqueueFrames \union YoutubeFrames
EditFrames == DeltaFrames \union ShuffleFrames
Frames == EditFrames \union ControlFrames \union PrepareFrames \union Snapshots

\* What a frame makes of the ids of the queue it is applied to.
Effect(m, ids) ==
  CASE m.op \in {"queue", "snapshot"} -> Ids(m.songs)
    [] m.op = "enqueue" -> Splice(ids, Ids(m.songs), m.at)
    [] OTHER -> ids

\* Tracks put in the queue are put in among the ids.
LEMMA IdsSplice ==
  ASSUME NEW q \in Seq(Tracks), NEW songs \in Seq(Tracks), NEW k \in Nat
  PROVE  /\ Splice(q, songs, k) \in Seq(Tracks)
         /\ Ids(Splice(q, songs, k)) = Splice(Ids(q), Ids(songs), k)
<1>1. PICK at \in Nat : at <= Len(q) /\ \A t, s : Len(t) = Len(q) => Splice(t, s, k) = Splice(t, s, at)
  BY SpliceAt
<1> DEFINE all == Splice(q, songs, at)
           both == Splice(Ids(q), Ids(songs), at)
           n == Len(q)
           m == Len(songs)
<1>2. /\ Ids(q) \in Seq(Songs) /\ Len(Ids(q)) = n /\ \A i \in 1 .. n : Ids(q)[i] = q[i].id
      /\ Ids(songs) \in Seq(Songs) /\ Len(Ids(songs)) = m /\ \A i \in 1 .. m : Ids(songs)[i] = songs[i].id
      /\ n \in Nat /\ m \in Nat /\ at <= n
  BY <1>1, IdsOf
<1>3. Splice(q, songs, k) = all /\ Splice(Ids(q), Ids(songs), k) = both
  BY <1>1, <1>2
<1>4. /\ all \in Seq(Tracks) /\ Len(all) = n + m
      /\ \A i \in 1 .. at : all[i] = q[i]
      /\ \A i \in 1 .. m : all[i + at] = songs[i]
      /\ \A i \in at + 1 .. n : all[i + m] = q[i]
  <2>1. all \in Seq(Tracks) /\ Len(all) = n + m
    BY <1>1, SpliceIs
  <2>2. \A i \in 1 .. at : all[i] = q[i]
    BY <1>1, SpliceIs
  <2>3. \A i \in 1 .. m : all[i + at] = songs[i]
    BY <1>1, SpliceIs
  <2>4. \A i \in at + 1 .. n : all[i + m] = q[i]
    BY <1>1, SpliceIs
  <2> QED
    BY <2>1, <2>2, <2>3, <2>4
<1>5. Ids(q) \in Seq(Songs) /\ Ids(songs) \in Seq(Songs) /\ at <= Len(Ids(q))
  BY <1>2
<1>6. both \in Seq(Songs) /\ Len(both) = Len(Ids(q)) + Len(Ids(songs))
  BY <1>5, SpliceIs
<1>7. \A i \in 1 .. at : both[i] = Ids(q)[i]
  BY <1>5, SpliceIs
<1>8. \A i \in 1 .. Len(Ids(songs)) : both[i + at] = Ids(songs)[i]
  BY <1>5, SpliceIs
<1>9. \A i \in at + 1 .. Len(Ids(q)) : both[i + Len(Ids(songs))] = Ids(q)[i]
  BY <1>5, SpliceIs
<1> HIDE DEF all, both, n, m
<1>10. Ids(all) \in Seq(Songs) /\ Len(Ids(all)) = n + m /\ \A i \in 1 .. n + m : Ids(all)[i] = all[i].id
  <2>1. all \in Seq(Tracks) /\ Len(all) = n + m
    BY <1>4
  <2> QED
    BY <2>1, IdsOf
<1>11. Len(both) = n + m
  BY <1>2, <1>6
<1>12. ASSUME NEW i \in 1 .. n + m PROVE Ids(all)[i] = both[i]
  <2>1. CASE i <= at
    <3>1. i \in 1 .. at /\ i \in 1 .. n
      BY <1>2, <2>1
    <3> QED
      BY <1>2, <1>4, <1>7, <1>10, <1>12, <3>1
  <2>2. CASE i > at /\ i <= at + m
    <3>1. i - at \in 1 .. m /\ (i - at) + at = i
      BY <1>2, <2>2
    <3>2. all[i] = songs[i - at] /\ both[i] = Ids(songs)[i - at]
      BY <1>2, <1>4, <1>8, <3>1
    <3> QED
      BY <1>2, <1>10, <1>12, <3>1, <3>2
  <2>3. CASE i > at + m
    <3>1. i - m \in at + 1 .. n /\ (i - m) + m = i /\ i - m \in 1 .. n
      BY <1>2, <2>3
    <3>2. all[i] = q[i - m] /\ both[i] = Ids(q)[i - m]
      BY <1>2, <1>4, <1>9, <3>1
    <3> QED
      BY <1>2, <1>10, <1>12, <3>1, <3>2
  <2> QED
    BY <1>2, <2>1, <2>2, <2>3
<1>13. Ids(all) = both
  <2>1. Ids(all) \in Seq(Songs) /\ both \in Seq(Songs) /\ Len(Ids(all)) = Len(both)
        /\ \A i \in 1 .. Len(Ids(all)) : Ids(all)[i] = both[i]
    BY <1>6, <1>10, <1>11, <1>12
  <2> HIDE DEF all, both
  <2> QED
    BY <2>1, SeqEqual
<1> QED
  BY <1>3, <1>4, <1>13

LEMMA DeltaIs ==
  ASSUME NEW prev \in Seq(Tracks), NEW next \in Seq(Tracks)
  PROVE  /\ Delta(prev, next) \in DeltaFrames
         /\ Effect(Delta(prev, next), Ids(prev)) = Ids(next)
<1> DEFINE n == Len(prev)
           extra == Len(next) - n
           Start(k) == /\ \A i \in 1 .. k : prev[i].id = next[i].id
                       /\ k = n \/ prev[k + 1].id # next[k + 1].id
           start == CHOOSE k \in 0 .. n : Start(k)
           changed == {i \in 1 .. n : prev[i].yt # next[i].yt}
           added == SubSeq(next, start + 1, start + extra)
           one == CHOOSE i \in changed : TRUE
           adds == Len(next) > n /\ \A i \in (start + 1) .. n : prev[i].id = next[i + extra].id
           marks == Ids(next) = Ids(prev) /\ Cardinality(changed) = 1
           d == Delta(prev, next)
<1>0. d = CASE adds -> [op |-> "enqueue", songs |-> added, at |-> start]
            [] marks -> [op |-> "youtube", id |-> next[one].id, yt |-> next[one].yt]
            [] OTHER -> [op |-> "queue", songs |-> next]
  BY DEF Delta
<1>6. /\ adds => d = [op |-> "enqueue", songs |-> added, at |-> start]
      /\ ~adds /\ marks => d = [op |-> "youtube", id |-> next[one].id, yt |-> next[one].yt]
      /\ ~adds /\ ~marks => d = [op |-> "queue", songs |-> next]
  <2> DEFINE e1 == [op |-> "enqueue", songs |-> added, at |-> start]
             e2 == [op |-> "youtube", id |-> next[one].id, yt |-> next[one].yt]
             e3 == [op |-> "queue", songs |-> next]
  <2>1. d = CASE adds -> e1 [] marks -> e2 [] OTHER -> e3
    BY <1>0
  <2>5. adds => ~marks
    <3>1. Len(Ids(next)) = Len(next) /\ Len(Ids(prev)) = n /\ n \in Nat /\ Len(next) \in Nat
      BY IdsOf
    <3>2. adds => Len(next) > n
      OBVIOUS
    <3>3. marks => Ids(next) = Ids(prev)
      OBVIOUS
    <3> HIDE DEF adds, marks, n
    <3> QED
      BY <3>1, <3>2, <3>3
  <2> HIDE DEF d, adds, marks, e1, e2, e3
  <2>2. adds => d = e1
    BY <2>1, <2>5
  <2>3. ~adds /\ marks => d = e2
    BY <2>1
  <2>4. ~adds /\ ~marks => d = e3
    BY <2>1
  <2> QED
    BY <2>2, <2>3, <2>4 DEF e1, e2, e3
<1>1. n \in Nat /\ Len(next) \in Nat
  OBVIOUS
<1> HIDE DEF n
<1>2. start \in 0 .. n /\ Start(start)
  <2> DEFINE differ == {k \in 1 .. n : prev[k].id # next[k].id}
  <2>1. CASE differ = {}
    <3>1. n \in 0 .. n /\ Start(n)
      BY <1>1, <2>1
    <3> HIDE DEF Start
    <3> QED
      BY <3>1
  <2>2. CASE differ # {}
    <3>1. differ \in SUBSET Nat
      BY <1>1
    <3>2. PICK k \in differ : \A j \in differ : k <= j
      BY <2>2, <3>1, LeastNat
    <3>3. k \in 1 .. n /\ prev[k].id # next[k].id /\ k - 1 \in 0 .. n /\ (k - 1) + 1 = k
      BY <1>1, <3>2
    <3>4. \A i \in 1 .. k - 1 : prev[i].id = next[i].id
      <4> SUFFICES ASSUME NEW i \in 1 .. k - 1 PROVE prev[i].id = next[i].id
        OBVIOUS
      <4>1. i \in 1 .. n /\ ~(k <= i)
        BY <1>1, <3>3
      <4> QED
        BY <3>2, <4>1
    <3>5. k - 1 \in 0 .. n /\ Start(k - 1)
      BY <3>3, <3>4
    <3> HIDE DEF Start
    <3> QED
      BY <3>5
  <2> QED
    BY <2>1, <2>2
<1> HIDE DEF start
<1>3. CASE adds
  <2> DEFINE e == [op |-> "enqueue", songs |-> added, at |-> start]
             ip == Ids(prev)
             is == Ids(added)
             total == Len(next)
             all == Splice(ip, is, start)
  <2>1. d = e
    <3> HIDE DEF d, adds, marks, added, one
    <3> QED
      BY <1>6, <1>3
  <2>2. extra \in Nat /\ start \in Nat /\ start <= n /\ n + extra = total /\ start + extra <= total
    BY <1>1, <1>2, <1>3
  <2>3. added \in Seq(Tracks) /\ Len(added) = extra /\ \A i \in 1 .. extra : added[i] = next[start + i]
    <3>0. \A i \in 1 .. Len(next) : next[i] \in Tracks
      OBVIOUS
    <3>1. start + 1 \in Int /\ start + extra \in Int /\ \A i \in start + 1 .. start + extra : next[i] \in Tracks
      BY <2>2, <3>0
    <3> HIDE DEF extra
    <3>2. /\ added \in Seq(Tracks)
          /\ Len(added) = IF start + 1 <= start + extra THEN (start + extra) - (start + 1) + 1 ELSE 0
          /\ \A i \in 1 .. (start + extra) - (start + 1) + 1 : added[i] = next[(start + 1) + i - 1]
      BY <3>1, SubSeqProperties
    <3> HIDE DEF added
    <3>3. /\ (IF start + 1 <= start + extra THEN (start + extra) - (start + 1) + 1 ELSE 0) = extra
          /\ (start + extra) - (start + 1) + 1 = extra
          /\ \A i \in 1 .. extra : (start + 1) + i - 1 = start + i
      BY <2>2
    <3> QED
      BY <3>2, <3>3
  <2>4. e \in EnqueueFrames
    BY <2>2, <2>3 DEF EnqueueFrames
  <2>5. Effect(e, ip) = all
    BY DEF Effect
  <2>6. /\ ip \in Seq(Songs) /\ Len(ip) = n /\ \A i \in 1 .. n : ip[i] = prev[i].id
        /\ is \in Seq(Songs) /\ Len(is) = extra /\ \A i \in 1 .. extra : is[i] = added[i].id
        /\ Ids(next) \in Seq(Songs) /\ Len(Ids(next)) = total /\ \A i \in 1 .. total : Ids(next)[i] = next[i].id
    <3>1. ip \in Seq(Songs) /\ Len(ip) = n /\ \A i \in 1 .. n : ip[i] = prev[i].id
      BY IdsOf DEF n
    <3>2. is \in Seq(Songs) /\ Len(is) = extra /\ \A i \in 1 .. extra : is[i] = added[i].id
      <4>1. added \in Seq(Tracks) /\ Len(added) = extra
        BY <2>3
      <4> HIDE DEF added, extra
      <4> QED
        BY <4>1, IdsOf
    <3>3. Ids(next) \in Seq(Songs) /\ Len(Ids(next)) = total /\ \A i \in 1 .. total : Ids(next)[i] = next[i].id
      BY IdsOf
    <3> QED
      BY <3>1, <3>2, <3>3
  <2> HIDE DEF ip, is
  <2>7. ip \in Seq(Songs) /\ is \in Seq(Songs) /\ start \in Nat /\ start <= Len(ip)
    BY <2>2, <2>6
  <2>8. all \in Seq(Songs) /\ Len(all) = Len(ip) + Len(is)
    BY <2>7, SpliceIs
  <2>9. \A i \in 1 .. start : all[i] = ip[i]
    BY <2>7, SpliceIs
  <2>10. \A i \in 1 .. Len(is) : all[i + start] = is[i]
    BY <2>7, SpliceIs
  <2>11. \A i \in start + 1 .. Len(ip) : all[i + Len(is)] = ip[i]
    BY <2>7, SpliceIs
  <2> HIDE DEF all, added, e
  <2>12. ASSUME NEW i \in 1 .. total PROVE all[i] = next[i].id
    <3>0. \A k \in start + 1 .. n : prev[k].id = next[k + extra].id
      BY <1>3
    <3> HIDE DEF extra, total
    <3>1. CASE i <= start
      <4>1. i \in 1 .. start /\ i \in 1 .. n
        BY <1>1, <2>2, <3>1
      <4> QED
        BY <1>2, <2>6, <2>9, <4>1
    <3>2. CASE i > start /\ i <= start + extra
      <4>1. i - start \in 1 .. extra /\ (i - start) + start = i /\ start + (i - start) = i
        BY <2>2, <3>2
      <4>2. all[i] = is[i - start] /\ is[i - start] = added[i - start].id /\ added[i - start] = next[i]
        BY <2>3, <2>6, <2>10, <4>1
      <4> QED
        BY <4>2
    <3>3. CASE i > start + extra
      <4>1. i - extra \in start + 1 .. n /\ i - extra \in 1 .. n /\ (i - extra) + extra = i
        BY <1>1, <2>2, <2>12, <3>3
      <4>2. all[i] = ip[i - extra] /\ ip[i - extra] = prev[i - extra].id /\ prev[i - extra].id = next[i].id
        BY <2>6, <2>11, <3>0, <4>1
      <4> QED
        BY <4>2
    <3> QED
      BY <2>2, <3>1, <3>2, <3>3
  <2>13. all = Ids(next)
    <3>1. all \in Seq(Songs) /\ Ids(next) \in Seq(Songs) /\ Len(all) = Len(Ids(next))
          /\ \A i \in 1 .. Len(all) : all[i] = Ids(next)[i]
      <4>1. Len(all) = n + extra
        BY <2>6, <2>8
      <4>2. Len(all) = total /\ Len(Ids(next)) = total
        BY <2>2, <2>6, <4>1
      <4> HIDE DEF total
      <4> QED
        BY <2>6, <2>8, <2>12, <4>2
    <3> QED
      BY <3>1, SeqEqual
  <2> HIDE DEF d, extra
  <2> QED
    BY <2>1, <2>4, <2>5, <2>13 DEF DeltaFrames, ip, d
<1>4. CASE ~adds /\ marks
  <2> DEFINE e == [op |-> "youtube", id |-> next[one].id, yt |-> next[one].yt]
  <2>1. d = e
    <3> HIDE DEF d, adds, marks, added, one
    <3> QED
      BY <1>6, <1>4
  <2>2. changed # {}
    <3>1. Cardinality({}) = 0
      BY FS_EmptySet
    <3>2. Cardinality(changed) = 1
      BY <1>4
    <3> HIDE DEF changed
    <3> SUFFICES ASSUME changed = {} PROVE FALSE
      OBVIOUS
    <3>3. Cardinality(changed) = 0
      BY <3>1, Zenon
    <3> QED
      BY <3>2, <3>3
  <2>3. one \in 1 .. n
    BY <2>2
  <2>4. Len(next) = n
    <3>1. Len(Ids(next)) = Len(Ids(prev))
      BY <1>4
    <3> QED
      BY <3>1, IdsOf DEF n
  <2> HIDE DEF one
  <2>5. next[one] \in Tracks
    BY <2>3, <2>4
  <2>6. e \in YoutubeFrames
    BY <2>5 DEF YoutubeFrames, Tracks
  <2>7. Effect(e, Ids(prev)) = Ids(prev)
    BY DEF Effect
  <2>8. Ids(prev) = Ids(next)
    BY <1>4
  <2> HIDE DEF d, e
  <2> QED
    BY <2>1, <2>6, <2>7, <2>8 DEF DeltaFrames, d
<1>5. CASE ~adds /\ ~marks
  <2> DEFINE e == [op |-> "queue", songs |-> next]
  <2>1. d = e
    <3> HIDE DEF d, adds, marks, added, one
    <3> QED
      BY <1>6, <1>5
  <2>2. e \in QueueFrames
    BY DEF QueueFrames
  <2>3. Effect(e, Ids(prev)) = Ids(next)
    BY DEF Effect
  <2> HIDE DEF d, e
  <2> QED
    BY <2>1, <2>2, <2>3 DEF DeltaFrames, d
<1> HIDE DEF adds, marks
<1> QED
  BY <1>3, <1>4, <1>5 DEF d

(***************************************************************************)
(* The frames on their way                                                 *)
(***************************************************************************)

\* A prepare names the place of its song in the queue it finds.
PlacedIn(m, ids) == m.op = "prepare" => m.at \in 1 .. Len(ids) /\ ids[m.at] = m.song

\* The frames, one after the other, make the ids b of the ids a.
Leads(a, frames, b) ==
  \E chain \in [1 .. Len(frames) + 1 -> Seq(Songs)] :
    /\ chain[1] = a /\ chain[Len(frames) + 1] = b
    /\ \A i \in 1 .. Len(frames) : /\ chain[i + 1] = Effect(frames[i], chain[i])
                                   /\ PlacedIn(frames[i], chain[i])

LEMMA EffectTyped ==
  ASSUME NEW m \in Frames, NEW ids \in Seq(Songs)
  PROVE  Effect(m, ids) \in Seq(Songs)
<1>1. CASE m.op \in {"queue", "snapshot"}
  <2>1. m.songs \in Seq(Tracks)
    BY <1>1 DEF Frames, EditFrames, DeltaFrames, QueueFrames, EnqueueFrames, YoutubeFrames, ShuffleFrames,
                ControlFrames, Controls, PrepareFrames, Snapshots
  <2>2. Effect(m, ids) = Ids(m.songs)
    BY <1>1 DEF Effect
  <2> QED
    BY <2>1, <2>2, IdsOf
<1>2. CASE m.op = "enqueue"
  <2>1. m.songs \in Seq(Tracks) /\ m.at \in Nat
    BY <1>2 DEF Frames, EditFrames, DeltaFrames, QueueFrames, EnqueueFrames, YoutubeFrames, ShuffleFrames,
                ControlFrames, Controls, PrepareFrames, Snapshots
  <2>2. Effect(m, ids) = Splice(ids, Ids(m.songs), m.at)
    BY <1>2 DEF Effect
  <2>3. Ids(m.songs) \in Seq(Songs)
    BY <2>1, IdsOf
  <2> DEFINE songs == Ids(m.songs)
             to == m.at
  <2>4. songs \in Seq(Songs) /\ to \in Nat
    BY <2>1, <2>3
  <2> HIDE DEF songs, to
  <2>5. PICK k \in Nat : k <= Len(ids) /\ \A t, s : Len(t) = Len(ids) => Splice(t, s, to) = Splice(t, s, k)
    BY <2>4, SpliceAt
  <2>6. Splice(ids, songs, k) \in Seq(Songs)
    BY <2>4, <2>5, SpliceIs
  <2>7. Splice(ids, songs, to) = Splice(ids, songs, k)
    BY <2>5
  <2> QED
    BY <2>2, <2>6, <2>7 DEF songs, to
<1>3. CASE ~(m.op \in {"queue", "snapshot"}) /\ m.op # "enqueue"
  BY <1>3 DEF Effect
<1> QED
  BY <1>1, <1>2, <1>3

LEMMA LeadsNone ==
  ASSUME NEW a \in Seq(Songs), NEW b
  PROVE  Leads(a, <<>>, b) <=> a = b
<1>1. ASSUME Leads(a, <<>>, b) PROVE a = b
  BY <1>1 DEF Leads
<1>2. ASSUME a = b PROVE Leads(a, <<>>, b)
  <2> DEFINE chain == [i \in 1 .. Len(<<>>) + 1 |-> a]
  <2>1. chain \in [1 .. Len(<<>>) + 1 -> Seq(Songs)] /\ chain[1] = a /\ chain[Len(<<>>) + 1] = b
    BY <1>2
  <2>2. \A i \in 1 .. Len(<<>>) : FALSE
    OBVIOUS
  <2> HIDE DEF chain
  <2> QED
    BY <2>1, <2>2 DEF Leads
<1> QED
  BY <1>1, <1>2

LEMMA LeadsMore ==
  ASSUME NEW frames \in Seq(Frames), NEW m \in Frames, NEW a, NEW b,
         Leads(a, frames, b), PlacedIn(m, b)
  PROVE  Leads(a, frames \o <<m>>, Effect(m, b))
<1> DEFINE n == Len(frames)
           c == Effect(m, b)
           more == frames \o <<m>>
<1>1. PICK chain \in [1 .. n + 1 -> Seq(Songs)] :
        /\ chain[1] = a /\ chain[n + 1] = b
        /\ \A i \in 1 .. n : chain[i + 1] = Effect(frames[i], chain[i]) /\ PlacedIn(frames[i], chain[i])
  BY DEF Leads
<1>2. n \in Nat /\ n + 1 \in 1 .. n + 1 /\ 1 \in 1 .. n + 1
  OBVIOUS
<1>3. b \in Seq(Songs)
  BY <1>1, <1>2
<1>4. c \in Seq(Songs)
  BY <1>3, EffectTyped
<1>5. Len(more) = n + 1 /\ (\A i \in 1 .. n : more[i] = frames[i]) /\ more[n + 1] = m
  OBVIOUS
<1> HIDE DEF n, c, more
<1> DEFINE longer == [i \in 1 .. n + 2 |-> IF i <= n + 1 THEN chain[i] ELSE c]
<1>6. longer \in [1 .. (n + 1) + 1 -> Seq(Songs)]
  BY <1>1, <1>2, <1>4
<1>7. longer[1] = a /\ longer[(n + 1) + 1] = c /\ longer[n + 1] = b /\ \A i \in 1 .. n + 1 : longer[i] = chain[i]
  BY <1>1, <1>2
<1> HIDE DEF longer
<1>8. ASSUME NEW i \in 1 .. n + 1
      PROVE  longer[i + 1] = Effect(more[i], longer[i]) /\ PlacedIn(more[i], longer[i])
  <2>1. CASE i = n + 1
    BY <1>2, <1>5, <1>7, <2>1 DEF c
  <2>2. CASE i # n + 1
    <3>1. i \in 1 .. n /\ i + 1 \in 1 .. n + 1
      BY <1>2, <1>8, <2>2
    <3> QED
      BY <1>1, <1>5, <1>7, <3>1
  <2> QED
    BY <2>1, <2>2
<1>9. Leads(a, more, c)
  <2>1. longer \in [1 .. Len(more) + 1 -> Seq(Songs)] /\ longer[1] = a /\ longer[Len(more) + 1] = c
    BY <1>5, <1>6, <1>7
  <2>2. \A i \in 1 .. Len(more) : longer[i + 1] = Effect(more[i], longer[i]) /\ PlacedIn(more[i], longer[i])
    BY <1>5, <1>8
  <2> QED
    BY <2>1, <2>2 DEF Leads
<1> QED
  BY <1>9 DEF more, c

LEMMA LeadsHead ==
  ASSUME NEW frames \in Seq(Frames), frames # <<>>, NEW a, NEW b, Leads(a, frames, b)
  PROVE  PlacedIn(Head(frames), a) /\ Leads(Effect(Head(frames), a), Tail(frames), b)
<1> DEFINE n == Len(frames)
           m == Head(frames)
           rest == Tail(frames)
<1>1. PICK chain \in [1 .. n + 1 -> Seq(Songs)] :
        /\ chain[1] = a /\ chain[n + 1] = b
        /\ \A i \in 1 .. n : chain[i + 1] = Effect(frames[i], chain[i]) /\ PlacedIn(frames[i], chain[i])
  BY DEF Leads
<1>2. n \in Nat \ {0} /\ m = frames[1] /\ Len(rest) = n - 1 /\ \A i \in 1 .. n - 1 : rest[i] = frames[i + 1]
  <2>1. n \in Nat \ {0} /\ m = frames[1]
    OBVIOUS
  <2>2. Len(rest) = n - 1 /\ \A i \in 1 .. Len(rest) : rest[i] = frames[i + 1]
    BY HeadTailProperties
  <2> HIDE DEF n, m, rest
  <2> QED
    BY <2>1, <2>2
<1> HIDE DEF n, m, rest
<1> DEFINE shorter == [i \in 1 .. n |-> chain[i + 1]]
<1>3. \A i \in 1 .. n : i + 1 \in 1 .. n + 1
  BY <1>2
<1>4. shorter \in [1 .. (n - 1) + 1 -> Seq(Songs)] /\ shorter[1] = chain[2] /\ shorter[(n - 1) + 1] = b
      /\ \A i \in 1 .. n : shorter[i] = chain[i + 1]
  BY <1>1, <1>2, <1>3
<1>5. chain[2] = Effect(m, a) /\ PlacedIn(m, a)
  BY <1>1, <1>2
<1> HIDE DEF shorter
<1>6. ASSUME NEW i \in 1 .. n - 1
      PROVE  shorter[i + 1] = Effect(rest[i], shorter[i]) /\ PlacedIn(rest[i], shorter[i])
  <2>1. i \in 1 .. n /\ i + 1 \in 1 .. n
    BY <1>2, <1>6
  <2> QED
    BY <1>1, <1>2, <1>4, <2>1
<1>7. Leads(Effect(m, a), rest, b)
  <2>1. shorter \in [1 .. Len(rest) + 1 -> Seq(Songs)] /\ shorter[1] = Effect(m, a) /\ shorter[Len(rest) + 1] = b
    BY <1>2, <1>4, <1>5
  <2>2. \A i \in 1 .. Len(rest) : shorter[i + 1] = Effect(rest[i], shorter[i]) /\ PlacedIn(rest[i], shorter[i])
    BY <1>2, <1>6
  <2> QED
    BY <2>1, <2>2 DEF Leads
<1> QED
  BY <1>5, <1>7 DEF m, rest

\* Controls leave the queue alone.
OnlyControls(frames) == \A i \in 1 .. Len(frames) : frames[i].op \in Controls

LEMMA LeadsControls ==
  ASSUME NEW frames \in Seq(Frames), OnlyControls(frames), NEW a \in Seq(Songs)
  PROVE  Leads(a, frames, a)
<1> DEFINE n == Len(frames)
           chain == [i \in 1 .. n + 1 |-> a]
<1>1. n \in Nat /\ chain \in [1 .. n + 1 -> Seq(Songs)]
  OBVIOUS
<1>2. chain[1] = a /\ chain[n + 1] = a
  <2> HIDE DEF n
  <2> QED
    BY <1>1
<1>3. ASSUME NEW i \in 1 .. n
      PROVE  chain[i + 1] = Effect(frames[i], chain[i]) /\ PlacedIn(frames[i], chain[i])
  <2>1. frames[i].op \in Controls
    BY <1>3 DEF OnlyControls
  <2>2. Effect(frames[i], a) = a /\ PlacedIn(frames[i], a)
    BY <2>1 DEF Effect, PlacedIn, Controls
  <2>3. chain[i] = a /\ chain[i + 1] = a
    <3> HIDE DEF n
    <3> QED
      BY <1>1, <1>3
  <2> HIDE DEF chain
  <2> QED
    BY <2>2, <2>3
<1> HIDE DEF chain
<1> QED
  BY <1>1, <1>2, <1>3 DEF Leads

LEMMA ControlsMore ==
  ASSUME NEW frames \in Seq(Frames), NEW m, OnlyControls(frames), m.op \in Controls
  PROVE  OnlyControls(frames \o <<m>>)
<1> DEFINE n == Len(frames)
           more == frames \o <<m>>
<1>1. n \in Nat /\ Len(more) = n + 1 /\ (\A i \in 1 .. n : more[i] = frames[i]) /\ more[n + 1] = m
  OBVIOUS
<1>2. \A i \in 1 .. n : frames[i].op \in Controls
  BY DEF OnlyControls
<1> HIDE DEF n, more
<1>3. \A i \in 1 .. n + 1 : more[i].op \in Controls
  <2> SUFFICES ASSUME NEW i \in 1 .. n + 1 PROVE more[i].op \in Controls
    OBVIOUS
  <2>1. i \in 1 .. n \/ i = n + 1
    BY <1>1
  <2> QED
    BY <1>1, <1>2, <2>1
<1> QED
  BY <1>1, <1>3 DEF OnlyControls, more

LEMMA ControlsTail ==
  ASSUME NEW frames \in Seq(Frames), frames # <<>>, OnlyControls(frames)
  PROVE  OnlyControls(Tail(frames)) /\ Head(frames).op \in Controls
<1> DEFINE n == Len(frames)
           rest == Tail(frames)
<1>1. n \in Nat \ {0} /\ Head(frames) = frames[1]
  OBVIOUS
<1>2. Len(rest) = n - 1 /\ \A i \in 1 .. Len(rest) : rest[i] = frames[i + 1]
  BY HeadTailProperties
<1>3. \A i \in 1 .. n : frames[i].op \in Controls
  BY DEF OnlyControls
<1> HIDE DEF n, rest
<1>4. \A i \in 1 .. Len(rest) : rest[i].op \in Controls
  <2> SUFFICES ASSUME NEW i \in 1 .. Len(rest) PROVE rest[i].op \in Controls
    OBVIOUS
  <2>1. i + 1 \in 1 .. n
    BY <1>1, <1>2
  <2> QED
    BY <1>2, <1>3, <2>1
<1>5. Head(frames).op \in Controls
  BY <1>1, <1>3
<1> QED
  BY <1>4, <1>5 DEF OnlyControls, rest

(***************************************************************************)
(* The player: what sounds, what is loading and what a preview owes        *)
(***************************************************************************)

Loads == {NoLoad} \union
         [song : Songs, kind : {"bare", "round", "sweep"}, at : Nat, tried : SUBSET Nat]

\* The main track and the newest load: one of them at most has an element.
Elements ==
  /\ song \in Songs \union {NoSong}
  /\ audio \in [song : Songs \union {NoSong}, sounding : BOOLEAN]
  /\ audio.sounding => audio.song # NoSong
  /\ load \in Loads
  /\ load = NoLoad \/ audio.song = NoSong

\* The preview: only one that is there is owed a resume.
Previews ==
  /\ preview \in [of : Songs \union {NoSong}, pending : BOOLEAN, paused : BOOLEAN,
                  asked : {"no", "again", "refused"}]
  /\ preview.of = NoSong => preview.paused /\ ~preview.pending
  /\ resumeMain \in BOOLEAN
  /\ resumeMain => preview.of # NoSong

\* A track that is owed a resume neither sounds nor loads, unless it was
\* started from outside.
Owed == resumeMain /\ (audio.sounding \/ load # NoLoad) => outside

PlayerInv == Elements /\ Previews /\ Owed

QueueTypes ==
  /\ queue \in Seq(Tracks)
  /\ index \in Nat
  /\ source \in DOMAIN Lists
  /\ stored \in [queue : Seq(Tracks), index : Nat, source : DOMAIN Lists]

LEMMA TrackOf ==
  ASSUME NEW q \in Seq(Tracks), NEW i, Holds(q, i)
  PROVE  q[i] \in Tracks /\ q[i].id \in Songs /\ q[i].id # NoSong /\ i \in Nat /\ q # <<>>
<1>1. q[i] \in Tracks /\ i \in Nat /\ q # <<>>
  BY DEF Holds
<1> QED
  BY <1>1, QueueAssumption DEF Tracks, QueueAssumption

LEMMA Interrupts ==
  ASSUME Previews, InterruptPreview
  PROVE  Previews' /\ Owed'
<1>1. preview' = Cleared /\ resumeMain' = FALSE
  BY DEF InterruptPreview
<1>2. Cleared = [of |-> NoSong, pending |-> FALSE, paused |-> TRUE,
                 asked |-> IF preview.asked = "no" THEN "no" ELSE "refused"]
  <2> DEFINE v == IF preview.asked = "no" THEN "no" ELSE "refused"
  <2>1. Cleared = [NoPreview EXCEPT !.asked = v]
    BY DEF Cleared
  <2> HIDE DEF v
  <2>2. Cleared = [of |-> NoSong, pending |-> FALSE, paused |-> TRUE, asked |-> v]
    BY <2>1 DEF NoPreview
  <2> QED
    BY <2>2 DEF v
<1> QED
  BY <1>1, <1>2 DEF Previews, Owed

LEMMA Begins ==
  ASSUME Elements, NEW s \in Songs, NEW kind \in {"bare", "round", "sweep"}, NEW at \in Nat,
         NEW tried \in SUBSET Nat, BeginLoad(s, kind, at, tried)
  PROVE  Elements' /\ song' = s
<1> DEFINE l == [song |-> s, kind |-> kind, at |-> at, tried |-> tried]
<1>1. load' = l /\ audio' = NoElement /\ song' = s
  BY DEF BeginLoad
<1>2. l \in Loads
  BY DEF Loads
<1> HIDE DEF l
<1> QED
  BY <1>1, <1>2 DEF Elements, NoElement

LEMMA Stops ==
  ASSUME StopPlayer
  PROVE  Elements' /\ song' = NoSong
BY DEF StopPlayer, Elements, Loads, NoElement

LEMMA Silences ==
  ASSUME Elements, Silence
  PROVE  Elements' /\ song' = song /\ load' = load /\ ~audio'.sounding
<1>1. audio' = [audio EXCEPT !.sounding = FALSE] /\ song' = song /\ load' = load
  BY DEF Silence
<1>2. audio \in [song : Songs \union {NoSong}, sounding : BOOLEAN] => audio'.song = audio.song
  BY <1>1
<1> QED
  BY <1>1, <1>2 DEF Elements

LEMMA Resumes ==
  ASSUME Elements, QueueTypes, ResumeMain
  PROVE  Elements'
<1> DEFINE shown == IF song # NoSong THEN song
                    ELSE IF Holds(queue, index) THEN queue[index].id ELSE NoSong
<1>1. CASE audio.song # NoSong
  <2>1. audio' = [audio EXCEPT !.sounding = TRUE] /\ song' = song /\ load' = load
    BY <1>1 DEF ResumeMain
  <2>2. load = NoLoad
    BY <1>1 DEF Elements, NoElement
  <2> QED
    BY <1>1, <2>1, <2>2 DEF Elements
<1>2. CASE audio.song = NoSong /\ shown # NoSong
  <2>1. shown \in Songs
    BY <1>2, TrackOf DEF Elements, QueueTypes
  <2>2. BeginLoad(shown, "bare", 0, {})
    BY <1>2 DEF ResumeMain
  <2> HIDE DEF shown
  <2> QED
    BY <2>1, <2>2, Begins
<1>3. CASE audio.song = NoSong /\ shown = NoSong
  BY <1>3 DEF ResumeMain, mainVars, Elements
<1> QED
  BY <1>1, <1>2, <1>3

LEMMA Toggles ==
  ASSUME Elements, QueueTypes, TogglePlayPause
  PROVE  Elements'
BY Silences, Resumes DEF TogglePlayPause

LEMMA MainStays ==
  ASSUME Elements, UNCHANGED mainVars
  PROVE  Elements' /\ song' = song /\ load' = load /\ audio' = audio
BY DEF Elements, mainVars

LEMMA PreviewStays ==
  ASSUME Previews, UNCHANGED previewVars
  PROVE  Previews' /\ resumeMain' = resumeMain
BY DEF Previews, previewVars

LEMMA PlayerStays ==
  ASSUME PlayerInv, UNCHANGED <<mainVars, previewVars>>, outside => outside'
  PROVE  PlayerInv' /\ song' = song
BY MainStays, PreviewStays DEF PlayerInv, Owed

LEMMA Plays ==
  ASSUME PlayerInv, NEW q \in Seq(Tracks), NEW i, Holds(q, i), NEW tried \in SUBSET Nat,
         PlayAtIndex(q, i, tried)
  PROVE  PlayerInv' /\ song' = q[i].id
<1>1. q[i].id \in Songs /\ i \in Nat
  BY TrackOf
<1> DEFINE s == q[i].id
           kind == IF Live THEN "round" ELSE "sweep"
<1>2. BeginLoad(s, kind, i, tried) /\ InterruptPreview
  BY DEF PlayAtIndex
<1>3. s \in Songs /\ kind \in {"bare", "round", "sweep"}
  BY <1>1
<1>4. PlayerInv' /\ song' = s
  <2> HIDE DEF s, kind
  <2> QED
    BY <1>1, <1>2, <1>3, Begins, Interrupts DEF PlayerInv
<1> QED
  BY <1>4

LEMMA TogglesSong ==
  ASSUME PlayerInv, QueueTypes, ToggleSong
  PROVE  PlayerInv'
BY Toggles, Interrupts DEF PlayerInv, ToggleSong

LEMMA Restarts ==
  ASSUME PlayerInv, QueueTypes, Restart, outside' = outside
  PROVE  PlayerInv'
BY TogglesSong, PlayerStays DEF Restart

LEMMA StopsPreview ==
  ASSUME PlayerInv, QueueTypes, StopPreview
  PROVE  PlayerInv'
<1>1. preview' = Cleared /\ resumeMain' = FALSE
  BY DEF StopPreview
<1>2. Previews' /\ Owed'
  BY <1>1, Interrupts DEF InterruptPreview, PlayerInv
<1>3. Elements'
  BY Resumes, MainStays DEF StopPreview, PlayerInv
<1> QED
  BY <1>2, <1>3 DEF PlayerInv

(***************************************************************************)
(* What the window does by itself to its queue                             *)
(***************************************************************************)

Modes ==
  /\ repeat \in {"off", "all", "one"}
  /\ drag \in {NoDrag} \union [from : Nat \ {0}, over : Nat \ {0}]

\* The row that is marked is a row, unless there is none.
Placed(q, i) == IF q = <<>> THEN i = 0 ELSE Holds(q, i)

\* If the mark is on the track shown, that goes on and is still in q, the mark
\* is on it at i in q.
Marked(q, i) ==
  /\ song # NoSong /\ song' = song
  /\ Holds(queue, index) /\ queue[index].id = song
  /\ \E k \in 1 .. Len(q) : q[k].id = song
  => Holds(q, i) /\ q[i].id = song

\* The queue stays, or is marked to be written.
Stays ==
  /\ UNCHANGED <<queue, index, source, stored, toPeer, last, overlap>>
  /\ dirty => dirty'

\* The mark goes to the track that is shown from now on.
Moves ==
  \E i \in Nat : /\ Holds(queue, i) /\ MoveIndex(i)
                 /\ source' = source /\ song' = queue[i].id

\* The queue is edited, and a shuffle announced to the room there is.
Announced(frames) ==
  frames = <<>> \/ (Live /\ \E seed \in Seeds : frames = <<[op |-> "shuffle", seed |-> seed]>>)
Edits ==
  \E q \in Seq(Tracks), i \in Nat : \E frames :
    /\ Announced(frames) /\ EditQueueAnd(q, i, frames)
    /\ source' \in DOMAIN Lists
    /\ Placed(queue, index) => Placed(q, i)
    /\ Marked(q, i)

QueueStep ==
  /\ UNCHANGED <<room, peer, fromPeer>>
  /\ Stays \/ Moves \/ Edits

Local == QueueTypes /\ PlayerInv /\ Modes
LocalStep == PlayerInv' /\ Modes' /\ QueueStep

LEMMA EditsAre ==
  ASSUME NEW q \in Seq(Tracks), NEW i \in Nat, EditQueue(q, i), source' \in DOMAIN Lists,
         Placed(queue, index) => Placed(q, i), Marked(q, i)
  PROVE  Edits
<1>1. Announced(<<>>)
  BY DEF Announced
<1>2. EditQueueAnd(q, i, <<>>)
  BY DEF EditQueue
<1> QED
  BY <1>1, <1>2 DEF Edits

LEMMA ModesStay ==
  ASSUME Modes, UNCHANGED <<repeat, drag>>
  PROVE  Modes'
BY DEF Modes

LEMMA KeepStays ==
  ASSUME KeepQueue
  PROVE  Stays
BY DEF KeepQueue, Stays

\* A list that is started: its track at i is the one shown.
LEMMA Starts ==
  ASSUME Local, NEW q \in Seq(Tracks), NEW i, Holds(q, i), NEW from \in DOMAIN Lists,
         StartQueue(q, i, from)
  PROVE  PlayerInv' /\ Edits
<1>1. EditQueue(q, i) /\ source' = from /\ PlayAtIndex(q, i, {})
  BY DEF StartQueue
<1>2. q # <<>> /\ i \in Nat /\ q[i].id # NoSong
  BY TrackOf
<1>3. PlayerInv' /\ song' = q[i].id
  <2>1. {} \in SUBSET Nat
    OBVIOUS
  <2> QED
    BY <1>1, <2>1, Plays DEF Local
<1>4. Placed(q, i) /\ Marked(q, i)
  BY <1>2, <1>3 DEF Placed, Marked
<1> QED
  BY <1>1, <1>2, <1>3, <1>4, EditsAre

\* Shuffled or not, a list has its tracks.
LEMMA OrderedIs ==
  ASSUME NEW l \in DOMAIN Lists, NEW seed \in Seeds
  PROVE  /\ Ordered(Lists[l], seed) \in Seq(Tracks)
         /\ Holds(Ordered(Lists[l], seed), 1)
         /\ \A i \in 1 .. Len(Lists[l]) :
              Holds(Ordered(Lists[l], seed), Find(Ordered(Lists[l], seed), Lists[l][i].id))
<1> DEFINE list == Lists[l]
           q == Ordered(list, seed)
<1>1. list \in Seq(Tracks) /\ list # <<>> /\ Draws(seed, list)
  BY QueueAssumption DEF QueueAssumption
<1>2. q \in Seq(Tracks) /\ Len(q) = Len(list)
      /\ \A j \in 1 .. Len(list) : \E i \in 1 .. Len(list) : q[i] = list[j]
  <2>1. CASE shuffle
    <3>1. q = Permute(list, seed)
      BY <2>1 DEF Ordered
    <3> HIDE DEF q, list
    <3> QED
      BY <1>1, <3>1, PermuteIs
  <2>2. CASE ~shuffle
    <3>1. q = list
      BY <2>2 DEF Ordered
    <3> HIDE DEF q, list
    <3> QED
      BY <1>1, <3>1
  <2> QED
    BY <2>1, <2>2
<1> HIDE DEF q, list
<1>3. Holds(q, 1)
  <2>1. Len(list) \in Nat \ {0}
    BY <1>1
  <2> QED
    BY <1>2, <2>1 DEF Holds
<1>4. ASSUME NEW i \in 1 .. Len(list) PROVE Holds(q, Find(q, list[i].id))
  <2>1. PICK j \in 1 .. Len(q) : q[j] = list[i]
    BY <1>2
  <2>2. q[j].id = list[i].id
    BY <2>1
  <2> DEFINE id == list[i].id
  <2> HIDE DEF id
  <2>3. q[j].id = id
    BY <2>2 DEF id
  <2>4. Find(q, id) \in 1 .. Len(q)
    BY <1>2, <2>3, FindIs
  <2> QED
    BY <2>4 DEF Holds, id
<1> QED
  BY <1>2, <1>3, <1>4 DEF q, list

LEMMA PlaySelectionStep ==
  ASSUME Local, NEW l \in DOMAIN Lists, NEW seed \in Seeds, NEW i \in 1 .. Len(Lists[l]),
         PlaySelection(l, Lists[l][i].id, seed)
  PROVE  LocalStep
<1> DEFINE clicked == Lists[l][i].id
           q == Ordered(Lists[l], seed)
           own == song = clicked /\ IsOwnList(l, source, Lists[l], queue, NoList)
<1>1. Steady
  BY DEF PlaySelection
<1>2. CASE own
  <2>1. Restart /\ Stays
    BY <1>2 DEF PlaySelection, Stays
  <2>2. PlayerInv'
    BY <1>1, <2>1, Restarts DEF Local, Steady
  <2> QED
    BY <1>1, <2>1, <2>2, ModesStay DEF Local, LocalStep, QueueStep, Steady
<1>3. CASE ~own
  <2>1. StartQueue(q, Find(q, clicked), l)
    BY <1>3 DEF PlaySelection
  <2>2. q \in Seq(Tracks) /\ Holds(q, Find(q, clicked))
    BY OrderedIs
  <2> HIDE DEF q, clicked
  <2>3. PlayerInv' /\ Edits
    BY <2>1, <2>2, Starts
  <2> QED
    BY <1>1, <2>3, ModesStay DEF Local, LocalStep, QueueStep, Steady
<1> QED
  BY <1>2, <1>3

LEMMA PlayListStep ==
  ASSUME Local, NEW l \in DOMAIN Lists, NEW seed \in Seeds, PlayList(l, seed)
  PROVE  LocalStep
<1> DEFINE q == Ordered(Lists[l], seed)
           own == song # NoSong /\ IsOwnList(l, source, Lists[l], queue, NoList)
<1>1. Steady
  BY DEF PlayList
<1>2. CASE own
  <2>1. ToggleSong /\ Stays
    BY <1>2 DEF PlayList, Stays
  <2>2. PlayerInv'
    BY <2>1, TogglesSong DEF Local
  <2> QED
    BY <1>1, <2>1, <2>2, ModesStay DEF Local, LocalStep, QueueStep, Steady
<1>3. CASE ~own
  <2>1. StartQueue(q, 1, l)
    BY <1>3 DEF PlayList
  <2>2. q \in Seq(Tracks) /\ Holds(q, 1)
    BY OrderedIs
  <2> HIDE DEF q
  <2>3. PlayerInv' /\ Edits
    BY <2>1, <2>2, Starts
  <2> QED
    BY <1>1, <2>3, ModesStay DEF Local, LocalStep, QueueStep, Steady
<1> QED
  BY <1>2, <1>3

LEMMA PlayNowStep ==
  ASSUME Local, NEW track \in Tracks, PlayNow(track)
  PROVE  LocalStep
<1>1. Steady
  BY DEF PlayNow
<1>2. CASE Holds(queue, index)
  <2> DEFINE q == [queue EXCEPT ![index] = track]
  <2>1. EditQueue(q, index) /\ source' = source /\ PlayAtIndex(q, index, {})
    BY <1>2 DEF PlayNow
  <2>2. q \in Seq(Tracks) /\ Holds(q, index)
    BY <1>2 DEF Local, QueueTypes, Holds
  <2> HIDE DEF q
  <2>3. q # <<>> /\ index \in Nat /\ {} \in SUBSET Nat
    BY <2>2, TrackOf
  <2>4. PlayerInv' /\ song' = q[index].id
    BY <2>1, <2>2, <2>3, Plays DEF Local
  <2>5. Placed(q, index) /\ Marked(q, index)
    BY <2>2, <2>3, <2>4 DEF Placed, Marked
  <2>6. source' \in DOMAIN Lists
    BY <2>1 DEF Local, QueueTypes
  <2>7. Edits
    BY <2>1, <2>2, <2>3, <2>5, <2>6, EditsAre
  <2> QED
    BY <1>1, <2>4, <2>7, ModesStay DEF Local, LocalStep, QueueStep, Steady
<1>3. CASE ~Holds(queue, index)
  <2> DEFINE q == <<track>>
  <2>1. StartQueue(q, 1, NoList)
    BY <1>3 DEF PlayNow
  <2>2. q \in Seq(Tracks) /\ Holds(q, 1) /\ NoList \in DOMAIN Lists
    BY QueueAssumption DEF Holds, QueueAssumption
  <2> HIDE DEF q
  <2>3. PlayerInv' /\ Edits
    BY <2>1, <2>2, Starts
  <2> QED
    BY <1>1, <2>3, ModesStay DEF Local, LocalStep, QueueStep, Steady
<1> QED
  BY <1>2, <1>3

LEMMA EnqueueManyStep ==
  ASSUME Local, NEW track \in Tracks, EnqueueMany(<<track>>)
  PROVE  LocalStep
<1> DEFINE to == IF Holds(queue, index) THEN index ELSE Len(queue)
           q == Splice(queue, <<track>>, to)
           i == IF index = 0 THEN 1 ELSE index
           n == Len(queue)
<1>1. Steady /\ source' = source /\ source' \in DOMAIN Lists
  BY DEF EnqueueMany, Local, QueueTypes
<1>2. to \in Nat /\ to <= n /\ n \in Nat /\ index \in Nat /\ queue \in Seq(Tracks)
  BY DEF Local, QueueTypes, Holds
<1> HIDE DEF to
<1>3. q \in Seq(Tracks) /\ Len(q) = n + 1 /\ q[to + 1] = track
  BY <1>2, SpliceOne
<1>4. \A j \in 1 .. to : q[j] = queue[j]
  BY <1>2, SpliceOne
<1>5. CASE song = NoSong
  <2>1. EditQueue(q, to + 1) /\ PlayAtIndex(q, to + 1, {})
    BY <1>5 DEF EnqueueMany, to
  <2> HIDE DEF q, n
  <2>2. Holds(q, to + 1) /\ to + 1 \in Nat
    BY <1>2, <1>3 DEF Holds
  <2>3. q # <<>> /\ {} \in SUBSET Nat
    BY <1>3, <2>2, TrackOf
  <2>4. PlayerInv'
    BY <1>3, <2>1, <2>2, <2>3, Plays DEF Local
  <2>5. Placed(q, to + 1) /\ Marked(q, to + 1)
    BY <1>5, <2>2, <2>3 DEF Placed, Marked
  <2>6. Edits
    BY <1>1, <1>3, <2>1, <2>2, <2>5, EditsAre
  <2> QED
    BY <1>1, <2>4, <2>6, ModesStay DEF Local, LocalStep, QueueStep, Steady
<1>6. CASE song # NoSong
  <2>1. EditQueue(q, i) /\ UNCHANGED <<mainVars, previewVars>>
    BY <1>6 DEF EnqueueMany, to
  <2>2. i \in Nat
    BY <1>2
  <2>3. PlayerInv'
    BY <1>1, <2>1, PlayerStays DEF Local, Steady
  <2>4. Holds(queue, index) => Holds(q, i) /\ q[i] = queue[index]
    <3> SUFFICES ASSUME Holds(queue, index) PROVE Holds(q, i) /\ q[i] = queue[index]
      OBVIOUS
    <3>1. to = index /\ i = index /\ index \in 1 .. n
      BY <1>2 DEF to, Holds
    <3> HIDE DEF q, n, i
    <3> QED
      BY <1>2, <1>3, <1>4, <3>1 DEF Holds
  <2>5. Placed(queue, index) => Placed(q, i)
    <3>1. CASE queue = <<>> /\ index = 0
      <4>1. n = 0 /\ i = 1
        BY <3>1
      <4> HIDE DEF q, n, i
      <4>2. Len(q) = 1
        BY <1>3, <4>1
      <4>3. q # <<>> /\ Holds(q, i)
        BY <4>1, <4>2 DEF Holds
      <4> QED
        BY <4>3 DEF Placed
    <3>2. CASE Holds(queue, index)
      <4> HIDE DEF q, n, i
      <4>1. Holds(q, i) /\ q \in Seq(Tracks)
        BY <1>3, <2>4, <3>2
      <4>2. q # <<>>
        BY <4>1, TrackOf
      <4> QED
        BY <4>1, <4>2 DEF Placed
    <3> QED
      BY <3>1, <3>2 DEF Placed
  <2>6. Marked(q, i)
    BY <2>4 DEF Marked
  <2> HIDE DEF q, i
  <2>7. Edits
    BY <1>1, <1>3, <2>1, <2>2, <2>5, <2>6, EditsAre
  <2> QED
    BY <1>1, <2>3, <2>7, ModesStay DEF Local, LocalStep, QueueStep, Steady
<1> QED
  BY <1>5, <1>6

\* A queue that is shown: the mark is on the track shown, or nothing is.
LEMMA Shows ==
  ASSUME Local, NEW q \in Seq(Tracks), NEW i \in Nat, ShowQueue(q, i), outside' = outside,
         Placed(queue, index) => Placed(q, i)
  PROVE  PlayerInv' /\ Edits
<1>1. EditQueue(q, i) /\ source' = source
  BY DEF ShowQueue
<1>2. CASE Holds(q, i)
  <2>1. song' = q[i].id /\ UNCHANGED <<playing, audio, load, media, previewVars>>
    BY <1>2 DEF ShowQueue
  <2>2. q[i].id \in Songs
    BY <1>2, TrackOf
  <2>3. Previews' /\ resumeMain' = resumeMain
    BY <2>1, PreviewStays DEF Local, PlayerInv
  <2>4. PlayerInv'
    BY <2>1, <2>2, <2>3 DEF Local, PlayerInv, Elements, Owed
  <2>5. Marked(q, i)
    BY <1>2, <2>1 DEF Marked
  <2> QED
    BY <1>1, <2>4, <2>5, EditsAre DEF Local, QueueTypes
<1>3. CASE ~Holds(q, i)
  <2>1. StopPlayer /\ InterruptPreview
    BY <1>3 DEF ShowQueue
  <2>2. PlayerInv' /\ song' = NoSong
    BY <2>1, Stops, Interrupts DEF Local, PlayerInv
  <2>3. Marked(q, i)
    BY <2>2 DEF Marked
  <2> QED
    BY <1>1, <2>2, <2>3, EditsAre DEF Local, QueueTypes
<1> QED
  BY <1>2, <1>3

LEMMA UnqueueStep ==
  ASSUME Local, NEW i \in 1 .. Len(queue), Unqueue(i)
  PROVE  LocalStep
<1> DEFINE q == RemoveAt(queue, i)
           id == queue[index].id
           at == Find(q, id)
           k == CASE q = <<>> -> 0
                  [] q # <<>> /\ ~Holds(queue, index) -> 1
                  [] OTHER -> IF at # 0 THEN at ELSE ClampIndex(i, Len(q))
           n == Len(queue)
<1>1. Steady /\ ShowQueue(q, k)
  BY DEF Unqueue
<1>2. queue \in Seq(Tracks) /\ n \in Nat /\ i \in 1 .. n /\ queue # <<>>
  BY DEF Local, QueueTypes
<1>3. q \in Seq(Tracks) /\ Len(q) = n - 1
  BY <1>2, RemoveIs
<1> HIDE DEF id, q
<1>4. at \in Nat /\ (at # 0 => at \in 1 .. Len(q))
  BY <1>3, FindIs
<1> HIDE DEF at, n
<1>5. ASSUME q # <<>> PROVE ClampIndex(i, Len(q)) \in 1 .. Len(q)
  <2>1. Len(q) # 0 /\ Len(q) \in Nat
    BY <1>3, <1>5
  <2> QED
    BY <1>2, <2>1 DEF ClampIndex
<1>6. k \in Nat /\ (Placed(queue, index) => Placed(q, k))
  <2>1. CASE q = <<>>
    <3>1. k = 0
      BY <2>1
    <3> HIDE DEF k
    <3> QED
      BY <2>1, <3>1 DEF Placed
  <2>2. CASE q # <<>> /\ ~Holds(queue, index)
    <3>1. k = 1
      BY <2>2
    <3> HIDE DEF k
    <3> QED
      BY <1>2, <2>2, <3>1 DEF Placed
  <2>3. CASE q # <<>> /\ Holds(queue, index)
    <3>1. k = IF at # 0 THEN at ELSE ClampIndex(i, Len(q))
      BY <2>3
    <3>2. k \in 1 .. Len(q)
      BY <1>4, <1>5, <2>3, <3>1
    <3> HIDE DEF k
    <3> QED
      BY <1>3, <2>3, <3>2 DEF Placed, Holds
  <2> QED
    BY <2>1, <2>2, <2>3
<1> HIDE DEF k
<1>7. PlayerInv' /\ Edits
  BY <1>1, <1>3, <1>6, Shows DEF Steady
<1> QED
  BY <1>1, <1>7, ModesStay DEF Local, LocalStep, QueueStep, Steady

LEMMA MovesQueue ==
  ASSUME Local, NEW from \in 1 .. Len(queue), NEW to \in 1 .. Len(queue), MoveQueue(from, to),
         outside' = outside
  PROVE  PlayerInv' /\ Edits
<1> DEFINE q == Moved(queue, from, to)
           id == queue[index].id
           k == IF Holds(queue, index) THEN Find(q, id) ELSE 1
           n == Len(queue)
<1>1. ShowQueue(q, k)
  BY DEF MoveQueue
<1>2. queue \in Seq(Tracks) /\ n \in Nat /\ 1 \in 1 .. n
  BY DEF Local, QueueTypes
<1>3. q \in Seq(Tracks) /\ Len(q) = n
  BY <1>2, MovedIs
<1>4. \A j \in 1 .. n : \E r \in 1 .. n : q[r] = queue[j]
  BY <1>2, MovedIs
<1> HIDE DEF q, n
<1>5. k \in 1 .. n
  <2>1. CASE Holds(queue, index)
    <3>1. PICK r \in 1 .. n : q[r] = queue[index]
      BY <1>4, <2>1 DEF Holds, n
    <3>2. r \in 1 .. Len(q) /\ q[r].id = id
      BY <1>3, <3>1
    <3> HIDE DEF id
    <3>3. Find(q, id) \in 1 .. Len(q)
      BY <1>3, <3>2, FindIs
    <3> QED
      BY <1>3, <2>1, <3>3
  <2>2. CASE ~Holds(queue, index)
    BY <1>2, <2>2
  <2> QED
    BY <2>1, <2>2
<1> HIDE DEF k
<1>6. Holds(q, k) /\ k \in Nat
  BY <1>2, <1>3, <1>5 DEF Holds
<1>7. Placed(q, k)
  BY <1>3, <1>6, TrackOf DEF Placed
<1> QED
  BY <1>1, <1>3, <1>6, <1>7, Shows

LEMMA MoveDownStep ==
  ASSUME Local, NEW i \in 1 .. Len(queue), MoveDown(i)
  PROVE  LocalStep
<1>1. Steady /\ i < Len(queue) /\ MoveQueue(i, i + 1)
  BY DEF MoveDown
<1>2. i + 1 \in 1 .. Len(queue)
  BY <1>1 DEF Local, QueueTypes
<1>3. PlayerInv' /\ Edits
  BY <1>1, <1>2, MovesQueue DEF Steady
<1> QED
  BY <1>1, <1>3, ModesStay DEF Local, LocalStep, QueueStep, Steady

LEMMA MoveAfterCurrentStep ==
  ASSUME Local, NEW i \in 1 .. Len(queue), MoveAfterCurrent(i)
  PROVE  LocalStep
<1> DEFINE pinned == PinAfter(queue, index, i)
           q == pinned.queue
           k == pinned.index
<1>1. Steady /\ CanPin(queue, index, i) /\ ShowQueue(q, k)
  BY DEF MoveAfterCurrent
<1>2. queue \in Seq(Tracks)
  BY DEF Local, QueueTypes
<1>3. q \in Seq(Tracks) /\ k \in 1 .. Len(q)
  BY <1>1, <1>2, PinIs
<1> HIDE DEF q, k
<1>4. Holds(q, k) /\ k \in Nat
  BY <1>3 DEF Holds
<1>5. Placed(q, k)
  BY <1>3, <1>4, TrackOf DEF Placed
<1>6. PlayerInv' /\ Edits
  BY <1>1, <1>3, <1>4, <1>5, Shows DEF Steady
<1> QED
  BY <1>1, <1>6, ModesStay DEF Local, LocalStep, QueueStep, Steady

LEMMA DragStartStep ==
  ASSUME Local, NEW i \in 1 .. Len(queue), DragStart(i)
  PROVE  LocalStep
<1>1. KeepQueue /\ UNCHANGED <<repeat, mainVars, previewVars, room, peer, fromPeer, outside>>
      /\ drag' = [from |-> i, over |-> i]
  BY DEF DragStart
<1>2. i \in Nat \ {0}
  BY DEF Local, QueueTypes
<1>3. Modes'
  BY <1>1, <1>2 DEF Local, Modes
<1>4. PlayerInv'
  BY <1>1, PlayerStays DEF Local
<1> QED
  BY <1>1, <1>3, <1>4, KeepStays DEF LocalStep, QueueStep

LEMMA DragOverStep ==
  ASSUME Local, NEW i \in 1 .. Len(queue), DragOver(i)
  PROVE  LocalStep
<1>1. KeepQueue /\ UNCHANGED <<repeat, mainVars, previewVars, room, peer, fromPeer, outside>>
      /\ drag' = [drag EXCEPT !.over = i] /\ drag # NoDrag
  BY DEF DragOver
<1>2. i \in Nat \ {0}
  BY DEF Local, QueueTypes
<1>3. Modes'
  BY <1>1, <1>2 DEF Local, Modes
<1>4. PlayerInv'
  BY <1>1, PlayerStays DEF Local
<1> QED
  BY <1>1, <1>3, <1>4, KeepStays DEF LocalStep, QueueStep

LEMMA DropStep ==
  ASSUME Local, Drop
  PROVE  LocalStep
<1> DEFINE to == IF drag.over > Len(queue) THEN Len(queue) ELSE drag.over
           from == drag.from
           moves == from # drag.over /\ Holds(queue, from) /\ from # to
<1>1. drag # NoDrag /\ drag' = NoDrag /\ UNCHANGED <<repeat, room, peer, fromPeer, outside>>
  BY DEF Drop
<1>2. Modes'
  BY <1>1 DEF Local, Modes
<1>3. CASE moves
  <2>1. MoveQueue(from, to)
    BY <1>3 DEF Drop
  <2>2. drag.over \in Nat \ {0} /\ Len(queue) \in Nat
    BY <1>1 DEF Local, Modes, QueueTypes
  <2>3. from \in 1 .. Len(queue) /\ to \in 1 .. Len(queue)
    BY <1>3, <2>2 DEF Holds
  <2> HIDE DEF from, to
  <2>4. PlayerInv' /\ Edits
    BY <1>1, <2>1, <2>3, MovesQueue
  <2> QED
    BY <1>1, <1>2, <2>4 DEF LocalStep, QueueStep
<1>4. CASE ~moves
  <2>1. KeepQueue /\ UNCHANGED <<mainVars, previewVars>>
    BY <1>4 DEF Drop
  <2>2. PlayerInv'
    BY <1>1, <2>1, PlayerStays DEF Local
  <2> QED
    BY <1>1, <1>2, <2>1, <2>2, KeepStays DEF LocalStep, QueueStep
<1> QED
  BY <1>3, <1>4

\* The mark goes to a row of the queue, which is played.
LEMMA GoesTo ==
  ASSUME Local, NEW i, Holds(queue, i), MoveIndex(i), source' = source, PlayAtIndex(queue, i, {})
  PROVE  PlayerInv' /\ Moves
<1>1. queue \in Seq(Tracks) /\ {} \in SUBSET Nat
  BY DEF Local, QueueTypes
<1>2. PlayerInv' /\ song' = queue[i].id
  BY <1>1, Plays DEF Local
<1> QED
  BY <1>1, <1>2, TrackOf DEF Moves

LEMMA PlayAtStep ==
  ASSUME Local, NEW i \in 1 .. Len(queue), PlayAt(i)
  PROVE  LocalStep
<1>1. Steady /\ source' = source
  BY DEF PlayAt
<1>2. CASE i # index
  <2>1. MoveIndex(i) /\ PlayAtIndex(queue, i, {}) /\ Holds(queue, i)
    BY <1>2 DEF PlayAt, Holds
  <2>2. PlayerInv' /\ Moves
    BY <1>1, <2>1, GoesTo
  <2> QED
    BY <1>1, <2>2, ModesStay DEF Local, LocalStep, QueueStep, Steady
<1>3. CASE i = index
  <2>1. Restart /\ UNCHANGED <<queue, index, stored, dirty, toPeer, last, overlap>>
    BY <1>3 DEF PlayAt
  <2>2. PlayerInv'
    BY <1>1, <2>1, Restarts DEF Local, Steady
  <2>3. Stays
    BY <1>1, <2>1 DEF Stays
  <2> QED
    BY <1>1, <2>2, <2>3, ModesStay DEF Local, LocalStep, QueueStep, Steady
<1> QED
  BY <1>2, <1>3

LEMMA GoToStep ==
  ASSUME Local, NEW i, Steady, GoTo(i)
  PROVE  LocalStep
<1>1. PlayerInv' /\ Moves
  BY GoesTo DEF GoTo
<1> QED
  BY <1>1, ModesStay DEF Local, LocalStep, QueueStep, Steady

LEMMA TogglePressStep ==
  ASSUME Local, TogglePress
  PROVE  LocalStep
<1>1. Steady /\ ToggleSong /\ KeepQueue
  BY DEF TogglePress
<1>2. PlayerInv'
  BY <1>1, TogglesSong DEF Local
<1> QED
  BY <1>1, <1>2, ModesStay, KeepStays DEF Local, LocalStep, QueueStep, Steady

LEMMA CycleRepeatStep ==
  ASSUME Local, CycleRepeat
  PROVE  LocalStep
<1>1. KeepQueue /\ UNCHANGED <<mainVars, previewVars, drag, room, peer, fromPeer, outside>>
  BY DEF CycleRepeat
<1>2. repeat' \in {"off", "all", "one"}
  BY DEF CycleRepeat, Local, Modes
<1>3. PlayerInv'
  BY <1>1, PlayerStays DEF Local
<1> QED
  BY <1>1, <1>2, <1>3, KeepStays DEF Local, Modes, LocalStep, QueueStep

LEMMA ToggleShuffleStep ==
  ASSUME Local, NEW seed \in Seeds, ToggleShuffle(seed)
  PROVE  LocalStep
<1>1. UNCHANGED <<repeat, mainVars, previewVars, drag, room, peer, fromPeer, outside>>
  BY DEF ToggleShuffle
<1>2. PlayerInv' /\ song' = song /\ Modes'
  BY <1>1, PlayerStays, ModesStay DEF Local
<1>3. CASE shuffle
  BY <1>1, <1>2, <1>3, KeepStays DEF ToggleShuffle, LocalStep, QueueStep
<1>4. CASE ~shuffle
  <2> DEFINE frames == IF Live THEN <<[op |-> "shuffle", seed |-> seed]>> ELSE <<>>
             q == Permute(queue, seed)
             id == queue[index].id
             k == IF Holds(queue, index) THEN Find(q, id) ELSE index
             n == Len(queue)
  <2>1. Draws(seed, queue) /\ EditQueueAnd(q, k, frames) /\ source' = source
    BY <1>4 DEF ToggleShuffle, ShuffleAnd
  <2>2. Announced(frames)
    BY DEF Announced
  <2>3. queue \in Seq(Tracks) /\ index \in Nat /\ source' \in DOMAIN Lists /\ n \in Nat
    BY <2>1 DEF Local, QueueTypes
  <2>4. q \in Seq(Tracks) /\ Len(q) = n /\ \A j \in 1 .. n : \E i \in 1 .. n : q[i] = queue[j]
    BY <2>1, <2>3, PermuteIs
  <2> HIDE DEF frames, q, n
  <2>5. Holds(queue, index) => Holds(q, k) /\ k \in Nat /\ q[k].id = queue[index].id
    <3> SUFFICES ASSUME Holds(queue, index)
                 PROVE  Holds(q, k) /\ k \in Nat /\ q[k].id = id
      OBVIOUS
    <3>1. PICK r \in 1 .. n : q[r] = queue[index]
      BY <2>4 DEF Holds, n
    <3>2. r \in 1 .. Len(q) /\ q[r].id = id
      BY <2>4, <3>1
    <3>3. k = Find(q, id)
      OBVIOUS
    <3> HIDE DEF id, k
    <3>4. k \in 1 .. Len(q) /\ q[k].id = id
      BY <2>4, <3>2, <3>3, FindIs
    <3> QED
      BY <3>4 DEF Holds
  <2>6. ~Holds(queue, index) => k = index
    OBVIOUS
  <2> HIDE DEF k, id
  <2>7. Placed(queue, index) => Placed(q, k)
    <3>1. CASE Holds(queue, index)
      BY <2>4, <2>5, <3>1, TrackOf DEF Placed
    <3>2. CASE queue = <<>> /\ ~Holds(queue, index)
      <4>1. n = 0
        BY <3>2 DEF n
      <4>2. q = <<>>
        BY <2>4, <4>1
      <4> QED
        BY <2>6, <3>2, <4>2 DEF Placed
    <3> QED
      BY <3>1, <3>2 DEF Placed
  <2>8. Marked(q, k)
    BY <2>5 DEF Marked
  <2>9. k \in Nat
    BY <2>3, <2>5, <2>6
  <2>10. Edits
    BY <2>1, <2>2, <2>3, <2>4, <2>7, <2>8, <2>9 DEF Edits
  <2> QED
    BY <1>1, <1>2, <2>10 DEF LocalStep, QueueStep
<1> QED
  BY <1>3, <1>4

LEMMA LoadIs ==
  ASSUME Elements, load # NoLoad
  PROVE  /\ load.song \in Songs /\ load.song # NoSong /\ load.at \in Nat /\ load.tried \in SUBSET Nat
         /\ load.kind \in {"bare", "round", "sweep"}
         /\ audio.song = NoSong /\ ~audio.sounding
BY QueueAssumption DEF Elements, Loads, QueueAssumption

LEMMA ResolveStep ==
  ASSUME Local, Resolve
  PROVE  LocalStep
<1> DEFINE i == Find(queue, load.song)
           q == [queue EXCEPT ![i].yt = TRUE]
<1>1. i # 0 /\ EditQueue(q, index) /\ UNCHANGED <<source, mainVars, previewVars>> /\ Alone
  BY DEF Resolve
<1>2. queue \in Seq(Tracks) /\ index \in Nat /\ source' \in DOMAIN Lists
  BY <1>1 DEF Local, QueueTypes
<1>3. i \in 1 .. Len(queue)
  <2> DEFINE s == load.song
  <2> HIDE DEF s
  <2>1. Find(queue, s) # 0 => Find(queue, s) \in 1 .. Len(queue)
    BY <1>2, FindIs
  <2> QED
    BY <1>1, <2>1 DEF s
<1> HIDE DEF i
<1>4. q \in Seq(Tracks) /\ Len(q) = Len(queue) /\ \A j \in 1 .. Len(queue) : q[j].id = queue[j].id
  <2>1. queue[i] \in Tracks
    BY <1>2, <1>3
  <2>2. [queue[i] EXCEPT !.yt = TRUE] \in Tracks /\ [queue[i] EXCEPT !.yt = TRUE].id = queue[i].id
    BY <2>1 DEF Tracks
  <2> DEFINE t == [queue[i] EXCEPT !.yt = TRUE]
  <2>3. q = [queue EXCEPT ![i] = t]
    OBVIOUS
  <2> HIDE DEF t, q
  <2> QED
    BY <1>2, <1>3, <2>2, <2>3 DEF t
<1> HIDE DEF q
<1>5. Placed(queue, index) => Placed(q, index)
  <2>1. CASE Holds(queue, index)
    <3>1. Holds(q, index)
      BY <1>4, <2>1 DEF Holds
    <3> QED
      BY <1>4, <3>1, TrackOf DEF Placed
  <2>2. CASE queue = <<>>
    <3>1. 1 .. Len(queue) = {}
      BY <2>2
    <3> QED
      BY <1>3, <3>1
  <2> QED
    BY <2>1, <2>2 DEF Placed
<1>6. Marked(q, index)
  BY <1>4 DEF Marked, Holds
<1>7. Edits
  BY <1>1, <1>2, <1>4, <1>5, <1>6, EditsAre
<1>8. PlayerInv'
  BY <1>1, PlayerStays DEF Local, Alone
<1> QED
  BY <1>1, <1>7, <1>8, ModesStay DEF Local, LocalStep, QueueStep, Alone

LEMMA LoadOkStep ==
  ASSUME Local, NEW again \in BOOLEAN, LoadOk(again)
  PROVE  LocalStep
<1>1. /\ load # NoLoad /\ load' = NoLoad /\ song' = IF again THEN load.song ELSE song
      /\ audio' = [song |-> load.song, sounding |-> TRUE]
      /\ KeepQueue /\ UNCHANGED previewVars /\ Alone
  BY DEF LoadOk
<1>2. load.song \in Songs /\ load.song # NoSong
  BY <1>1, LoadIs DEF Local, PlayerInv
<1>3. Elements'
  BY <1>1, <1>2 DEF Local, PlayerInv, Elements, Loads
<1>4. Previews' /\ resumeMain' = resumeMain
  BY <1>1, PreviewStays DEF Local, PlayerInv
<1>5. Owed'
  BY <1>1, <1>4 DEF Local, PlayerInv, Owed, Alone
<1>6. PlayerInv'
  BY <1>3, <1>4, <1>5 DEF PlayerInv
<1> QED
  BY <1>1, <1>6, ModesStay, KeepStays DEF Local, LocalStep, QueueStep, Alone

\* The next track a sweep tries is a row of the queue.
LEMMA UntriedIs ==
  ASSUME NEW n \in Nat, NEW from \in Nat, NEW tried
  PROVE  NextUntried(n, from, tried) = 0 \/ NextUntried(n, from, tried) \in 1 .. n
<1> DEFINE left == {step \in 1 .. (n - 1) : ((from + step - 1) % n) + 1 \notin tried}
           s == CHOOSE x \in left : \A t \in left : x <= t
<1>1. CASE left = {}
  BY <1>1 DEF NextUntried
<1>2. CASE left # {}
  <2>1. left \in SUBSET Nat
    OBVIOUS
  <2>2. \E x \in left : \A t \in left : x <= t
    BY <1>2, <2>1, LeastNat
  <2>3. s \in left
    BY <2>2
  <2>4. s \in 1 .. (n - 1)
    BY <2>3
  <2>5. NextUntried(n, from, tried) = ((from + s - 1) % n) + 1
    BY <1>2 DEF NextUntried
  <2> HIDE DEF s, left
  <2>6. from + s - 1 \in Nat /\ n \in Nat \ {0}
    BY <2>4
  <2>7. (from + s - 1) % n \in 0 .. n - 1
    BY <2>6
  <2> QED
    BY <2>5, <2>7
<1> QED
  BY <1>1, <1>2

\* The next load: it is shown, and it has the sound to itself.
LEMMA Advances ==
  ASSUME Local, NEW i \in 1 .. Len(queue), NEW tried \in SUBSET Nat,
         load' = [song |-> queue[i].id, at |-> i, tried |-> tried,
                  kind |-> IF Live THEN "round" ELSE "sweep"],
         audio' = NoElement, song' = queue[i].id, InterruptPreview
  PROVE  PlayerInv'
<1>1. queue[i].id \in Songs /\ i \in Nat
  BY TrackOf DEF Local, QueueTypes, Holds
<1> DEFINE kind == IF Live THEN "round" ELSE "sweep"
<1>2. kind \in {"bare", "round", "sweep"} /\ load' = [song |-> queue[i].id, at |-> i, tried |-> tried, kind |-> kind]
  OBVIOUS
<1> HIDE DEF kind
<1>3. load' \in Loads
  BY <1>1, <1>2 DEF Loads
<1>4. Elements'
  BY <1>1, <1>3 DEF Elements, NoElement
<1> QED
  BY <1>4, Interrupts DEF Local, PlayerInv

LEMMA LoadFailedStep ==
  ASSUME Local, NEW blocked \in BOOLEAN, LoadFailed(blocked)
  PROVE  LocalStep
<1> DEFINE tried == load.tried \union {load.at}
           i == NextUntried(Len(queue), load.at, tried)
           sweeps == /\ load.kind = "sweep" /\ ~blocked
                     /\ Holds(queue, index) /\ queue[index].id = load.song
           over == /\ load' = NoLoad
                   /\ audio' = NoElement
                   /\ song' = (IF blocked THEN song ELSE load.song)
                   /\ UNCHANGED previewVars
                   /\ KeepQueue
           goes == /\ load' = [song |-> queue[i].id, at |-> i, tried |-> tried,
                               kind |-> IF Live THEN "round" ELSE "sweep"]
                   /\ audio' = NoElement /\ song' = queue[i].id
                   /\ InterruptPreview
                   /\ MoveIndex(i)
           stops == StopPlayer /\ KeepQueue /\ UNCHANGED previewVars
<1>1. load # NoLoad /\ Alone /\ source' = source
  BY DEF LoadFailed
<1>2. /\ ~sweeps => over
      /\ sweeps /\ i # 0 => goes
      /\ sweeps /\ i = 0 => stops
  BY DEF LoadFailed
<1>3. load.song \in Songs /\ load.at \in Nat /\ load.tried \in SUBSET Nat
  BY <1>1, LoadIs DEF Local, PlayerInv
<1>4. tried \in SUBSET Nat /\ Len(queue) \in Nat
  BY <1>3 DEF Local, QueueTypes
<1>5. i = 0 \/ i \in 1 .. Len(queue)
  <2> HIDE DEF tried
  <2> QED
    BY <1>3, <1>4, UntriedIs
<1> HIDE DEF i, tried, sweeps
<1>6. CASE over
  <2>1. Elements'
    BY <1>3, <1>6 DEF Local, PlayerInv, Elements, Loads, NoElement
  <2>2. Previews' /\ resumeMain' = resumeMain
    BY <1>6, PreviewStays DEF Local, PlayerInv
  <2>3. Owed'
    BY <1>6 DEF Owed, NoElement
  <2>4. PlayerInv'
    BY <2>1, <2>2, <2>3 DEF PlayerInv
  <2> QED
    BY <1>1, <1>6, <2>4, ModesStay, KeepStays DEF Local, LocalStep, QueueStep, Alone
<1>7. CASE i # 0 /\ goes
  <2>1. i \in 1 .. Len(queue) /\ i \in Nat
    BY <1>4, <1>5, <1>7
  <2>2. PlayerInv'
    BY <1>4, <1>7, <2>1, Advances
  <2>3. Moves
    BY <1>1, <1>7, <2>1 DEF Moves, Holds
  <2> QED
    BY <1>1, <2>2, <2>3, ModesStay DEF Local, LocalStep, QueueStep, Alone
<1>8. CASE stops
  <2>1. Previews' /\ resumeMain' = resumeMain
    BY <1>8, PreviewStays DEF Local, PlayerInv
  <2>2. Owed'
    BY <1>8 DEF StopPlayer, Owed, NoElement
  <2>3. PlayerInv'
    BY <1>8, <2>1, <2>2, Stops DEF PlayerInv
  <2> QED
    BY <1>1, <1>8, <2>3, ModesStay, KeepStays DEF Local, LocalStep, QueueStep, Alone
<1> HIDE DEF over, goes, stops
<1> QED
  BY <1>2, <1>6, <1>7, <1>8

LEMMA EndedStep ==
  ASSUME Local, Ended
  PROVE  LocalStep
<1> DEFINE i == PickNext(Len(queue), index, repeat)
<1>1. audio.sounding /\ Alone /\ source' = source
  BY DEF Ended
<1>2. load = NoLoad
  BY <1>1 DEF Local, PlayerInv, Elements
<1>3. CASE Holds(queue, i)
  <2>1. /\ MoveIndex(i) /\ InterruptPreview
        /\ load' = [song |-> queue[i].id, at |-> i, tried |-> {},
                    kind |-> IF Live THEN "round" ELSE "sweep"]
        /\ audio' = NoElement /\ song' = queue[i].id
    BY <1>3 DEF Ended
  <2> HIDE DEF i
  <2>2. i \in 1 .. Len(queue) /\ i \in Nat /\ {} \in SUBSET Nat
    BY <1>3 DEF Holds
  <2>3. PlayerInv'
    BY <2>1, <2>2, Advances
  <2>4. Moves
    BY <1>1, <1>3, <2>1, <2>2 DEF Moves
  <2> QED
    BY <1>1, <2>3, <2>4, ModesStay DEF Local, LocalStep, QueueStep, Alone
<1>4. CASE ~Holds(queue, i)
  <2>1. audio' = NoElement /\ UNCHANGED <<song, load, previewVars>> /\ KeepQueue
    BY <1>4 DEF Ended
  <2>2. Previews' /\ resumeMain' = resumeMain
    BY <2>1, PreviewStays DEF Local, PlayerInv
  <2>3. PlayerInv'
    BY <1>2, <2>1, <2>2 DEF Local, PlayerInv, Elements, Owed, NoElement
  <2> QED
    BY <1>1, <2>1, <2>3, ModesStay, KeepStays DEF Local, LocalStep, QueueStep, Alone
<1> QED
  BY <1>3, <1>4

\* Whatever the controls ask of the main track.
LEMMA Controlled ==
  ASSUME QueueTypes, PlayerInv, outside', UNCHANGED previewVars,
         \/ ResumeMain \/ StopPlayer
         \/ IF audio.sounding THEN Silence ELSE UNCHANGED mainVars
  PROVE  PlayerInv'
<1>1. Previews' /\ Owed'
  BY PreviewStays DEF PlayerInv, Owed
<1>2. Elements'
  BY Resumes, Stops, Silences, MainStays DEF PlayerInv
<1> QED
  BY <1>1, <1>2 DEF PlayerInv

LEMMA MediaActionStep ==
  ASSUME Local, NEW action \in {"play", "pause", "stop"}, MediaAction(action)
  PROVE  LocalStep
<1>1. outside' = TRUE /\ KeepQueue /\ UNCHANGED <<repeat, previewVars, drag, room, peer, fromPeer>>
  BY DEF MediaAction
<1>2. \/ ResumeMain \/ StopPlayer
      \/ IF audio.sounding THEN Silence ELSE UNCHANGED mainVars
  BY DEF MediaAction
<1>3. PlayerInv'
  BY <1>1, <1>2, Controlled DEF Local
<1> QED
  BY <1>1, <1>3, ModesStay, KeepStays DEF Local, LocalStep, QueueStep

LEMMA PreviewStep ==
  ASSUME Local, NEW s \in Songs, Preview(s)
  PROVE  LocalStep
<1> DEFINE pauses == ~resumeMain /\ audio.sounding
<1>1. KeepQueue /\ UNCHANGED <<repeat, drag, room, peer, fromPeer>>
  BY DEF Preview
<1>2. s # NoSong
  BY QueueAssumption DEF QueueAssumption
<1>3. CASE preview.of = s
  <2> DEFINE v == IF preview.asked = "refused" THEN preview.asked ELSE "again"
  <2>1. /\ preview' = [preview EXCEPT !.paused = FALSE, !.asked = v]
        /\ UNCHANGED <<resumeMain, mainVars, outside>>
    BY <1>3 DEF Preview
  <2>2. v \in {"no", "again", "refused"}
    OBVIOUS
  <2> HIDE DEF v
  <2>3. Previews'
    BY <1>2, <1>3, <2>1, <2>2 DEF Local, PlayerInv, Previews
  <2>4. PlayerInv'
    BY <2>1, <2>3, MainStays DEF Local, PlayerInv, Owed
  <2> QED
    BY <1>1, <2>4, ModesStay, KeepStays DEF Local, LocalStep, QueueStep
<1>4. CASE preview.of # s
  <2> DEFINE v == IF preview.asked = "no" THEN "no" ELSE "refused"
  <2>1. /\ preview' = [Cleared EXCEPT !.of = s, !.pending = TRUE]
        /\ resumeMain' = (resumeMain \/ pauses)
        /\ IF pauses THEN Silence ELSE UNCHANGED mainVars
        /\ outside' = (resumeMain /\ outside)
    BY <1>4 DEF Preview
  <2>2. preview' = [of |-> s, pending |-> TRUE, paused |-> TRUE, asked |-> v]
    <3>1. Cleared = [NoPreview EXCEPT !.asked = v]
      BY DEF Cleared
    <3>2. v \in {"no", "refused"}
      OBVIOUS
    <3> HIDE DEF v
    <3>3. Cleared = [of |-> NoSong, pending |-> FALSE, paused |-> TRUE, asked |-> v]
      BY <3>1 DEF NoPreview
    <3> QED
      BY <2>1, <3>3
  <2>3. Previews'
    <3>1. resumeMain' \in BOOLEAN
      BY <2>1
    <3> QED
      BY <1>2, <2>2, <3>1 DEF Previews
  <2>4. CASE pauses
    <3>1. Silence /\ load = NoLoad
      BY <2>1, <2>4 DEF Local, PlayerInv, Elements
    <3>2. Elements' /\ load' = NoLoad /\ ~audio'.sounding
      BY <3>1, Silences DEF Local, PlayerInv
    <3>3. PlayerInv'
      BY <2>3, <3>2 DEF PlayerInv, Owed
    <3> QED
      BY <1>1, <3>3, ModesStay, KeepStays DEF Local, LocalStep, QueueStep
  <2>5. CASE ~pauses
    <3>1. UNCHANGED mainVars
      BY <2>1, <2>5
    <3>2. Elements' /\ load' = load /\ audio' = audio
      BY <3>1, MainStays DEF Local, PlayerInv
    <3>3. resumeMain' => resumeMain
      BY <2>1, <2>5
    <3>4. Owed'
      BY <2>1, <3>2, <3>3 DEF Local, PlayerInv, Owed
    <3>5. PlayerInv'
      BY <2>3, <3>2, <3>4 DEF PlayerInv
    <3> QED
      BY <1>1, <3>5, ModesStay, KeepStays DEF Local, LocalStep, QueueStep
  <2> QED
    BY <2>4, <2>5
<1> QED
  BY <1>3, <1>4

LEMMA PreviewReadyStep ==
  ASSUME Local, NEW ok \in BOOLEAN, PreviewReady(ok)
  PROVE  LocalStep
<1>1. preview.pending /\ KeepQueue /\ Alone
  BY DEF PreviewReady
<1>2. CASE ok
  <2>1. preview' = [preview EXCEPT !.pending = FALSE, !.paused = FALSE] /\ UNCHANGED <<resumeMain, mainVars>>
    BY <1>2 DEF PreviewReady
  <2>2. Previews'
    BY <1>1, <2>1 DEF Local, PlayerInv, Previews
  <2>3. PlayerInv'
    BY <1>1, <2>1, <2>2, MainStays DEF Local, PlayerInv, Owed, Alone
  <2> QED
    BY <1>1, <2>3, ModesStay, KeepStays DEF Local, LocalStep, QueueStep, Alone
<1>3. CASE ~ok
  <2>1. PlayerInv'
    BY <1>3, StopsPreview DEF PreviewReady, Local
  <2> QED
    BY <1>1, <2>1, ModesStay, KeepStays DEF Local, LocalStep, QueueStep, Alone
<1> QED
  BY <1>2, <1>3

LEMMA TogglePreviewStep ==
  ASSUME Local, TogglePreview
  PROVE  LocalStep
<1>1. preview.of # NoSong /\ KeepQueue /\ Alone
  BY DEF TogglePreview
<1>2. CASE preview.pending
  <2>1. PlayerInv'
    BY <1>2, StopsPreview DEF TogglePreview, Local
  <2> QED
    BY <1>1, <2>1, ModesStay, KeepStays DEF Local, LocalStep, QueueStep, Alone
<1>3. CASE ~preview.pending
  <2> DEFINE v == CASE preview.asked = "no" -> IF preview.paused THEN "again" ELSE "no"
                    [] preview.asked = "again" -> "refused"
                    [] OTHER -> preview.asked
             p == ~preview.paused
  <2>1. preview' = [preview EXCEPT !.paused = p, !.asked = v] /\ UNCHANGED <<resumeMain, mainVars>>
    BY <1>3 DEF TogglePreview
  <2>2. v \in {"no", "again", "refused"} /\ p \in BOOLEAN
    BY DEF Local, PlayerInv, Previews
  <2> HIDE DEF v, p
  <2>3. Previews'
    BY <1>1, <2>1, <2>2 DEF Local, PlayerInv, Previews
  <2>4. PlayerInv'
    BY <1>1, <2>1, <2>3, MainStays DEF Local, PlayerInv, Owed, Alone
  <2> QED
    BY <1>1, <2>4, ModesStay, KeepStays DEF Local, LocalStep, QueueStep, Alone
<1> QED
  BY <1>2, <1>3

LEMMA PlayAnsweredStep ==
  ASSUME Local, PlayAnswered
  PROVE  LocalStep
<1>1. KeepQueue /\ Alone
  BY DEF PlayAnswered
<1>2. CASE preview.asked = "again"
  <2>1. preview' = [preview EXCEPT !.asked = "no"] /\ UNCHANGED <<resumeMain, mainVars>>
    BY <1>2 DEF PlayAnswered
  <2>2. Previews'
    BY <2>1 DEF Local, PlayerInv, Previews
  <2>3. PlayerInv'
    BY <1>1, <2>1, <2>2, MainStays DEF Local, PlayerInv, Owed, Alone
  <2> QED
    BY <1>1, <2>3, ModesStay, KeepStays DEF Local, LocalStep, QueueStep, Alone
<1>3. CASE preview.asked # "again"
  <2>1. /\ preview' = NoPreview /\ resumeMain' = FALSE
        /\ IF resumeMain THEN ResumeMain ELSE UNCHANGED mainVars
    BY <1>3 DEF PlayAnswered
  <2>2. Previews' /\ Owed'
    BY <2>1 DEF Previews, Owed, NoPreview
  <2>3. Elements'
    BY <2>1, Resumes, MainStays DEF Local, PlayerInv
  <2>4. PlayerInv'
    BY <2>2, <2>3 DEF PlayerInv
  <2> QED
    BY <1>1, <2>4, ModesStay, KeepStays DEF Local, LocalStep, QueueStep, Alone
<1> QED
  BY <1>2, <1>3

LEMMA PreviewOverStep ==
  ASSUME Local, PreviewOver
  PROVE  LocalStep
<1>1. StopPreview /\ KeepQueue /\ Alone
  BY DEF PreviewOver
<1>2. PlayerInv'
  BY <1>1, StopsPreview DEF Local
<1> QED
  BY <1>1, <1>2, ModesStay, KeepStays DEF Local, LocalStep, QueueStep, Alone

\* Whatever the user, the media element or a preview does.
LEMMA LocalSteps ==
  ASSUME Local,
         \/ FromPage \/ FromMenu \/ FromPanel \/ Disc \/ PlayerControlsRow \/ MediaKeys
         \/ Element \/ Previewing
  PROVE  LocalStep
<1>1. ASSUME FromPage PROVE LocalStep
  <2>1. \A l \in DOMAIN Lists : DOMAIN Lists[l] = 1 .. Len(Lists[l])
    BY QueueAssumption DEF QueueAssumption
  <2> QED
    BY <1>1, <2>1, PlayListStep, PlaySelectionStep DEF FromPage
<1>2. ASSUME FromMenu PROVE LocalStep
  <2>1. \A s \in Songs : [id |-> s, yt |-> FALSE] \in Tracks
    BY DEF Tracks
  <2> QED
    BY <1>2, <2>1, PlayNowStep, EnqueueManyStep DEF FromMenu
<1>3. ASSUME FromPanel PROVE LocalStep
  <2>1. DOMAIN queue = 1 .. Len(queue)
    BY DEF Local, QueueTypes
  <2> QED
    BY <1>3, <2>1, PlayAtStep, UnqueueStep, MoveDownStep, MoveAfterCurrentStep, DragStartStep,
       DragOverStep, DropStep DEF FromPanel
<1>4. ASSUME NextSong \/ PrevSong PROVE LocalStep
  BY <1>4, GoToStep DEF NextSong, PrevSong
<1>5. ASSUME Disc PROVE LocalStep
  BY <1>4, <1>5, TogglePressStep DEF Disc
<1>6. ASSUME PlayerControlsRow PROVE LocalStep
  BY <1>6, CycleRepeatStep, ToggleShuffleStep DEF PlayerControlsRow
<1>7. ASSUME MediaKeys PROVE LocalStep
  BY <1>4, <1>7, MediaActionStep DEF MediaKeys
<1>8. ASSUME Element PROVE LocalStep
  BY <1>8, ResolveStep, EndedStep, LoadOkStep, LoadFailedStep DEF Element
<1>9. ASSUME Previewing PROVE LocalStep
  BY <1>9, PreviewStep, PreviewReadyStep, TogglePreviewStep, PlayAnsweredStep, PreviewOverStep DEF Previewing
<1> QED
  BY <1>1, <1>2, <1>3, <1>5, <1>6, <1>7, <1>8, <1>9

(***************************************************************************)
(* The room: two windows, and the frames between them                      *)
(***************************************************************************)

RoomTypes ==
  /\ room \in {"out", "joining", "in", "left"}
  /\ peer \in Seq(Tracks)
  /\ toPeer \in Seq(EditFrames)
  /\ fromPeer \in Seq(Frames)

\* Outside a room nothing is on its way.
Apart == room \in {"out", "left"} => toPeer = <<>> /\ fromPeer = <<>>

\* The effect of room.ts has seen the queue there is.
Seen == room = "in" => last = <<queue>>

\* A window that joins has its snapshot before it, and the track that is
\* played there is in the queue of the snapshot.
Seated ==
  room = "joining" =>
    /\ fromPeer # <<>> /\ Head(fromPeer).op = "snapshot"
    /\ Head(fromPeer).song # NoSong => Find(Head(fromPeer).songs, Head(fromPeer).song) # 0

\* The snapshot comes first, and only while the window joins.
OneSnapshot ==
  \A i \in 1 .. Len(fromPeer) : fromPeer[i].op = "snapshot" => i = 1 /\ room = "joining"

\* Until two edits cross, one side at most is ahead: what is on its way makes
\* the queue of the window behind the queue of the one ahead.
InStep ==
  ~overlap =>
    /\ room = "joining" => toPeer = <<>> /\ Leads(<<>>, fromPeer, Ids(peer))
    /\ room = "in" => IF toPeer = <<>> THEN Leads(Ids(queue), fromPeer, Ids(peer))
                      ELSE OnlyControls(fromPeer) /\ Leads(Ids(peer), toPeer, Ids(queue))

RoomInv == RoomTypes /\ Apart /\ Seen /\ Seated /\ OneSnapshot /\ InStep

LEMMA EditsAreFrames ==
  /\ DeltaFrames \subseteq EditFrames /\ EditFrames \subseteq Frames
  /\ \A s \in Seq(EditFrames) : s \in Seq(Frames)
<1>1. DeltaFrames \subseteq EditFrames /\ EditFrames \subseteq Frames
  BY DEF EditFrames, Frames
<1>2. ASSUME NEW s \in Seq(EditFrames) PROVE s \in Seq(Frames)
  <2>1. \A i \in 1 .. Len(s) : s[i] \in Frames
    BY <1>1
  <2> QED
    BY <2>1
<1> QED
  BY <1>1, <1>2

\* What the frames of an edit are not.
LEMMA DeltaOp ==
  ASSUME NEW m \in DeltaFrames
  PROVE  m.op \in {"queue", "enqueue", "youtube"}
BY DEF DeltaFrames, QueueFrames, EnqueueFrames, YoutubeFrames

LEMMA IdsEmpty ==
  Ids(<<>>) = <<>>
BY DEF Ids

LEMMA IdsTyped ==
  ASSUME NEW q \in Seq(Tracks)
  PROVE  Ids(q) \in Seq(Songs)
BY IdsOf

\* An edit goes out after what is on its way.
LEMMA EditFollows ==
  ASSUME NEW frames \in Seq(EditFrames), NEW q \in Seq(Tracks), NEW next \in Seq(Tracks), NEW a,
         Leads(a, frames, Ids(q))
  PROVE  /\ frames \o <<Delta(q, next)>> \in Seq(EditFrames)
         /\ frames \o <<Delta(q, next)>> # <<>>
         /\ Leads(a, frames \o <<Delta(q, next)>>, Ids(next))
<1> DEFINE d == Delta(q, next)
           ids == Ids(q)
<1>1. d \in DeltaFrames /\ Effect(d, ids) = Ids(next)
  BY DeltaIs
<1> HIDE DEF d, ids
<1>2. d \in EditFrames /\ d \in Frames /\ d.op # "prepare"
  BY <1>1, EditsAreFrames, DeltaOp
<1>3. PlacedIn(d, ids)
  BY <1>2 DEF PlacedIn
<1>4. frames \in Seq(Frames) /\ Leads(a, frames, ids)
  BY EditsAreFrames DEF ids
<1>5. Leads(a, frames \o <<d>>, Effect(d, ids))
  BY <1>2, <1>3, <1>4, LeadsMore
<1>6. frames \o <<d>> \in Seq(EditFrames) /\ frames \o <<d>> # <<>>
  BY <1>2
<1> QED
  BY <1>1, <1>5, <1>6 DEF d

\* The effect on queue sends the edit to a room there is.
LEMMA FrameIs ==
  ASSUME Seen, NEW q
  PROVE  Frame(q) = IF room = "in" THEN <<Delta(queue, q)>> ELSE <<>>
<1>1. CASE room = "in"
  <2>1. last = <<queue>> /\ last # <<>> /\ last[1] = queue
    BY <1>1 DEF Seen
  <2> QED
    BY <1>1, <2>1 DEF Frame
<1> QED
  BY <1>1 DEF Frame

LEMMA AnnouncedMore ==
  ASSUME NEW s \in Seq(EditFrames), NEW frames,
         frames = <<>> \/ \E f \in EditFrames : frames = <<f>> /\ f.op = "shuffle"
  PROVE  s \o frames \in Seq(EditFrames)
<1>1. CASE frames = <<>>
  BY <1>1
<1>2. CASE frames # <<>>
  <2>1. PICK f \in EditFrames : frames = <<f>>
    BY <1>2
  <2> QED
    BY <2>1
<1> QED
  BY <1>1, <1>2

\* A window's own steps keep the two in step.
LEMMA LocalRoom ==
  ASSUME RoomInv, QueueTypes, QueueStep
  PROVE  RoomInv'
<1>1. UNCHANGED <<room, peer, fromPeer>>
  BY DEF QueueStep
<1>2. ASSUME UNCHANGED <<queue, toPeer, last, overlap>> PROVE RoomInv'
  BY <1>1, <1>2 DEF RoomInv, RoomTypes, Apart, Seen, Seated, OneSnapshot, InStep
<1>3. CASE Stays
  BY <1>2, <1>3 DEF Stays
<1>4. CASE Moves
  BY <1>2, <1>4 DEF Moves, MoveIndex
<1>5. CASE Edits
  <2>0. PICK q \in Seq(Tracks), i \in Nat :
          \E frames : Announced(frames) /\ EditQueueAnd(q, i, frames)
    BY <1>5 DEF Edits
  <2>1. PICK frames : Announced(frames) /\ EditQueueAnd(q, i, frames)
    BY <2>0
  <2>2. /\ queue' = q
        /\ toPeer' = toPeer \o Frame(q) \o frames
        /\ last' = IF room = "in" THEN <<q>> ELSE last
        /\ overlap' = (overlap \/ (fromPeer # <<>> /\ (room = "in" \/ frames # <<>>)))
    BY <2>1 DEF EditQueueAnd
  <2>3. Frame(q) = IF room = "in" THEN <<Delta(queue, q)>> ELSE <<>>
    BY FrameIs DEF RoomInv
  <2>4. toPeer \in Seq(EditFrames) /\ fromPeer \in Seq(Frames) /\ peer \in Seq(Tracks) /\ queue \in Seq(Tracks)
    BY DEF RoomInv, RoomTypes, QueueTypes
  <2>5. frames = <<>> \/ (Live /\ \E seed \in Seeds : frames = <<[op |-> "shuffle", seed |-> seed]>>)
    BY <2>1 DEF Announced
  <2>6. frames = <<>> \/ \E f \in EditFrames : frames = <<f>> /\ f.op = "shuffle"
    BY <2>5 DEF EditFrames, ShuffleFrames
  <2>7. CASE room # "in"
    <3>1. toPeer' = toPeer \o frames
      <4>1. toPeer \o <<>> = toPeer
        BY <2>4
      <4> QED
        BY <2>2, <2>3, <2>7, <4>1
    <3>2. frames = <<>> => toPeer' = toPeer
      BY <2>4, <3>1
    <3>3. toPeer' \in Seq(EditFrames)
      BY <2>4, <2>6, <3>1, AnnouncedMore
    <3>4. RoomTypes' /\ Seen' /\ Seated' /\ OneSnapshot'
      BY <1>1, <2>7, <3>3 DEF RoomInv, RoomTypes, Seen, Seated, OneSnapshot
    <3>5. Apart'
      BY <1>1, <2>5, <3>2 DEF RoomInv, Apart, Live
    <3>6. InStep'
      <4> SUFFICES ASSUME ~overlap', room = "joining"
                   PROVE  toPeer' = <<>> /\ Leads(<<>>, fromPeer, Ids(peer))
        BY <1>1, <2>7 DEF InStep
      <4>1. ~overlap /\ frames = <<>>
        BY <2>2 DEF RoomInv, Seated
      <4> QED
        BY <3>2, <4>1 DEF RoomInv, InStep
    <3> QED
      BY <3>4, <3>5, <3>6 DEF RoomInv
  <2>8. CASE room = "in"
    <3> DEFINE d == Delta(queue, q)
               sent == toPeer \o <<d>>
    <3>1. toPeer' = sent \o frames
      BY <2>2, <2>3, <2>8
    <3>2. d \in EditFrames
      BY <2>1, <2>4, DeltaIs, EditsAreFrames
    <3>3. sent \in Seq(EditFrames)
      <4> HIDE DEF d
      <4> QED
        BY <2>4, <3>2
    <3> HIDE DEF d
    <3>4. toPeer' \in Seq(EditFrames)
      <4> HIDE DEF sent
      <4> QED
        BY <2>6, <3>1, <3>3, AnnouncedMore
    <3>5. RoomTypes' /\ Seen' /\ Seated' /\ OneSnapshot' /\ Apart'
      BY <1>1, <2>2, <2>8, <3>4 DEF RoomInv, RoomTypes, Seen, Seated, OneSnapshot, Apart
    <3>6. InStep'
      <4> SUFFICES ASSUME ~overlap'
                   PROVE  toPeer' # <<>> /\ fromPeer = <<>> /\ Leads(Ids(peer), toPeer', Ids(q))
        <5>1. OnlyControls(<<>>)
          BY DEF OnlyControls
        <5> QED
          BY <1>1, <2>2, <2>8, <5>1 DEF InStep
      <4>1. ~overlap /\ fromPeer = <<>>
        BY <2>2, <2>8
      <4>2. Leads(Ids(peer), toPeer, Ids(queue))
        <5>1. CASE toPeer = <<>>
          <6>1. Leads(Ids(queue), <<>>, Ids(peer))
            BY <2>8, <4>1, <5>1 DEF RoomInv, InStep
          <6>2. Ids(queue) \in Seq(Songs) /\ Ids(peer) \in Seq(Songs)
            BY <2>4, IdsTyped
          <6>3. Ids(queue) = Ids(peer)
            BY <6>1, <6>2, LeadsNone
          <6>4. Leads(Ids(peer), <<>>, Ids(peer))
            BY <6>2, LeadsNone
          <6> QED
            BY <5>1, <6>3, <6>4
        <5>2. CASE toPeer # <<>>
          BY <2>8, <4>1, <5>2 DEF RoomInv, InStep
        <5> QED
          BY <5>1, <5>2
      <4>3. sent # <<>> /\ Leads(Ids(peer), sent, Ids(q))
        BY <2>1, <2>4, <4>2, EditFollows DEF d
      <4> HIDE DEF sent
      <4>4. CASE frames = <<>>
        <5>1. toPeer' = sent
          BY <3>1, <3>3, <4>4
        <5> QED
          BY <4>1, <4>3, <5>1
      <4>5. CASE frames # <<>>
        <5>1. PICK f \in EditFrames : frames = <<f>> /\ f.op = "shuffle"
          BY <2>6, <4>5
        <5>2. f \in Frames /\ sent \in Seq(Frames)
          BY <3>3, EditsAreFrames
        <5>3. PlacedIn(f, Ids(q)) /\ Effect(f, Ids(q)) = Ids(q)
          BY <5>1 DEF PlacedIn, Effect
        <5>4. Leads(Ids(peer), sent \o <<f>>, Effect(f, Ids(q)))
          BY <4>3, <5>2, <5>3, LeadsMore
        <5>5. sent \o <<f>> # <<>>
          BY <5>2
        <5> QED
          BY <3>1, <4>1, <5>1, <5>3, <5>4, <5>5
      <4> QED
        BY <4>4, <4>5
    <3> QED
      BY <3>5, <3>6 DEF RoomInv
  <2> QED
    BY <2>7, <2>8
<1> QED
  BY <1>3, <1>4, <1>5 DEF QueueStep

LEMMA ConnectRoom ==
  ASSUME RoomInv, NEW s \in Songs \union {NoSong}, NEW role \in {"host", "guest"}, Connect(role, s)
  PROVE  RoomInv'
<1> DEFINE m == [op |-> "snapshot", role |-> role, songs |-> peer, song |-> s]
<1>1. /\ room = "out" /\ room' = "joining" /\ fromPeer' = fromPeer \o <<m>>
      /\ s # NoSong => Find(peer, s) # 0
      /\ UNCHANGED <<queue, last, peer, toPeer, overlap>>
  BY DEF Connect, PeerSends, queueVars
<1>2. toPeer = <<>> /\ fromPeer = <<>> /\ peer \in Seq(Tracks)
  BY <1>1 DEF RoomInv, Apart, RoomTypes
<1>3. m \in Frames /\ m.op = "snapshot" /\ m.songs = peer /\ m.song = s
  BY <1>2 DEF Frames, Snapshots
<1>4. Effect(m, <<>>) = Ids(peer) /\ PlacedIn(m, <<>>)
  BY DEF Effect, PlacedIn
<1> HIDE DEF m
<1>5. fromPeer' \in Seq(Frames) /\ fromPeer' # <<>> /\ Head(fromPeer') = m /\ Len(fromPeer') = 1
  BY <1>1, <1>2, <1>3
<1>6. Leads(<<>>, fromPeer', Ids(peer))
  <2>1. <<>> \in Seq(Songs) /\ <<>> \in Seq(Frames)
    OBVIOUS
  <2>2. Leads(<<>>, <<>>, <<>>)
    BY <2>1, LeadsNone
  <2>3. Leads(<<>>, <<>> \o <<m>>, Effect(m, <<>>))
    BY <1>3, <1>4, <2>1, <2>2, LeadsMore
  <2> QED
    BY <1>1, <1>2, <1>4, <2>3
<1>7. RoomTypes' /\ Apart' /\ Seen'
  BY <1>1, <1>2, <1>5 DEF RoomInv, RoomTypes, Apart, Seen
<1>8. Seated' /\ OneSnapshot'
  BY <1>1, <1>3, <1>5 DEF Seated, OneSnapshot
<1>9. InStep'
  BY <1>1, <1>2, <1>6 DEF InStep
<1> QED
  BY <1>7, <1>8, <1>9 DEF RoomInv

LEMMA LeaveRoom ==
  ASSUME RoomInv, Leave
  PROVE  RoomInv'
<1>1. room' = "left" /\ toPeer' = <<>> /\ fromPeer' = <<>> /\ peer' = peer
  BY DEF Leave
<1>2. RoomTypes' /\ OneSnapshot'
  BY <1>1 DEF RoomInv, RoomTypes, OneSnapshot
<1> QED
  BY <1>1, <1>2 DEF RoomInv, Apart, Seen, Seated, InStep

\* A frame put behind those on their way leaves the first one first.
LEMMA SentIs ==
  ASSUME NEW frames \in Seq(Frames), NEW m \in Frames
  PROVE  /\ frames \o <<m>> \in Seq(Frames)
         /\ frames \o <<m>> # <<>>
         /\ frames # <<>> => Head(frames \o <<m>>) = Head(frames)
         /\ Len(frames \o <<m>>) = Len(frames) + 1
         /\ \A i \in 1 .. Len(frames) : (frames \o <<m>>)[i] = frames[i]
         /\ (frames \o <<m>>)[Len(frames) + 1] = m
<1> DEFINE more == frames \o <<m>>
<1>1. more \in Seq(Frames) /\ Len(more) = Len(frames) + 1
      /\ (\A i \in 1 .. Len(frames) : more[i] = frames[i]) /\ more[Len(frames) + 1] = m
  OBVIOUS
<1>2. more # <<>>
  BY <1>1
<1>3. frames # <<>> => Head(more) = Head(frames)
  <2>1. frames # <<>> => 1 \in 1 .. Len(frames) /\ Head(frames) = frames[1]
    OBVIOUS
  <2>2. Head(more) = more[1]
    BY <1>1, <1>2
  <2> HIDE DEF more
  <2> QED
    BY <1>1, <2>1, <2>2
<1> QED
  BY <1>1, <1>2, <1>3

\* What the other window sends: new is behind what is on its way.
LEMMA PeerRoom ==
  ASSUME RoomInv, room' = room, UNCHANGED <<queue, last, toPeer>>,
         peer' \in Seq(Tracks), fromPeer' \in Seq(Frames),
         room \notin {"out", "left"},
         fromPeer # <<>> => fromPeer' # <<>> /\ Head(fromPeer') = Head(fromPeer),
         OneSnapshot',
         overlap => overlap',
         \A a : Leads(a, fromPeer, Ids(peer)) => Leads(a, fromPeer', Ids(peer')),
         toPeer # <<>> /\ ~overlap' => /\ peer' = peer
                                       /\ OnlyControls(fromPeer) => OnlyControls(fromPeer')
  PROVE  RoomInv'
<1>1. RoomTypes' /\ Apart' /\ Seen'
  BY DEF RoomInv, RoomTypes, Apart, Seen
<1>2. Seated'
  BY DEF RoomInv, Seated
<1>3. InStep'
  BY DEF RoomInv, InStep
<1> QED
  BY <1>1, <1>2, <1>3 DEF RoomInv

\* No snapshot comes behind what is on its way.
LEMMA NoSecondSnapshot ==
  ASSUME OneSnapshot, room' = room, fromPeer \in Seq(Frames), NEW m \in Frames, m.op # "snapshot",
         fromPeer' = fromPeer \o <<m>>
  PROVE  OneSnapshot'
<1> DEFINE n == Len(fromPeer)
<1>1. n \in Nat /\ Len(fromPeer') = n + 1 /\ (\A i \in 1 .. n : fromPeer'[i] = fromPeer[i])
      /\ fromPeer'[n + 1] = m
  BY SentIs
<1> HIDE DEF n
<1>2. \A i \in 1 .. n + 1 : i \in 1 .. n \/ i = n + 1
  BY <1>1
<1>3. \A i \in 1 .. n : fromPeer[i].op = "snapshot" => i = 1 /\ room = "joining"
  BY DEF OneSnapshot, n
<1> QED
  BY <1>1, <1>2, <1>3 DEF OneSnapshot

LEMMA PeerEditsRoom ==
  ASSUME RoomInv, NEW q \in Seq(Tracks), PeerEdits(q)
  PROVE  RoomInv'
<1> DEFINE d == Delta(peer, q)
<1>1. /\ Live /\ peer' = q /\ fromPeer' = fromPeer \o <<d>>
      /\ overlap' = (overlap \/ toPeer # <<>>)
      /\ UNCHANGED <<room, queue, last, toPeer>>
  BY DEF PeerEdits, PeerSends, PeerStays, queueVars
<1>2. peer \in Seq(Tracks) /\ fromPeer \in Seq(Frames)
  BY DEF RoomInv, RoomTypes
<1>3. d \in DeltaFrames /\ Effect(d, Ids(peer)) = Ids(q)
  BY <1>2, DeltaIs
<1> HIDE DEF d
<1>4. d \in Frames /\ d.op # "snapshot" /\ d.op # "prepare"
  BY <1>3, DeltaOp, EditsAreFrames
<1>5. fromPeer' \in Seq(Frames) /\ (fromPeer # <<>> => fromPeer' # <<>> /\ Head(fromPeer') = Head(fromPeer))
  BY <1>1, <1>2, <1>4, SentIs
<1>6. OneSnapshot'
  BY <1>1, <1>2, <1>4, NoSecondSnapshot DEF RoomInv
<1>7. ASSUME NEW a, Leads(a, fromPeer, Ids(peer)) PROVE Leads(a, fromPeer', Ids(peer'))
  <2> DEFINE ids == Ids(peer)
  <2>1. PlacedIn(d, ids) /\ Leads(a, fromPeer, ids)
    BY <1>4, <1>7 DEF PlacedIn
  <2> HIDE DEF ids
  <2>2. Leads(a, fromPeer \o <<d>>, Effect(d, ids))
    BY <1>2, <1>4, <2>1, LeadsMore
  <2> QED
    BY <1>1, <1>3, <2>2 DEF ids
<1>8. room \notin {"out", "left"}
  BY <1>1 DEF Live
<1> QED
  BY <1>1, <1>5, <1>6, <1>7, <1>8, PeerRoom

LEMMA PeerControlsRoom ==
  ASSUME RoomInv, NEW m \in Frames, m.op \in Controls \union {"prepare"}, PlacedIn(m, Ids(peer)),
         PeerControls(m)
  PROVE  RoomInv'
<1>1. /\ Live /\ peer' = peer /\ fromPeer' = fromPeer \o <<m>>
      /\ overlap' = (overlap \/ (m.op = "prepare" /\ toPeer # <<>>))
      /\ UNCHANGED <<room, queue, last, toPeer>>
  BY DEF PeerControls, PeerSends, PeerStays, queueVars
<1>2. peer \in Seq(Tracks) /\ fromPeer \in Seq(Frames)
  BY DEF RoomInv, RoomTypes
<1>3. m.op # "snapshot" /\ Effect(m, Ids(peer)) = Ids(peer)
  BY DEF Controls, Effect
<1>4. fromPeer' \in Seq(Frames) /\ (fromPeer # <<>> => fromPeer' # <<>> /\ Head(fromPeer') = Head(fromPeer))
  BY <1>1, <1>2, SentIs
<1>5. OneSnapshot'
  BY <1>1, <1>2, <1>3, NoSecondSnapshot DEF RoomInv
<1>6. ASSUME NEW a, Leads(a, fromPeer, Ids(peer)) PROVE Leads(a, fromPeer', Ids(peer'))
  <2> DEFINE ids == Ids(peer)
  <2>1. PlacedIn(m, ids) /\ Leads(a, fromPeer, ids)
    BY <1>6
  <2> HIDE DEF ids
  <2>2. Leads(a, fromPeer \o <<m>>, Effect(m, ids))
    BY <1>2, <2>1, LeadsMore
  <2> QED
    BY <1>1, <1>3, <2>2 DEF ids
<1>7. ASSUME toPeer # <<>>, ~overlap', OnlyControls(fromPeer) PROVE OnlyControls(fromPeer')
  <2>1. m.op \in Controls
    BY <1>1, <1>7
  <2> QED
    BY <1>1, <1>2, <1>7, <2>1, ControlsMore
<1>8. room \notin {"out", "left"}
  BY <1>1 DEF Live
<1> QED
  BY <1>1, <1>2, <1>4, <1>5, <1>6, <1>7, <1>8, PeerRoom

LEMMA PeerShufflesRoom ==
  ASSUME RoomInv, NEW seed \in Seeds, PeerShuffles(seed)
  PROVE  RoomInv'
<1> DEFINE q == Permute(peer, seed)
           d == Delta(peer, q)
           f == [op |-> "shuffle", seed |-> seed]
           sent == fromPeer \o <<d>>
<1>1. /\ Live /\ Draws(seed, peer) /\ peer' = q /\ fromPeer' = fromPeer \o <<d, f>>
      /\ overlap' = (overlap \/ toPeer # <<>>)
      /\ UNCHANGED <<room, queue, last, toPeer>>
  BY DEF PeerShuffles, PeerSends, PeerStays, queueVars
<1>2. peer \in Seq(Tracks) /\ fromPeer \in Seq(Frames)
  BY DEF RoomInv, RoomTypes
<1>3. q \in Seq(Tracks)
  BY <1>1, <1>2, PermuteIs
<1> HIDE DEF q
<1>4. d \in DeltaFrames /\ Effect(d, Ids(peer)) = Ids(q)
  BY <1>2, <1>3, DeltaIs
<1>5. f \in Frames /\ f.op = "shuffle" /\ Effect(f, Ids(q)) = Ids(q) /\ PlacedIn(f, Ids(q))
  BY DEF Frames, EditFrames, ShuffleFrames, Effect, PlacedIn
<1> HIDE DEF d, f
<1>6. d \in Frames /\ d.op # "snapshot" /\ d.op # "prepare"
  BY <1>4, DeltaOp, EditsAreFrames
<1>7. fromPeer \o <<d, f>> = sent \o <<f>>
  <2> DEFINE two == <<d, f>>
             one == <<f>>
             n == Len(fromPeer)
  <2>1. two \in Seq(Frames) /\ Len(two) = 2 /\ two[1] = d /\ two[2] = f /\ one \in Seq(Frames) /\ Len(one) = 1 /\ one[1] = f
    BY <1>5, <1>6
  <2>2. n \in Nat /\ sent \in Seq(Frames) /\ Len(sent) = n + 1 /\ (\A i \in 1 .. n : sent[i] = fromPeer[i])
        /\ sent[n + 1] = d
    BY <1>2, <1>6, SentIs
  <2> HIDE DEF two, one, sent
  <2>3. fromPeer \o two \in Seq(Frames) /\ Len(fromPeer \o two) = n + 2
        /\ (\A i \in 1 .. n : (fromPeer \o two)[i] = fromPeer[i])
        /\ (fromPeer \o two)[n + 1] = d /\ (fromPeer \o two)[n + 2] = f
    <3>1. fromPeer \o two \in Seq(Frames) /\ Len(fromPeer \o two) = n + 2
          /\ \A i \in 1 .. n + Len(two) : (fromPeer \o two)[i] = IF i <= n THEN fromPeer[i] ELSE two[i - n]
      <4>1. /\ fromPeer \o two \in Seq(Frames) /\ Len(fromPeer \o two) = Len(fromPeer) + Len(two)
            /\ \A i \in 1 .. Len(fromPeer) + Len(two) :
                 (fromPeer \o two)[i] = IF i <= Len(fromPeer) THEN fromPeer[i] ELSE two[i - Len(fromPeer)]
        BY <1>2, <2>1, ConcatProperties
      <4> QED
        BY <2>1, <4>1
    <3> HIDE DEF n
    <3>2. /\ n + 1 \in 1 .. n + 2 /\ ~(n + 1 <= n) /\ (n + 1) - n = 1
          /\ n + 2 \in 1 .. n + 2 /\ ~(n + 2 <= n) /\ (n + 2) - n = 2
          /\ \A i \in 1 .. n : i \in 1 .. n + 2 /\ i <= n
      BY <2>2
    <3> QED
      BY <2>1, <3>1, <3>2
  <2> HIDE DEF n
  <2>4. sent \o one \in Seq(Frames) /\ Len(sent \o one) = (n + 1) + 1
        /\ (\A i \in 1 .. n + 1 : (sent \o one)[i] = sent[i]) /\ (sent \o one)[(n + 1) + 1] = f
    <3>1. /\ sent \o one \in Seq(Frames) /\ Len(sent \o one) = Len(sent) + Len(one)
          /\ \A i \in 1 .. Len(sent) + Len(one) :
               (sent \o one)[i] = IF i <= Len(sent) THEN sent[i] ELSE one[i - Len(sent)]
      BY <2>1, <2>2, ConcatProperties
    <3>2. /\ n + 2 \in 1 .. n + 2 /\ ~(n + 2 <= n + 1) /\ (n + 2) - (n + 1) = 1 /\ (n + 1) + 1 = n + 2
          /\ \A i \in 1 .. n + 1 : i \in 1 .. n + 2 /\ i <= n + 1
      BY <2>2
    <3>3. Len(sent) = n + 1 /\ Len(sent) + Len(one) = n + 2
      BY <2>1, <2>2
    <3> QED
      BY <2>1, <3>1, <3>2, <3>3
  <2>5. ASSUME NEW i \in 1 .. n + 2 PROVE (fromPeer \o two)[i] = (sent \o one)[i]
    <3>1. i \in 1 .. n \/ i = n + 1 \/ i = n + 2
      BY <2>2
    <3>2. (n + 1) + 1 = n + 2 /\ n + 1 \in 1 .. n + 1 /\ \A j \in 1 .. n : j \in 1 .. n + 1
      BY <2>2
    <3> QED
      BY <2>2, <2>3, <2>4, <3>1, <3>2
  <2>6. Len(fromPeer \o two) = Len(sent \o one)
    BY <2>2, <2>3, <2>4
  <2>7. fromPeer \o two = sent \o one
    BY <2>3, <2>4, <2>5, <2>6, SeqEqual
  <2> QED
    BY <2>7 DEF two, one
<1>8. sent \in Seq(Frames) /\ sent # <<>> /\ (fromPeer # <<>> => Head(sent) = Head(fromPeer))
      /\ Len(sent) = Len(fromPeer) + 1 /\ (\A i \in 1 .. Len(fromPeer) : sent[i] = fromPeer[i])
      /\ sent[Len(fromPeer) + 1] = d
  BY <1>2, <1>6, SentIs
<1> HIDE DEF sent
<1>9. fromPeer' \in Seq(Frames) /\ fromPeer' # <<>> /\ Head(fromPeer') = Head(sent)
      /\ Len(fromPeer') = Len(sent) + 1 /\ (\A i \in 1 .. Len(sent) : fromPeer'[i] = sent[i])
      /\ fromPeer'[Len(sent) + 1] = f
  <2>1. fromPeer' = sent \o <<f>>
    BY <1>1, <1>7
  <2>2. sent \in Seq(Frames) /\ f \in Frames /\ sent # <<>>
    BY <1>5, <1>8
  <2>3. sent \o <<f>> \in Seq(Frames) /\ sent \o <<f>> # <<>> /\ Head(sent \o <<f>>) = Head(sent)
    BY <2>2, SentIs
  <2>4. Len(sent \o <<f>>) = Len(sent) + 1 /\ (sent \o <<f>>)[Len(sent) + 1] = f
    BY <2>2, SentIs
  <2>5. \A i \in 1 .. Len(sent) : (sent \o <<f>>)[i] = sent[i]
    BY <2>2, SentIs
  <2> QED
    BY <2>1, <2>3, <2>4, <2>5
<1>10. OneSnapshot'
  <2> DEFINE n == Len(fromPeer)
  <2>1. n \in Nat /\ Len(sent) = n + 1 /\ Len(fromPeer') = (n + 1) + 1
        /\ (\A i \in 1 .. n + 1 : fromPeer'[i] = sent[i])
        /\ fromPeer'[(n + 1) + 1] = f /\ sent[n + 1] = d
        /\ (\A i \in 1 .. n : sent[i] = fromPeer[i])
        /\ \A i \in 1 .. n : fromPeer[i].op = "snapshot" => i = 1 /\ room = "joining"
    BY <1>2, <1>8, <1>9 DEF RoomInv, OneSnapshot
  <2> HIDE DEF n
  <2>2. ASSUME NEW i \in 1 .. (n + 1) + 1, fromPeer'[i].op = "snapshot" PROVE i = 1 /\ room = "joining"
    <3>1. i # (n + 1) + 1
      BY <1>5, <2>1, <2>2
    <3>2. i \in 1 .. n + 1 /\ fromPeer'[i] = sent[i]
      BY <2>1, <3>1
    <3>3. i # n + 1
      BY <1>6, <2>1, <2>2, <3>2
    <3>4. i \in 1 .. n
      BY <2>1, <3>2, <3>3
    <3> QED
      BY <2>1, <2>2, <3>2, <3>4
  <2> QED
    BY <1>1, <2>1, <2>2 DEF OneSnapshot
<1>11. ASSUME NEW a, Leads(a, fromPeer, Ids(peer)) PROVE Leads(a, fromPeer', Ids(peer'))
  <2> DEFINE ids == Ids(peer)
             last2 == Ids(q)
  <2>1. PlacedIn(d, ids) /\ Leads(a, fromPeer, ids) /\ PlacedIn(f, last2) /\ Effect(d, ids) = last2 /\ Effect(f, last2) = last2
    BY <1>4, <1>5, <1>6, <1>11 DEF PlacedIn
  <2>2. last2 = Ids(peer')
    BY <1>1
  <2> HIDE DEF ids, last2
  <2>3. Leads(a, sent, last2)
    BY <1>2, <1>6, <2>1, LeadsMore DEF sent
  <2>4. Leads(a, sent \o <<f>>, last2)
    BY <1>5, <1>8, <2>1, <2>3, LeadsMore
  <2> QED
    BY <1>1, <1>7, <2>2, <2>4
<1>12. room \notin {"out", "left"}
  BY <1>1 DEF Live
<1> QED
  BY <1>1, <1>3, <1>8, <1>9, <1>10, <1>11, <1>12, PeerRoom

\* The YouTube id of a track is not among the ids.
LEMMA YoutubeIds ==
  ASSUME NEW q \in Seq(Tracks), NEW i \in 1 .. Len(q), NEW yt \in BOOLEAN
  PROVE  [q EXCEPT ![i].yt = yt] \in Seq(Tracks) /\ Ids([q EXCEPT ![i].yt = yt]) = Ids(q)
         /\ Len([q EXCEPT ![i].yt = yt]) = Len(q)
<1> DEFINE t == [q[i] EXCEPT !.yt = yt]
           r == [q EXCEPT ![i] = t]
<1>1. q[i] \in Tracks
  OBVIOUS
<1>2. t \in Tracks /\ t.id = q[i].id
  BY <1>1 DEF Tracks
<1>3. [q EXCEPT ![i].yt = yt] = r
  OBVIOUS
<1> HIDE DEF t
<1>4. r \in Seq(Tracks) /\ Len(r) = Len(q) /\ \A j \in 1 .. Len(q) : r[j].id = q[j].id
  BY <1>2
<1> HIDE DEF r
<1>5. /\ Ids(r) \in Seq(Songs) /\ Len(Ids(r)) = Len(r) /\ \A j \in 1 .. Len(r) : Ids(r)[j] = r[j].id
  BY <1>4, IdsOf
<1>6. /\ Ids(q) \in Seq(Songs) /\ Len(Ids(q)) = Len(q) /\ \A j \in 1 .. Len(q) : Ids(q)[j] = q[j].id
  BY IdsOf
<1>7. Len(Ids(r)) = Len(Ids(q)) /\ \A j \in 1 .. Len(Ids(r)) : Ids(r)[j] = Ids(q)[j]
  BY <1>4, <1>5, <1>6
<1>8. Ids(r) = Ids(q)
  BY <1>5, <1>6, <1>7, SeqEqual
<1> QED
  BY <1>3, <1>4, <1>8

LEMMA FrameTyped ==
  ASSUME NEW m \in Frames
  PROVE  /\ m.op = "queue" => m.songs \in Seq(Tracks)
         /\ m.op = "enqueue" => m.songs \in Seq(Tracks) /\ m.at \in Nat
         /\ m.op = "youtube" => m.id \in Songs /\ m.yt \in BOOLEAN
         /\ m.op = "shuffle" => m.seed \in Seeds
         /\ m.op = "prepare" => m.song \in Songs /\ m.at \in Nat
         /\ m.op = "snapshot" => /\ m.songs \in Seq(Tracks) /\ m.song \in Songs \union {NoSong}
                                 /\ m.role \in {"host", "guest"}
         /\ m.op \in {"queue", "enqueue", "youtube", "shuffle", "prepare", "snapshot"} \union Controls
BY DEF Frames, EditFrames, DeltaFrames, QueueFrames, EnqueueFrames, YoutubeFrames, ShuffleFrames,
       ControlFrames, Controls, PrepareFrames, Snapshots

LEMMA EditFrameOp ==
  ASSUME NEW m \in EditFrames
  PROVE  m.op \in {"queue", "enqueue", "youtube", "shuffle"}
BY DEF EditFrames, DeltaFrames, QueueFrames, EnqueueFrames, YoutubeFrames, ShuffleFrames

LEMMA PeerReceivesRoom ==
  ASSUME RoomInv, PeerReceives
  PROVE  RoomInv' /\ peer' \in Seq(Tracks)
<1> DEFINE m == Head(toPeer)
           rest == Tail(toPeer)
           d == Delta(peer, peer')
<1>1. /\ toPeer # <<>> /\ toPeer' = rest
      /\ overlap' = (overlap \/ (m.op = "shuffle" /\ Len(toPeer) > 1))
      /\ UNCHANGED <<queue, room, last>>
      /\ m.op = "shuffle" => Draws(m.seed, peer) /\ fromPeer' = fromPeer \o <<d>>
      /\ m.op # "shuffle" => fromPeer' = fromPeer
  BY DEF PeerReceives, PeerStays, PeerSends, queueVars
<1>2. peer \in Seq(Tracks) /\ fromPeer \in Seq(Frames) /\ toPeer \in Seq(EditFrames) /\ toPeer \in Seq(Frames)
  BY EditsAreFrames DEF RoomInv, RoomTypes
<1>3. m \in EditFrames /\ m \in Frames /\ rest \in Seq(EditFrames) /\ (Len(toPeer) <= 1 => rest = <<>>)
  <2>1. m \in EditFrames /\ rest \in Seq(EditFrames) /\ Len(rest) = Len(toPeer) - 1 /\ Len(toPeer) \in Nat
    BY <1>1, <1>2, HeadTailProperties
  <2> HIDE DEF m, rest
  <2>2. Len(toPeer) <= 1 => rest = <<>>
    BY <2>1
  <2> QED
    BY <2>1, <2>2, EditsAreFrames
<1>4. room \notin {"out", "left"} /\ (~overlap => room = "in")
  BY <1>1 DEF RoomInv, Apart, RoomTypes, InStep
<1>5. ~overlap => /\ OnlyControls(fromPeer)
                  /\ Leads(Effect(m, Ids(peer)), rest, Ids(queue))
  BY <1>1, <1>2, <1>4, LeadsHead DEF RoomInv, InStep
<1>6. CASE m.op # "shuffle"
  <2>1. peer' = CASE m.op = "queue" -> m.songs
                  [] m.op = "enqueue" -> Splice(peer, m.songs, m.at)
                  [] m.op = "youtube" -> IF Find(peer, m.id) = 0 THEN peer
                                         ELSE [peer EXCEPT ![Find(peer, m.id)].yt = m.yt]
                  [] OTHER -> Permute(peer, m.seed)
    BY DEF PeerReceives
  <2> HIDE DEF m
  <2>2. peer' \in Seq(Tracks) /\ Ids(peer') = Effect(m, Ids(peer))
    <3>1. CASE m.op = "queue"
      BY <1>3, <2>1, <3>1, FrameTyped DEF Effect
    <3>2. CASE m.op = "enqueue"
      <4>1. peer' = Splice(peer, m.songs, m.at)
        BY <2>1, <3>2
      <4>2. m.songs \in Seq(Tracks) /\ m.at \in Nat
        BY <1>3, <3>2, FrameTyped
      <4>3. Effect(m, Ids(peer)) = Splice(Ids(peer), Ids(m.songs), m.at)
        BY <3>2 DEF Effect
      <4> DEFINE songs == m.songs
                 k == m.at
      <4>4. songs \in Seq(Tracks) /\ k \in Nat
        BY <4>2
      <4> HIDE DEF songs, k
      <4>5. Splice(peer, songs, k) \in Seq(Tracks) /\ Ids(Splice(peer, songs, k)) = Splice(Ids(peer), Ids(songs), k)
        BY <1>2, <4>4, IdsSplice
      <4> QED
        BY <4>1, <4>3, <4>5 DEF songs, k
    <3>3. CASE m.op = "youtube"
      <4> DEFINE id == m.id
                 yt == m.yt
                 i == Find(peer, id)
      <4>1. peer' = IF i = 0 THEN peer ELSE [peer EXCEPT ![i].yt = yt]
        BY <2>1, <3>3
      <4>2. yt \in BOOLEAN /\ Effect(m, Ids(peer)) = Ids(peer)
        BY <1>3, <3>3, FrameTyped DEF Effect
      <4> HIDE DEF id, yt
      <4>3. i = 0 \/ i \in 1 .. Len(peer)
        BY <1>2, FindIs
      <4> HIDE DEF i
      <4> QED
        BY <1>2, <4>1, <4>2, <4>3, YoutubeIds
    <3> QED
      BY <1>3, <1>6, <3>1, <3>2, <3>3, EditFrameOp
  <2>3. RoomTypes' /\ Apart' /\ Seen' /\ Seated' /\ OneSnapshot'
    BY <1>1, <1>2, <1>3, <1>4, <1>6, <2>2 DEF RoomInv, RoomTypes, Apart, Seen, Seated, OneSnapshot
  <2>4. InStep'
    <3> SUFFICES ASSUME ~overlap'
                 PROVE  IF rest = <<>> THEN Leads(Ids(queue), fromPeer, Ids(peer'))
                        ELSE OnlyControls(fromPeer) /\ Leads(Ids(peer'), rest, Ids(queue))
      BY <1>1, <1>4, <1>6 DEF InStep
    <3>1. ~overlap
      BY <1>1
    <3>2. OnlyControls(fromPeer) /\ Leads(Ids(peer'), rest, Ids(queue)) /\ Ids(peer') \in Seq(Songs)
      BY <1>5, <2>2, <3>1, IdsTyped
    <3> HIDE DEF rest
    <3>3. ASSUME rest = <<>> PROVE Leads(Ids(queue), fromPeer, Ids(peer'))
      <4>1. Ids(peer') = Ids(queue)
        BY <3>2, <3>3, LeadsNone
      <4>2. Leads(Ids(peer'), fromPeer, Ids(peer'))
        BY <1>2, <3>2, LeadsControls
      <4> QED
        BY <4>1, <4>2
    <3> QED
      BY <3>2, <3>3
  <2> QED
    BY <2>2, <2>3, <2>4 DEF RoomInv
<1>7. CASE m.op = "shuffle"
  <2> DEFINE seed == m.seed
  <2>1. peer' = Permute(peer, seed) /\ seed \in Seeds /\ Draws(seed, peer)
    <3>1. peer' = Permute(peer, m.seed)
      BY <1>7 DEF PeerReceives
    <3> QED
      BY <1>1, <1>3, <1>7, <3>1, FrameTyped
  <2> HIDE DEF m, seed
  <2>2. peer' \in Seq(Tracks)
    BY <1>2, <2>1, PermuteIs
  <2>3. d \in DeltaFrames /\ Effect(d, Ids(peer)) = Ids(peer')
    BY <1>2, <2>2, DeltaIs
  <2>4. fromPeer' = fromPeer \o <<d>>
    BY <1>1, <1>7
  <2> HIDE DEF d
  <2>5. d \in Frames /\ d.op # "snapshot" /\ d.op # "prepare"
    BY <2>3, DeltaOp, EditsAreFrames
  <2>6. fromPeer' \in Seq(Frames) /\ (fromPeer # <<>> => fromPeer' # <<>> /\ Head(fromPeer') = Head(fromPeer))
    BY <1>2, <2>4, <2>5, SentIs
  <2>7. OneSnapshot'
    BY <1>1, <1>2, <2>4, <2>5, NoSecondSnapshot DEF RoomInv
  <2>8. RoomTypes' /\ Apart' /\ Seen' /\ Seated'
    BY <1>1, <1>3, <1>4, <2>2, <2>6 DEF RoomInv, RoomTypes, Apart, Seen, Seated
  <2>9. InStep'
    <3> SUFFICES ASSUME ~overlap'
                 PROVE  rest = <<>> /\ Leads(Ids(queue), fromPeer', Ids(peer'))
      BY <1>1, <1>4 DEF InStep
    <3>1. ~overlap /\ Len(toPeer) <= 1
      <4>1. Len(toPeer) \in Nat
        BY <1>2
      <4>2. overlap' = (overlap \/ Len(toPeer) > 1)
        BY <1>1, <1>7
      <4>3. ~(Len(toPeer) > 1) /\ ~overlap
        BY <4>2, Zenon
      <4> QED
        BY <4>1, <4>3
    <3>2. rest = <<>>
      BY <1>3, <3>1
    <3>3. Effect(m, Ids(peer)) = Ids(peer)
      BY <1>7 DEF Effect
    <3>4. OnlyControls(fromPeer) /\ Leads(Ids(peer), <<>>, Ids(queue)) /\ Ids(peer) \in Seq(Songs)
      BY <1>2, <1>5, <3>1, <3>2, <3>3, IdsTyped
    <3>5. Ids(peer) = Ids(queue)
      BY <3>4, LeadsNone
    <3> DEFINE ids == Ids(peer)
    <3>6. Leads(ids, fromPeer, ids)
      BY <1>2, <3>4, LeadsControls
    <3>7. PlacedIn(d, ids)
      BY <2>5 DEF PlacedIn
    <3> HIDE DEF ids
    <3>8. Leads(ids, fromPeer \o <<d>>, Effect(d, ids))
      BY <1>2, <2>5, <3>6, <3>7, LeadsMore
    <3> QED
      BY <2>3, <2>4, <3>2, <3>5, <3>8 DEF ids
  <2> QED
    BY <2>2, <2>7, <2>8, <2>9 DEF RoomInv
<1> QED
  BY <1>6, <1>7

\* What a frame of the other window does here.
MarkStays ==
  /\ song # NoSong /\ song' = song /\ ~overlap
  /\ Holds(queue, index) /\ queue[index].id = song
  /\ Cardinality(Copies(queue', song)) = 1
  => Holds(queue', index') /\ queue'[index'].id = song

Held == QueueTypes /\ PlayerInv /\ Modes /\ RoomInv
HeldOn == QueueTypes' /\ PlayerInv' /\ Modes' /\ RoomInv'

LEMMA CopyIs ==
  ASSUME NEW q \in Seq(Tracks), NEW s, Cardinality(Copies(q, s)) = 1
  PROVE  \E k \in 1 .. Len(q) : q[k].id = s
<1>1. Cardinality({}) = 0
  BY FS_EmptySet
<1>2. Copies(q, s) # {}
  <2> SUFFICES ASSUME Copies(q, s) = {} PROVE FALSE
    OBVIOUS
  <2>1. Cardinality(Copies(q, s)) = 0
    BY <1>1, Zenon
  <2> QED
    BY <2>1
<1> QED
  BY <1>2 DEF Copies

LEMMA ReceivedIs ==
  ASSUME RoomInv, Receive
  PROVE  /\ fromPeer # <<>> /\ Head(fromPeer) \in Frames
         /\ fromPeer' = Tail(fromPeer) /\ fromPeer' \in Seq(Frames)
         /\ room' = "in"
         /\ room = IF Head(fromPeer).op = "snapshot" THEN "joining" ELSE "in"
         /\ OneSnapshot'
         /\ UNCHANGED <<repeat, previewVars, drag, peer>>
         /\ outside' = (outside \/ Head(fromPeer).op = "play" \/ Head(fromPeer).op = "prepare"
                        \/ Head(fromPeer).op = "snapshot")
<1> DEFINE m == Head(fromPeer)
           rest == Tail(fromPeer)
<1>1. /\ fromPeer # <<>> /\ fromPeer' = rest
      /\ room' = IF m.op = "snapshot" THEN "in" ELSE room
      /\ outside' = (outside \/ m.op = "play" \/ m.op = "prepare" \/ m.op = "snapshot")
      /\ UNCHANGED <<repeat, previewVars, drag, peer>>
  BY DEF Receive
<1>2. fromPeer \in Seq(Frames) /\ Len(fromPeer) \in Nat \ {0} /\ m = fromPeer[1]
  BY <1>1 DEF RoomInv, RoomTypes
<1>3. m \in Frames /\ rest \in Seq(Frames) /\ Len(rest) = Len(fromPeer) - 1
      /\ \A i \in 1 .. Len(rest) : rest[i] = fromPeer[i + 1]
  BY <1>1, <1>2, HeadTailProperties
<1> HIDE DEF m, rest
<1>4. room \in {"joining", "in"}
  BY <1>1 DEF RoomInv, RoomTypes, Apart
<1>5. room = IF m.op = "snapshot" THEN "joining" ELSE "in"
  <2>1. room = "joining" => m.op = "snapshot"
    BY DEF RoomInv, Seated, m
  <2>2. m.op = "snapshot" => room = "joining"
    BY <1>2 DEF RoomInv, OneSnapshot
  <2> QED
    BY <1>4, <2>1, <2>2
<1>6. OneSnapshot'
  <2> SUFFICES ASSUME NEW i \in 1 .. Len(rest), rest[i].op = "snapshot" PROVE FALSE
    BY <1>1 DEF OneSnapshot
  <2>1. i + 1 \in 1 .. Len(fromPeer) /\ i + 1 # 1 /\ rest[i] = fromPeer[i + 1]
    BY <1>2, <1>3
  <2> QED
    BY <2>1 DEF RoomInv, OneSnapshot
<1> QED
  BY <1>1, <1>3, <1>4, <1>5, <1>6 DEF m, rest

\* A frame that makes of the queue what it made of the other one.
LEMMA Applied ==
  ASSUME RoomInv, Receive, queue \in Seq(Tracks), Head(fromPeer).op # "snapshot",
         queue' \in Seq(Tracks), Ids(queue') = Effect(Head(fromPeer), Ids(queue)),
         last' = <<queue'>>, toPeer' = toPeer, overlap' = overlap
  PROVE  RoomInv'
<1> DEFINE m == Head(fromPeer)
<1>1. /\ fromPeer # <<>> /\ m \in Frames /\ fromPeer' = Tail(fromPeer) /\ fromPeer' \in Seq(Frames)
      /\ room' = "in" /\ room = "in" /\ OneSnapshot' /\ peer' = peer
  BY ReceivedIs
<1>2. fromPeer \in Seq(Frames) /\ Ids(queue) \in Seq(Songs)
  BY IdsTyped DEF RoomInv, RoomTypes
<1>3. RoomTypes' /\ Apart' /\ Seen' /\ Seated'
  BY <1>1 DEF RoomInv, RoomTypes, Apart, Seen, Seated
<1>4. InStep'
  <2> SUFFICES ASSUME ~overlap
               PROVE  IF toPeer = <<>> THEN Leads(Ids(queue'), Tail(fromPeer), Ids(peer))
                      ELSE OnlyControls(Tail(fromPeer)) /\ Leads(Ids(peer), toPeer, Ids(queue'))
    BY <1>1 DEF InStep
  <2>1. IF toPeer = <<>> THEN Leads(Ids(queue), fromPeer, Ids(peer))
        ELSE OnlyControls(fromPeer) /\ Leads(Ids(peer), toPeer, Ids(queue))
    BY <1>1 DEF RoomInv, InStep
  <2>2. CASE toPeer = <<>>
    <3>1. Leads(Effect(m, Ids(queue)), Tail(fromPeer), Ids(peer))
      BY <1>1, <1>2, <2>1, <2>2, LeadsHead
    <3> QED
      BY <2>2, <3>1
  <2>3. CASE toPeer # <<>>
    <3>1. OnlyControls(Tail(fromPeer)) /\ m.op \in Controls
      BY <1>1, <1>2, <2>1, <2>3, ControlsTail
    <3>2. Effect(m, Ids(queue)) = Ids(queue)
      BY <3>1 DEF Effect, Controls
    <3> QED
      BY <2>1, <2>3, <3>1, <3>2
  <2> QED
    BY <2>2, <2>3
<1> QED
  BY <1>1, <1>3, <1>4 DEF RoomInv

LEMMA AdoptIs ==
  ASSUME QueueTypes, song \in Songs \union {NoSong}, NEW q \in Seq(Tracks), Adopt(q)
  PROVE  /\ queue' = q /\ last' = <<q>> /\ index' \in Nat
         /\ UNCHANGED <<source, stored, toPeer, overlap>>
         /\ ~dirty' => ~dirty /\ q = queue
         /\ /\ song # NoSong /\ Holds(queue, index) /\ queue[index].id = song
            /\ \E k \in 1 .. Len(q) : q[k].id = song
            => Holds(q, index') /\ q[index'].id = song
<1> DEFINE k == Find(q, song)
           c == ClampIndex(index, Len(q))
<1>1. last' = <<q>> /\ UNCHANGED <<source, stored, toPeer, overlap>>
  BY DEF Adopt
<1>2. /\ q = queue => UNCHANGED <<queue, index, dirty>>
      /\ q # queue => /\ queue' = q /\ dirty' = TRUE
                      /\ index' = IF song # NoSong /\ k # 0 THEN k ELSE c
  BY DEF Adopt
<1>3. k \in Nat /\ c \in Nat
  BY FindIs DEF ClampIndex, QueueTypes
<1>4. (\E j \in 1 .. Len(q) : q[j].id = song) => k \in 1 .. Len(q) /\ q[k].id = song
  BY FindIs
<1> HIDE DEF k, c
<1>5. index' \in Nat /\ queue' = q /\ (~dirty' => ~dirty /\ q = queue)
  BY <1>2, <1>3 DEF QueueTypes
<1>6. ASSUME song # NoSong, Holds(queue, index), queue[index].id = song,
             \E j \in 1 .. Len(q) : q[j].id = song
      PROVE  Holds(q, index') /\ q[index'].id = song
  <2>1. CASE q = queue
    BY <1>2, <1>6, <2>1
  <2>2. CASE q # queue
    <3>1. k \in 1 .. Len(q) /\ q[k].id = song /\ k # 0
      BY <1>4, <1>6
    <3>2. index' = k
      BY <1>2, <1>6, <2>2, <3>1
    <3> QED
      BY <3>1, <3>2 DEF Holds
  <2> QED
    BY <2>1, <2>2
<1> QED
  BY <1>1, <1>5, <1>6

Received == HeldOn /\ MarkStays /\ (StoredFollows => StoredFollows')

LEMMA ModesHeld ==
  ASSUME Held, Receive
  PROVE  Modes'
BY ReceivedIs, ModesStay DEF Held

\* The queue of a frame is taken over, and the player stays.
LEMMA TakenOver ==
  ASSUME Held, Receive, Head(fromPeer).op # "snapshot", NEW q \in Seq(Tracks), Adopt(q),
         Ids(q) = Effect(Head(fromPeer), Ids(queue)), UNCHANGED mainVars
  PROVE  Received
<1>1. queue \in Seq(Tracks) /\ song \in Songs \union {NoSong} /\ QueueTypes
  BY DEF Held, QueueTypes, PlayerInv, Elements
<1>2. /\ queue' = q /\ last' = <<q>> /\ index' \in Nat
      /\ UNCHANGED <<source, stored, toPeer, overlap>>
      /\ ~dirty' => ~dirty /\ q = queue
  BY <1>1, AdoptIs
<1>3. /\ song # NoSong /\ Holds(queue, index) /\ queue[index].id = song
      /\ \E k \in 1 .. Len(q) : q[k].id = song
      => Holds(q, index') /\ q[index'].id = song
  BY <1>1, AdoptIs
<1>4. RoomInv'
  BY <1>1, <1>2, Applied DEF Held
<1>5. QueueTypes'
  BY <1>1, <1>2 DEF QueueTypes
<1>6. PlayerInv'
  <2>1. UNCHANGED previewVars /\ (outside => outside')
    BY ReceivedIs DEF Held
  <2> QED
    BY <2>1, PlayerStays DEF Held
<1>7. MarkStays
  BY <1>2, <1>3, CopyIs DEF MarkStays
<1>8. StoredFollows => StoredFollows'
  <2>1. room' = "in"
    BY ReceivedIs DEF Held
  <2> QED
    BY <1>2, <2>1 DEF StoredFollows
<1> QED
  BY <1>4, <1>5, <1>6, <1>7, <1>8, ModesHeld DEF Received, HeldOn

\* A frame that leaves the queue alone, but perhaps the mark.
LEMMA LeftAlone ==
  ASSUME Held, Receive, Head(fromPeer).op # "snapshot",
         Effect(Head(fromPeer), Ids(queue)) = Ids(queue),
         UNCHANGED <<queue, source, stored, dirty, toPeer, last, overlap>>, index' \in Nat,
         PlayerInv', song' = song /\ index' # index => MarkStays
  PROVE  Received
<1>1. queue \in Seq(Tracks) /\ QueueTypes
  BY DEF Held, QueueTypes
<1>2. room' = "in" /\ room = "in"
  BY ReceivedIs DEF Held
<1>3. last' = <<queue'>>
  BY <1>2 DEF Held, RoomInv, Seen
<1>4. RoomInv'
  BY <1>1, <1>3, Applied DEF Held
<1>5. QueueTypes'
  BY <1>1 DEF QueueTypes
<1>6. MarkStays
  BY DEF MarkStays
<1>7. StoredFollows => StoredFollows'
  BY <1>2 DEF StoredFollows
<1> QED
  BY <1>4, <1>5, <1>6, <1>7, ModesHeld DEF Received, HeldOn

LEMMA ReceiveQueue ==
  ASSUME Held, Receive, Head(fromPeer).op \in {"queue", "enqueue"}
  PROVE  Received
<1> DEFINE m == Head(fromPeer)
<1>1. m \in Frames /\ UNCHANGED mainVars
  BY ReceivedIs DEF Held, Receive
<1>2. CASE m.op = "queue"
  <2>1. Adopt(m.songs)
    BY <1>2 DEF Receive
  <2>2. m.songs \in Seq(Tracks) /\ Ids(m.songs) = Effect(m, Ids(queue))
    BY <1>1, <1>2, FrameTyped DEF Effect
  <2> QED
    BY <1>1, <1>2, <2>1, <2>2, TakenOver
<1>3. CASE m.op = "enqueue"
  <2> DEFINE q == Splice(queue, m.songs, m.at)
             songs == m.songs
             k == m.at
  <2>1. Adopt(q)
    BY <1>3 DEF Receive
  <2>2. songs \in Seq(Tracks) /\ k \in Nat /\ queue \in Seq(Tracks)
    BY <1>1, <1>3, FrameTyped DEF Held, QueueTypes
  <2>3. Effect(m, Ids(queue)) = Splice(Ids(queue), Ids(songs), k)
    BY <1>3 DEF Effect
  <2>4. q = Splice(queue, songs, k)
    OBVIOUS
  <2> HIDE DEF songs, k
  <2>5. Splice(queue, songs, k) \in Seq(Tracks) /\ Ids(Splice(queue, songs, k)) = Splice(Ids(queue), Ids(songs), k)
    BY <2>2, IdsSplice
  <2>6. q \in Seq(Tracks) /\ Ids(q) = Effect(m, Ids(queue)) /\ m.op # "snapshot"
    BY <1>3, <2>3, <2>4, <2>5
  <2> HIDE DEF q
  <2> QED
    BY <1>1, <2>1, <2>6, TakenOver
<1> QED
  BY <1>2, <1>3

LEMMA ReceiveYoutube ==
  ASSUME Held, Receive, Head(fromPeer).op = "youtube"
  PROVE  Received
<1> DEFINE m == Head(fromPeer)
           id == m.id
           yt == m.yt
           i == Find(queue, id)
           same == i = 0 \/ queue[i].yt = yt
<1>1. m \in Frames /\ UNCHANGED <<mainVars, previewVars>> /\ (outside => outside') /\ room = "in" /\ room' = "in"
  BY ReceivedIs DEF Held, Receive
<1>2. AdoptYoutube(id, yt)
  BY DEF Receive
<1>3. Effect(m, Ids(queue)) = Ids(queue)
  BY DEF Effect
<1>4. PlayerInv' /\ song' = song
  BY <1>1, PlayerStays DEF Held
<1>5. CASE same
  <2>1. KeepQueue
    BY <1>2, <1>5 DEF AdoptYoutube
  <2> QED
    BY <1>3, <1>4, <2>1, LeftAlone DEF KeepQueue, Held, QueueTypes
<1>6. CASE ~same
  <2> DEFINE q == [queue EXCEPT ![i].yt = yt]
  <2>1. queue' = q /\ last' = <<queue'>> /\ dirty' = TRUE /\ UNCHANGED <<index, source, stored, toPeer, overlap>>
    BY <1>2, <1>6 DEF AdoptYoutube
  <2>2. queue \in Seq(Tracks) /\ yt \in BOOLEAN
    BY <1>1, FrameTyped DEF Held, QueueTypes
  <2> HIDE DEF id, yt
  <2>3. i \in 1 .. Len(queue)
    BY <1>6, <2>2, FindIs
  <2> HIDE DEF i
  <2>4. q \in Seq(Tracks) /\ Ids(q) = Ids(queue) /\ Len(q) = Len(queue)
    BY <2>2, <2>3, YoutubeIds
  <2> HIDE DEF q
  <2>5. RoomInv'
    BY <1>3, <2>1, <2>2, <2>4, Applied DEF Held
  <2>6. QueueTypes'
    BY <2>1, <2>4 DEF Held, QueueTypes
  <2>7. ASSUME Holds(queue, index) PROVE Holds(q, index) /\ q[index].id = queue[index].id
    <3>1. Holds(q, index)
      BY <2>4, <2>7 DEF Holds
    <3>2. Ids(q)[index] = q[index].id /\ Ids(queue)[index] = queue[index].id
      BY <2>2, <2>4, <2>7, <3>1, IdsOf DEF Holds
    <3> QED
      BY <2>4, <3>1, <3>2
  <2>8. MarkStays
    BY <2>1, <2>7 DEF MarkStays
  <2>9. StoredFollows'
    BY <2>1 DEF StoredFollows
  <2> QED
    BY <1>4, <2>5, <2>6, <2>8, <2>9, ModesHeld DEF Received, HeldOn
<1> QED
  BY <1>5, <1>6

\* What a shuffle makes of the queue, and of the mark.
LEMMA ShuffledMark ==
  ASSUME NEW q \in Seq(Tracks), NEW i \in Nat, NEW seed \in Seeds, Draws(seed, q), NEW k,
         k = IF Holds(q, i) THEN Find(Permute(q, seed), q[i].id) ELSE i
  PROVE  /\ Permute(q, seed) \in Seq(Tracks) /\ k \in Nat
         /\ Holds(q, i) => Holds(Permute(q, seed), k) /\ Permute(q, seed)[k].id = q[i].id
<1> DEFINE r == Permute(q, seed)
           n == Len(q)
           id == q[i].id
<1>1. r \in Seq(Tracks) /\ Len(r) = n /\ \A j \in 1 .. n : \E x \in 1 .. n : r[x] = q[j]
  BY PermuteIs
<1> HIDE DEF r
<1>2. ASSUME Holds(q, i) PROVE Holds(r, k) /\ k \in Nat /\ r[k].id = id
  <2>1. PICK x \in 1 .. n : r[x] = q[i]
    BY <1>1, <1>2 DEF Holds
  <2>2. x \in 1 .. Len(r) /\ r[x].id = id
    BY <1>1, <2>1
  <2>3. k = Find(r, id)
    BY <1>2 DEF r
  <2> HIDE DEF id
  <2>4. k \in 1 .. Len(r) /\ r[k].id = id
    BY <1>1, <2>2, <2>3, FindIs
  <2> QED
    BY <2>4 DEF Holds
<1> QED
  BY <1>1, <1>2 DEF r

LEMMA ReceiveShuffle ==
  ASSUME Held, Receive, Head(fromPeer).op = "shuffle"
  PROVE  Received
<1> DEFINE m == Head(fromPeer)
           seed == m.seed
           q == Permute(queue, seed)
           d == Delta(queue, q)
<1>1. /\ m \in Frames /\ fromPeer # <<>> /\ fromPeer' = Tail(fromPeer) /\ fromPeer' \in Seq(Frames)
      /\ room = "in" /\ room' = "in" /\ OneSnapshot' /\ peer' = peer
      /\ UNCHANGED <<mainVars, previewVars>> /\ (outside => outside')
  BY ReceivedIs DEF Held, Receive
<1>2. Reorder(seed)
  BY DEF Receive
<1>3. seed \in Seeds
  BY <1>1, FrameTyped
<1>4. /\ Draws(seed, queue) /\ queue' = q /\ dirty' = TRUE /\ UNCHANGED <<source, stored>>
      /\ index' = IF Holds(queue, index) THEN Find(q, queue[index].id) ELSE index
      /\ toPeer' = toPeer \o <<d>> /\ last' = <<q>>
      /\ overlap' = (overlap \/ Len(fromPeer) > 1)
  BY <1>1, <1>2, FrameIs DEF Reorder, Held, RoomInv
<1>5. queue \in Seq(Tracks) /\ index \in Nat /\ source \in DOMAIN Lists
  BY DEF Held, QueueTypes
<1>6. /\ q \in Seq(Tracks) /\ index' \in Nat
      /\ Holds(queue, index) => Holds(q, index') /\ q[index'].id = queue[index].id
  <2> HIDE DEF seed
  <2> QED
    BY <1>3, <1>4, <1>5, ShuffledMark
<1>7. Effect(m, Ids(queue)) = Ids(queue) /\ m.op \notin Controls
  BY DEF Effect, Controls
<1> HIDE DEF q
<1>8. QueueTypes'
  BY <1>4, <1>5, <1>6 DEF Held, QueueTypes
<1>9. MarkStays
  BY <1>4, <1>6 DEF MarkStays
<1>10. StoredFollows'
  BY <1>4 DEF StoredFollows
<1>11. PlayerInv'
  BY <1>1, PlayerStays DEF Held
<1>12. RoomInv'
  <2>1. toPeer \in Seq(EditFrames) /\ fromPeer \in Seq(Frames) /\ peer \in Seq(Tracks)
    BY DEF Held, RoomInv, RoomTypes
  <2>2. toPeer' \in Seq(EditFrames) /\ toPeer' # <<>>
    <3>1. d \in EditFrames
      BY <1>5, <1>6, DeltaIs, EditsAreFrames
    <3> HIDE DEF d
    <3> QED
      BY <1>4, <2>1, <3>1
  <2>3. RoomTypes' /\ Apart' /\ Seen' /\ Seated'
    BY <1>1, <1>4, <2>1, <2>2 DEF RoomTypes, Apart, Seen, Seated
  <2>4. InStep'
    <3> SUFFICES ASSUME ~overlap'
                 PROVE  Tail(fromPeer) = <<>> /\ Leads(Ids(peer), toPeer \o <<d>>, Ids(q))
      <4>1. OnlyControls(<<>>)
        BY DEF OnlyControls
      <4> QED
        BY <1>1, <1>4, <2>2, <4>1 DEF InStep
    <3>1. ~overlap /\ ~(Len(fromPeer) > 1)
      BY <1>4, Zenon
    <3>2. Tail(fromPeer) = <<>>
      <4> DEFINE rest == Tail(fromPeer)
      <4>1. Len(rest) = Len(fromPeer) - 1 /\ rest \in Seq(Frames) /\ Len(fromPeer) \in Nat
        BY <1>1, <2>1, HeadTailProperties
      <4> HIDE DEF rest
      <4>2. Len(rest) = 0
        <5>1. Len(fromPeer) # 0
          BY <1>1, <2>1
        <5> QED
          BY <3>1, <4>1, <5>1
      <4>3. rest = <<>>
        BY <4>1, <4>2
      <4> QED
        BY <4>3 DEF rest
    <3>3. toPeer = <<>>
      <4> SUFFICES ASSUME toPeer # <<>> PROVE FALSE
        OBVIOUS
      <4>1. OnlyControls(fromPeer)
        BY <1>1, <3>1 DEF Held, RoomInv, InStep
      <4>2. m.op \in Controls
        BY <1>1, <2>1, <4>1, ControlsTail
      <4> QED
        BY <1>7, <4>2
    <3>4. Leads(Ids(queue), fromPeer, Ids(peer))
      BY <1>1, <3>1, <3>3 DEF Held, RoomInv, InStep
    <3>5. Leads(Effect(m, Ids(queue)), Tail(fromPeer), Ids(peer))
      BY <1>1, <2>1, <3>4, LeadsHead
    <3>6. Ids(queue) \in Seq(Songs) /\ Ids(peer) \in Seq(Songs)
      BY <1>5, <2>1, IdsTyped
    <3>7. Ids(queue) = Ids(peer)
      BY <1>7, <3>2, <3>5, <3>6, LeadsNone
    <3>8. Leads(Ids(peer), toPeer, Ids(queue))
      BY <3>3, <3>6, <3>7, LeadsNone
    <3>9. Leads(Ids(peer), toPeer \o <<Delta(queue, q)>>, Ids(q))
      BY <1>5, <1>6, <2>1, <3>8, EditFollows
    <3> QED
      BY <3>2, <3>9
  <2> QED
    BY <1>1, <2>3, <2>4 DEF RoomInv
<1> QED
  BY <1>8, <1>9, <1>10, <1>11, <1>12, ModesHeld DEF Received, HeldOn

\* The track of the room is loaded at its row.
LEMMA FollowsRoom ==
  ASSUME Held, outside', UNCHANGED previewVars, NEW s \in Songs, NEW i \in Nat, FollowRoom(s, i)
  PROVE  PlayerInv' /\ song' = s /\ index' = i
<1>1. index' = i /\ BeginLoad(s, "round", i, {})
  BY DEF FollowRoom
<1>2. {} \in SUBSET Nat /\ "round" \in {"bare", "round", "sweep"}
  OBVIOUS
<1>3. Elements' /\ song' = s
  BY <1>1, <1>2, Begins DEF Held, PlayerInv
<1>4. Previews' /\ Owed'
  BY PreviewStays DEF Held, PlayerInv, Owed
<1> QED
  BY <1>1, <1>3, <1>4 DEF PlayerInv

LEMMA ReceiveControl ==
  ASSUME Held, Receive, Head(fromPeer).op \in Controls
  PROVE  Received
<1> DEFINE m == Head(fromPeer)
<1>1. KeepQueue /\ m.op # "snapshot" /\ Effect(m, Ids(queue)) = Ids(queue)
  BY DEF Receive, Controls, Effect
<1>2. /\ UNCHANGED previewVars
      /\ outside' = (outside \/ m.op = "play" \/ m.op = "prepare" \/ m.op = "snapshot")
  BY ReceivedIs DEF Held
<1>3. QueueTypes /\ PlayerInv
  BY DEF Held
<1>4. PlayerInv'
  <2>1. Previews' /\ resumeMain' = resumeMain
    BY <1>2, <1>3, PreviewStays DEF PlayerInv
  <2>2. CASE m.op = "unshuffle"
    <3>1. UNCHANGED mainVars
      BY <2>2 DEF Receive
    <3> QED
      BY <1>2, <1>3, <3>1, PlayerStays
  <2>3. CASE m.op = "play"
    <3>1. ResumeMain /\ outside'
      BY <1>2, <2>3 DEF Receive
    <3> QED
      BY <1>2, <1>3, <3>1, Controlled
  <2>4. CASE m.op = "pause"
    <3>1. (IF audio.sounding THEN Silence ELSE UNCHANGED mainVars) /\ (outside => outside')
      BY <1>2, <2>4 DEF Receive
    <3>2. CASE audio.sounding
      <4>1. Elements' /\ load' = load /\ ~audio'.sounding
        BY <1>3, <3>1, <3>2, Silences DEF PlayerInv
      <4>2. Owed'
        BY <1>3, <2>1, <3>1, <4>1 DEF PlayerInv, Owed
      <4> QED
        BY <2>1, <4>1, <4>2 DEF PlayerInv
    <3>3. CASE ~audio.sounding
      BY <1>2, <1>3, <3>1, <3>3, PlayerStays
    <3> QED
      BY <3>2, <3>3
  <2>5. CASE m.op = "stop"
    <3>1. StopPlayer
      BY <2>5 DEF Receive
    <3>2. Owed'
      BY <3>1 DEF StopPlayer, Owed, NoElement
    <3> QED
      BY <2>1, <3>1, <3>2, Stops DEF PlayerInv
  <2> QED
    BY <2>2, <2>3, <2>4, <2>5 DEF Controls
<1> QED
  BY <1>1, <1>3, <1>4, LeftAlone DEF KeepQueue, QueueTypes

LEMMA ReceivePrepare ==
  ASSUME Held, Receive, Head(fromPeer).op = "prepare"
  PROVE  Received
<1> DEFINE m == Head(fromPeer)
<1>1. /\ FollowRoom(m.song, m.at) /\ UNCHANGED <<queue, source, stored, dirty, toPeer, last, overlap>>
      /\ Effect(m, Ids(queue)) = Ids(queue) /\ m.op # "snapshot" /\ m.op \notin Controls
  BY DEF Receive, Effect, Controls
<1>2. m \in Frames /\ fromPeer # <<>> /\ UNCHANGED previewVars /\ outside' /\ room = "in"
  BY ReceivedIs DEF Held
<1>3. m.song \in Songs /\ m.at \in Nat
  BY <1>2, FrameTyped
<1>4. PlayerInv' /\ song' = m.song /\ index' = m.at
  BY <1>1, <1>2, <1>3, FollowsRoom
<1>5. MarkStays
  <2> SUFFICES ASSUME song' = song, ~overlap PROVE Holds(queue, m.at) /\ queue[m.at].id = song
    BY <1>1, <1>4 DEF MarkStays
  <2>1. queue \in Seq(Tracks) /\ fromPeer \in Seq(Frames)
    BY DEF Held, QueueTypes, RoomInv, RoomTypes
  <2>2. toPeer = <<>>
    <3> SUFFICES ASSUME toPeer # <<>> PROVE FALSE
      OBVIOUS
    <3>1. OnlyControls(fromPeer)
      BY <1>2 DEF Held, RoomInv, InStep
    <3> QED
      BY <1>1, <1>2, <2>1, <3>1, ControlsTail
  <2>3. Leads(Ids(queue), fromPeer, Ids(peer))
    BY <1>2, <2>2 DEF Held, RoomInv, InStep
  <2>4. PlacedIn(m, Ids(queue))
    BY <1>2, <2>1, <2>3, LeadsHead
  <2>5. m.at \in 1 .. Len(Ids(queue)) /\ Ids(queue)[m.at] = m.song
    BY <2>4 DEF PlacedIn
  <2>6. Len(Ids(queue)) = Len(queue) /\ Ids(queue)[m.at] = queue[m.at].id
    BY <2>1, <2>5, IdsOf
  <2> QED
    BY <1>4, <2>5, <2>6 DEF Holds
<1> QED
  BY <1>1, <1>3, <1>4, <1>5, LeftAlone

LEMMA ReceiveSnapshot ==
  ASSUME Held, Receive, Head(fromPeer).op = "snapshot"
  PROVE  Received
<1> DEFINE m == Head(fromPeer)
           rest == Tail(fromPeer)
           songs == m.songs
           s == m.song
<1>1. /\ m \in Frames /\ fromPeer # <<>> /\ fromPeer' = rest /\ fromPeer' \in Seq(Frames)
      /\ room = "joining" /\ room' = "in" /\ OneSnapshot' /\ peer' = peer
      /\ UNCHANGED previewVars /\ outside'
  BY ReceivedIs DEF Held
<1>2. Join(m)
  BY DEF Receive
<1>3. /\ queue \in Seq(Tracks) /\ index \in Nat /\ QueueTypes /\ PlayerInv /\ peer \in Seq(Tracks)
      /\ toPeer \in Seq(EditFrames) /\ fromPeer \in Seq(Frames) /\ RoomInv
  BY DEF Held, QueueTypes, RoomInv, RoomTypes
<1>4. songs \in Seq(Tracks) /\ s \in Songs \union {NoSong} /\ m.role \in {"host", "guest"}
  BY <1>1, FrameTyped
<1>5. s # NoSong => Find(songs, s) # 0
  BY <1>1, <1>3 DEF RoomInv, Seated
<1>6. ~overlap => toPeer = <<>> /\ Leads(<<>>, fromPeer, Ids(peer))
  BY <1>1, <1>3 DEF RoomInv, InStep
<1>7. Effect(m, <<>>) = Ids(songs)
  BY DEF Effect
<1>8. ~overlap => Leads(Ids(songs), rest, Ids(peer))
  BY <1>1, <1>3, <1>6, <1>7, LeadsHead
<1>9. CASE m.role = "host"
  <2> DEFINE f == [op |-> "queue", songs |-> queue]
  <2>1. /\ last' = <<queue>> /\ toPeer' = Append(toPeer, f)
        /\ overlap' = (overlap \/ Len(fromPeer) > 1)
        /\ UNCHANGED <<queue, index, source, stored, dirty, mainVars>>
    BY <1>2, <1>9 DEF Join
  <2>2. f \in DeltaFrames /\ Effect(f, Ids(peer)) = Ids(queue) /\ f.op = "queue" /\ PlacedIn(f, Ids(peer))
    BY <1>3 DEF DeltaFrames, QueueFrames, Effect, PlacedIn
  <2> HIDE DEF f
  <2>3. f \in EditFrames /\ f \in Frames
    BY <2>2, EditsAreFrames
  <2>4. toPeer' \in Seq(EditFrames) /\ toPeer' # <<>>
    BY <1>3, <2>1, <2>3, AppendProperties
  <2>5. RoomTypes' /\ Apart' /\ Seen' /\ Seated'
    BY <1>1, <1>3, <2>1, <2>4 DEF RoomTypes, Apart, Seen, Seated
  <2>6. InStep'
    <3> SUFFICES ASSUME ~overlap'
                 PROVE  rest = <<>> /\ Leads(Ids(peer), toPeer', Ids(queue))
      <4>1. OnlyControls(<<>>)
        BY DEF OnlyControls
      <4> QED
        BY <1>1, <2>1, <2>4, <4>1 DEF InStep
    <3>1. ~overlap /\ ~(Len(fromPeer) > 1)
      BY <2>1, Zenon
    <3>2. rest = <<>>
      <4>1. Len(rest) = Len(fromPeer) - 1 /\ rest \in Seq(Frames) /\ Len(fromPeer) \in Nat
        BY <1>1, <1>3, HeadTailProperties
      <4> HIDE DEF rest
      <4>2. Len(rest) = 0
        BY <1>1, <1>3, <3>1, <4>1
      <4> QED
        BY <4>1, <4>2
    <3>3. toPeer' = <<>> \o <<f>>
      BY <1>6, <2>1, <2>3, <3>1
    <3> DEFINE ids == Ids(peer)
    <3>4. ids \in Seq(Songs) /\ <<>> \in Seq(Frames) /\ PlacedIn(f, ids)
      <4>1. <<>> \in Seq(Frames)
        OBVIOUS
      <4> QED
        BY <1>3, <2>2, <4>1, IdsTyped
    <3> HIDE DEF ids
    <3>5. Leads(ids, <<>>, ids)
      BY <3>4, LeadsNone
    <3>6. Leads(ids, <<>> \o <<f>>, Effect(f, ids))
      BY <2>3, <3>4, <3>5, LeadsMore
    <3> QED
      BY <2>2, <3>2, <3>3, <3>6 DEF ids
  <2>7. RoomInv'
    BY <1>1, <2>5, <2>6 DEF RoomInv
  <2>8. QueueTypes' /\ MarkStays
    BY <1>3, <2>1 DEF QueueTypes, MarkStays
  <2>9. PlayerInv'
    BY <1>1, <1>3, <2>1, PlayerStays
  <2>10. StoredFollows => StoredFollows'
    BY <1>1, <2>1 DEF StoredFollows
  <2> QED
    BY <2>7, <2>8, <2>9, <2>10, ModesHeld DEF Received, HeldOn
<1>10. CASE m.role # "host"
  <2> DEFINE k == Find(songs, s)
  <2>1. /\ last' = <<songs>> /\ queue' = songs /\ UNCHANGED <<source, stored, toPeer, overlap>>
        /\ dirty' = (dirty \/ songs # queue)
    BY <1>2, <1>10 DEF Join
  <2>2. RoomTypes' /\ Apart' /\ Seen' /\ Seated'
    BY <1>1, <1>3, <2>1 DEF RoomTypes, Apart, Seen, Seated
  <2>3. InStep'
    BY <1>1, <1>6, <1>8, <2>1 DEF InStep
  <2>4. RoomInv'
    BY <1>1, <2>2, <2>3 DEF RoomInv
  <2>5. StoredFollows => StoredFollows'
    BY <1>1, <2>1 DEF StoredFollows
  <2>6. CASE s = NoSong
    <3>1. StopPlayer /\ index' = IF songs = queue THEN index
                                 ELSE IF song # NoSong /\ Find(songs, song) # 0
                                        THEN Find(songs, song)
                                        ELSE ClampIndex(index, Len(songs))
      BY <1>2, <1>10, <2>6 DEF Join
    <3>2. Find(songs, song) \in Nat /\ ClampIndex(index, Len(songs)) \in Nat
      BY <1>3, <1>4, FindIs DEF ClampIndex
    <3>3. index' \in Nat
      BY <1>3, <3>1, <3>2
    <3>4. QueueTypes'
      BY <1>3, <1>4, <2>1, <3>3 DEF QueueTypes
    <3>5. PlayerInv' /\ song' = NoSong
      BY <1>1, <1>3, <3>1, Controlled, Stops
    <3>6. MarkStays
      BY <3>5 DEF MarkStays
    <3> QED
      BY <2>4, <2>5, <3>4, <3>5, <3>6, ModesHeld DEF Received, HeldOn
  <2>7. CASE s # NoSong
    <3>1. FollowRoom(s, k)
      BY <1>2, <1>10, <2>7 DEF Join
    <3>2. k \in Nat /\ k \in 1 .. Len(songs) /\ songs[k].id = s
      <4> HIDE DEF songs, s
      <4> QED
        BY <1>4, <1>5, <2>7, FindIs
    <3> HIDE DEF k
    <3>3. PlayerInv' /\ song' = s /\ index' = k
      BY <1>1, <1>4, <2>7, <3>1, <3>2, FollowsRoom
    <3>4. QueueTypes' /\ MarkStays
      BY <1>3, <1>4, <2>1, <3>2, <3>3 DEF QueueTypes, MarkStays, Holds
    <3> QED
      BY <2>4, <2>5, <3>3, <3>4, ModesHeld DEF Received, HeldOn
  <2> QED
    BY <2>6, <2>7
<1> QED
  BY <1>9, <1>10

LEMMA ReceiveStep ==
  ASSUME Held, Receive
  PROVE  Received
<1>1. Head(fromPeer) \in Frames
  BY ReceivedIs DEF Held
<1>2. Head(fromPeer).op \in {"queue", "enqueue", "youtube", "shuffle", "prepare", "snapshot"} \union Controls
  BY <1>1, FrameTyped
<1> QED
  BY <1>2, ReceiveQueue, ReceiveYoutube, ReceiveShuffle, ReceiveControl, ReceivePrepare, ReceiveSnapshot

(***************************************************************************)
(* The steps, and what they keep                                           *)
(***************************************************************************)

\* Outside a room the mark is on a row, and so it is in storage.
PlacedInv == room = "out" => Placed(queue, index) /\ Placed(stored.queue, stored.index)

QueueInv == Held /\ StoredFollows /\ PlacedInv
Kept == QueueInv' /\ MarkStays

LEMMA LocalKept ==
  ASSUME QueueInv, LocalStep
  PROVE  Kept
<1>1. UNCHANGED <<room, peer, fromPeer>> /\ PlayerInv' /\ Modes' /\ QueueStep
  BY DEF LocalStep, QueueStep
<1>2. RoomInv'
  BY <1>1, LocalRoom DEF QueueInv, Held
<1>3. QueueTypes
  BY DEF QueueInv, Held
<1>4. CASE Stays
  <2>1. QueueTypes'
    BY <1>3, <1>4 DEF QueueTypes, Stays
  <2>2. StoredFollows' /\ PlacedInv' /\ MarkStays
    BY <1>1, <1>4 DEF QueueInv, StoredFollows, PlacedInv, MarkStays, Stays
  <2> QED
    BY <1>1, <1>2, <2>1, <2>2 DEF Kept, QueueInv, Held
<1>5. CASE Moves
  <2>1. PICK i \in Nat : /\ Holds(queue, i) /\ MoveIndex(i)
                         /\ source' = source /\ song' = queue[i].id
    BY <1>5 DEF Moves
  <2>2. index' = i /\ dirty' = TRUE /\ UNCHANGED <<queue, stored>>
    BY <2>1 DEF MoveIndex
  <2>3. QueueTypes'
    BY <1>3, <2>1, <2>2 DEF QueueTypes
  <2>4. Placed(queue, i)
    BY <1>3, <2>1, TrackOf DEF Placed, QueueTypes
  <2>5. PlacedInv'
    BY <1>1, <2>2, <2>4 DEF QueueInv, PlacedInv
  <2>6. StoredFollows' /\ MarkStays
    BY <2>1, <2>2 DEF StoredFollows, MarkStays
  <2> QED
    BY <1>1, <1>2, <2>3, <2>5, <2>6 DEF Kept, QueueInv, Held
<1>6. CASE Edits
  <2>0. PICK q \in Seq(Tracks), i \in Nat : \E frames :
          /\ EditQueueAnd(q, i, frames) /\ source' \in DOMAIN Lists
          /\ Placed(queue, index) => Placed(q, i)
          /\ Marked(q, i)
    BY <1>6 DEF Edits
  <2>1. PICK frames :
          /\ EditQueueAnd(q, i, frames) /\ source' \in DOMAIN Lists
          /\ Placed(queue, index) => Placed(q, i)
          /\ Marked(q, i)
    BY <2>0
  <2>2. queue' = q /\ index' = i /\ dirty' = TRUE /\ stored' = stored
    BY <2>1 DEF EditQueueAnd
  <2>3. QueueTypes'
    BY <1>3, <2>1, <2>2 DEF QueueTypes
  <2>4. PlacedInv'
    BY <1>1, <2>1, <2>2 DEF QueueInv, PlacedInv
  <2>5. StoredFollows'
    BY <2>2 DEF StoredFollows
  <2>6. MarkStays
    BY <2>1, <2>2, CopyIs DEF MarkStays, Marked
  <2> QED
    BY <1>1, <1>2, <2>3, <2>4, <2>5, <2>6 DEF Kept, QueueInv, Held
<1> QED
  BY <1>1, <1>4, <1>5, <1>6 DEF QueueStep

\* A step that leaves the queue of this window alone.
LEMMA QueueLeft ==
  ASSUME QueueInv, UNCHANGED queueVars, song' = song, PlayerInv', UNCHANGED <<repeat, drag>>, RoomInv',
         room' = "out" => room = "out"
  PROVE  Kept
<1>1. QueueTypes' /\ StoredFollows' /\ PlacedInv' /\ MarkStays
  BY DEF QueueInv, Held, QueueTypes, StoredFollows, PlacedInv, MarkStays, queueVars
<1> QED
  BY <1>1, ModesStay DEF Kept, QueueInv, Held

LEMMA LeaveKept ==
  ASSUME QueueInv, Leave
  PROVE  Kept
<1>1. /\ room' = "left" /\ load' = IF load.kind = "round" THEN NoLoad ELSE load
      /\ UNCHANGED <<queueVars, repeat, song, audio, previewVars, drag, outside>>
  BY DEF Leave
<1>2. PlayerInv
  BY DEF QueueInv, Held
<1>3. load' = NoLoad \/ load' = load
  BY <1>1
<1>4. Elements'
  BY <1>1, <1>2, <1>3 DEF PlayerInv, Elements, Loads
<1>5. Previews' /\ resumeMain' = resumeMain
  BY <1>1, <1>2, PreviewStays DEF PlayerInv
<1>6. Owed'
  BY <1>1, <1>2, <1>3, <1>5 DEF PlayerInv, Owed
<1>7. RoomInv'
  BY LeaveRoom DEF QueueInv, Held
<1> QED
  BY <1>1, <1>4, <1>5, <1>6, <1>7, QueueLeft DEF PlayerInv

\* What the other window does, and a connection.
LEMMA RemoteKept ==
  ASSUME QueueInv, RoomInv', room' = "out" => room = "out",
         UNCHANGED <<queueVars, repeat, mainVars, previewVars, drag, outside>>
  PROVE  Kept
<1>1. PlayerInv' /\ song' = song
  BY PlayerStays DEF QueueInv, Held
<1> QED
  BY <1>1, QueueLeft

LEMMA InRoomKept ==
  ASSUME QueueInv, InRoom
  PROVE  Kept
<1>1. RoomInv /\ Held /\ peer \in Seq(Tracks) /\ DOMAIN peer = 1 .. Len(peer)
  BY DEF QueueInv, Held, RoomInv, RoomTypes
<1>2. ASSUME NEW s \in Songs \union {NoSong}, NEW role \in {"host", "guest"}, Connect(role, s) PROVE Kept
  <2>1. RoomInv'
    BY <1>1, <1>2, ConnectRoom
  <2>2. room' = "joining" /\ UNCHANGED <<queueVars, repeat, mainVars, previewVars, drag, outside>>
    BY <1>2 DEF Connect
  <2> QED
    BY <2>1, <2>2, RemoteKept
<1>3. ASSUME Leave PROVE Kept
  BY <1>3, LeaveKept
<1>4. ASSUME Receive PROVE Kept
  <2>1. Received /\ room' = "in"
    BY <1>1, <1>4, ReceiveStep, ReceivedIs
  <2>2. PlacedInv'
    BY <2>1 DEF PlacedInv
  <2> QED
    BY <2>1, <2>2 DEF Received, HeldOn, Kept, QueueInv, Held
<1>5. ASSUME PeerStays, RoomInv' PROVE Kept
  BY <1>5, RemoteKept DEF PeerStays
<1>6. ASSUME PeerReceives PROVE Kept
  BY <1>1, <1>5, <1>6, PeerReceivesRoom DEF PeerReceives
<1>7. ASSUME NEW q \in Seq(Tracks), PeerEdits(q) PROVE Kept
  BY <1>1, <1>5, <1>7, PeerEditsRoom DEF PeerEdits
<1>8. ASSUME NEW s \in Songs, NEW to \in 0 .. Len(peer),
             PeerEdits(Splice(peer, <<[id |-> s, yt |-> FALSE]>>, to))
      PROVE  Kept
  <2> DEFINE t == [id |-> s, yt |-> FALSE]
  <2>1. t \in Tracks
    BY DEF Tracks
  <2>2. PeerEdits(Splice(peer, <<t>>, to))
    BY <1>8
  <2> HIDE DEF t
  <2>3. Len(peer) \in Nat
    BY <1>1
  <2>4. to \in Nat /\ to <= Len(peer)
    BY <2>3
  <2>5. Splice(peer, <<t>>, to) \in Seq(Tracks)
    BY <1>1, <2>1, <2>4, SpliceOne
  <2> QED
    BY <1>7, <2>2, <2>5
<1>9. ASSUME NEW i \in 1 .. Len(peer), PeerEdits(RemoveAt(peer, i)) PROVE Kept
  BY <1>1, <1>7, <1>9, RemoveIs
<1>10. ASSUME NEW i \in 1 .. Len(peer), PeerEdits([peer EXCEPT ![i].yt = TRUE]) PROVE Kept
  <2>1. TRUE \in BOOLEAN
    OBVIOUS
  <2>2. [peer EXCEPT ![i].yt = TRUE] \in Seq(Tracks)
    BY <1>1, <2>1, YoutubeIds
  <2> QED
    BY <1>7, <1>10, <2>2
<1>11. ASSUME NEW i \in 1 .. Len(peer), PeerPlays(peer[i].id) PROVE Kept
  <2> DEFINE s == peer[i].id
             k == Find(peer, s)
             m == [op |-> "prepare", song |-> s, at |-> k]
  <2>1. PeerControls(m)
    BY <1>11 DEF PeerPlays
  <2>2. s \in Songs
    BY <1>1, TrackOf DEF Holds
  <2>3. k \in 1 .. Len(peer) /\ peer[k].id = s
    <3>1. peer[i].id = s
      OBVIOUS
    <3> HIDE DEF s
    <3> QED
      BY <1>1, <3>1, FindIs
  <2> HIDE DEF s, k
  <2>4. m \in Frames /\ m.op = "prepare" /\ m.song = s /\ m.at = k
    <3>1. k \in Nat
      BY <2>3
    <3> QED
      BY <2>2, <3>1 DEF Frames, PrepareFrames
  <2> HIDE DEF m
  <2>5. PlacedIn(m, Ids(peer))
    BY <1>1, <2>3, <2>4, IdsOf DEF PlacedIn
  <2> QED
    BY <1>1, <1>5, <2>1, <2>4, <2>5, PeerControlsRoom DEF PeerControls
<1>12. ASSUME NEW seed \in Seeds, PeerShuffles(seed) PROVE Kept
  BY <1>1, <1>5, <1>12, PeerShufflesRoom DEF PeerShuffles
<1>13. ASSUME NEW op \in Controls, PeerControls([op |-> op]) PROVE Kept
  <2> DEFINE m == [op |-> op]
  <2>1. m \in Frames /\ m.op = op
    BY DEF Frames, ControlFrames
  <2>2. PeerControls(m)
    BY <1>13
  <2> HIDE DEF m
  <2>3. m.op \in Controls \union {"prepare"} /\ PlacedIn(m, Ids(peer))
    BY <2>1 DEF PlacedIn, Controls
  <2> QED
    BY <1>1, <1>5, <2>1, <2>2, <2>3, PeerControlsRoom DEF PeerControls
<1>14. Controls = {"play", "pause", "stop", "unshuffle"}
  BY DEF Controls
<1> QED
  BY <1>1, <1>2, <1>3, <1>4, <1>6, <1>8, <1>9, <1>10, <1>11, <1>12, <1>13, <1>14 DEF InRoom

LEMMA FlushKept ==
  ASSUME QueueInv, Flush
  PROVE  Kept
<1>1. /\ stored' = [queue |-> queue, index |-> index, source |-> source]
      /\ UNCHANGED <<queue, index, source, repeat, mainVars, previewVars, drag, roomVars, outside>>
  BY DEF Flush
<1>2. PlayerInv' /\ Modes' /\ song' = song
  BY <1>1, PlayerStays, ModesStay DEF QueueInv, Held
<1>3. QueueTypes' /\ MarkStays /\ StoredFollows' /\ PlacedInv'
  BY <1>1, <1>2 DEF QueueInv, Held, QueueTypes, MarkStays, StoredFollows, PlacedInv, roomVars
<1>4. RoomInv'
  BY <1>1 DEF QueueInv, Held, RoomInv, RoomTypes, Apart, Seen, Seated, OneSnapshot, InStep, roomVars
<1> QED
  BY <1>2, <1>3, <1>4 DEF Kept, QueueInv, Held

LEMMA ClampIs ==
  ASSUME NEW i \in Nat, NEW q \in Seq(Tracks)
  PROVE  /\ ClampIndex(i, Len(q)) \in Nat
         /\ ClampIndex(i, Len(q)) # 0 => Holds(q, ClampIndex(i, Len(q)))
         /\ Placed(q, i) => ClampIndex(i, Len(q)) = i
<1> DEFINE n == Len(q)
           k == ClampIndex(i, n)
<1>1. n \in Nat /\ (q = <<>> => n = 0) /\ (n = 0 => q = <<>>)
  OBVIOUS
<1>2. k = IF n = 0 THEN 0 ELSE IF i > n THEN n ELSE i
  BY DEF ClampIndex
<1>3. Placed(q, i) => IF n = 0 THEN i = 0 ELSE i \in 1 .. n
  BY <1>1 DEF Placed, Holds
<1> HIDE DEF k
<1>4. k \in Nat /\ (k # 0 => k \in 1 .. n) /\ (Placed(q, i) => k = i)
  <2> HIDE DEF n
  <2> QED
    BY <1>1, <1>2, <1>3
<1> QED
  BY <1>4 DEF k, Holds

LEMMA RelaunchKept ==
  ASSUME QueueInv, NEW closed \in BOOLEAN, Relaunch(closed)
  PROVE  Kept
<1> DEFINE kept == IF closed THEN [queue |-> queue, index |-> index, source |-> source] ELSE stored
           q == kept.queue
           i == ClampIndex(kept.index, Len(q))
           shown == IF i = 0 THEN NoSong ELSE q[i].id
<1>1. /\ room \notin {"in", "joining"} /\ stored' = kept
      /\ queue' = q /\ index' = i /\ source' = kept.source
      /\ song' = shown /\ audio' = NoElement /\ load' = NoLoad
      /\ preview' = NoPreview /\ resumeMain' = FALSE /\ drag' = NoDrag
      /\ UNCHANGED <<repeat, roomVars, outside>>
  BY DEF Relaunch
<1>2. kept \in [queue : Seq(Tracks), index : Nat, source : DOMAIN Lists]
  BY DEF QueueInv, Held, QueueTypes
<1>3. room = "out" => Placed(kept.queue, kept.index)
  BY DEF QueueInv, PlacedInv
<1> HIDE DEF kept
<1>4. q \in Seq(Tracks) /\ kept.index \in Nat /\ kept.source \in DOMAIN Lists
  BY <1>2
<1>5. i \in Nat /\ (i # 0 => Holds(q, i)) /\ (Placed(q, kept.index) => i = kept.index)
  <2> DEFINE from == kept.index
  <2>1. from \in Nat
    BY <1>4
  <2> HIDE DEF from, q
  <2>2. /\ ClampIndex(from, Len(q)) \in Nat
        /\ ClampIndex(from, Len(q)) # 0 => Holds(q, ClampIndex(from, Len(q)))
        /\ Placed(q, from) => ClampIndex(from, Len(q)) = from
    BY <1>4, <2>1, ClampIs DEF q
  <2> QED
    BY <2>2 DEF from
<1> HIDE DEF i
<1>6. shown \in Songs \union {NoSong}
  BY <1>4, <1>5, TrackOf
<1> HIDE DEF shown
<1>7. QueueTypes'
  BY <1>1, <1>2, <1>4, <1>5 DEF QueueTypes
<1>8. PlayerInv' /\ Modes'
  BY <1>1, <1>6 DEF QueueInv, Held, Modes, PlayerInv, Elements, Previews, Owed, Loads, NoElement, NoPreview
<1>9. RoomInv'
  <2>1. UNCHANGED <<room, peer, toPeer, fromPeer, last, overlap>>
    BY <1>1 DEF roomVars
  <2>2. RoomTypes' /\ Apart' /\ Seen' /\ Seated' /\ OneSnapshot' /\ InStep'
    BY <1>1, <2>1 DEF QueueInv, Held, RoomInv, RoomTypes, Apart, Seen, Seated, OneSnapshot, InStep
  <2> QED
    BY <2>2 DEF RoomInv
<1>10. room' = room
  BY <1>1 DEF roomVars
<1>11. StoredFollows' /\ PlacedInv'
  BY <1>1, <1>3, <1>5, <1>10 DEF StoredFollows, PlacedInv
<1>12. MarkStays
  BY <1>1, <1>5 DEF MarkStays, shown
<1> QED
  BY <1>7, <1>8, <1>9, <1>11, <1>12 DEF Kept, QueueInv, Held

LEMMA QueueInit ==
  ASSUME Init
  PROVE  QueueInv
<1>1. /\ queue = stored.queue /\ index = stored.index /\ source = stored.source
      /\ song = (IF index = 0 THEN NoSong ELSE queue[index].id)
      /\ audio = NoElement /\ load = NoLoad /\ preview = NoPreview /\ resumeMain = FALSE
      /\ drag = NoDrag /\ repeat = "off" /\ room = "out" /\ toPeer = <<>> /\ fromPeer = <<>>
  BY DEF Init
<1>2. PICK q \in {Lists[NoList], <<>>} :
        stored = [queue |-> q, index |-> IF q = <<>> THEN 0 ELSE 1, source |-> NoList]
  BY DEF Init
<1>3. q \in Seq(Tracks) /\ NoList \in DOMAIN Lists
  <2>1. <<>> \in Seq(Tracks)
    OBVIOUS
  <2> QED
    BY <2>1, QueueAssumption DEF QueueAssumption
<1>4. peer \in Seq(Tracks)
  BY QueueAssumption DEF Init, QueueAssumption
<1>5. queue = q /\ index = (IF q = <<>> THEN 0 ELSE 1) /\ source = NoList
  BY <1>1, <1>2
<1>6. QueueTypes
  BY <1>2, <1>3, <1>5 DEF QueueTypes
<1>7. Placed(queue, index)
  BY <1>3, <1>5 DEF Placed, Holds
<1>8. StoredFollows /\ PlacedInv
  BY <1>1, <1>7 DEF StoredFollows, PlacedInv
<1>9. song \in Songs \union {NoSong}
  <2>1. index # 0 => Holds(queue, index)
    BY <1>5, <1>7 DEF Placed
  <2> QED
    BY <1>1, <1>3, <1>5, <2>1, TrackOf
<1>10. PlayerInv /\ Modes
  BY <1>1, <1>9 DEF Modes, PlayerInv, Elements, Previews, Owed, Loads, NoElement, NoPreview
<1>11. RoomInv
  <2>1. <<>> \in Seq(EditFrames) /\ <<>> \in Seq(Frames) /\ Len(<<>>) = 0
    OBVIOUS
  <2> QED
    BY <1>1, <1>4, <2>1 DEF RoomInv, RoomTypes, Apart, Seen, Seated, OneSnapshot, InStep
<1> QED
  BY <1>6, <1>8, <1>10, <1>11 DEF QueueInv, Held

LEMMA QueueNext ==
  ASSUME QueueInv, [Next]_vars
  PROVE  QueueInv' /\ (Next => MarkStays)
<1>1. ASSUME UNCHANGED vars PROVE QueueInv' /\ (Next => MarkStays)
  <2>1. QueueTypes' /\ StoredFollows' /\ PlacedInv' /\ MarkStays
    BY <1>1 DEF QueueInv, Held, QueueTypes, StoredFollows, PlacedInv, MarkStays, vars, queueVars, mainVars,
                previewVars, roomVars
  <2>2. PlayerInv' /\ Modes'
    BY <1>1, PlayerStays, ModesStay DEF QueueInv, Held, vars
  <2>3. RoomInv'
    <3>1. UNCHANGED <<queue, room, last, peer, toPeer, fromPeer, overlap>>
      BY <1>1 DEF vars, queueVars, roomVars
    <3> QED
      BY <3>1 DEF QueueInv, Held, RoomInv, RoomTypes, Apart, Seen, Seated, OneSnapshot, InStep
  <2> QED
    BY <2>1, <2>2, <2>3 DEF QueueInv, Held
<1>2. ASSUME Next PROVE Kept
  <2>1. CASE \/ FromPage \/ FromMenu \/ FromPanel \/ Disc \/ PlayerControlsRow \/ MediaKeys
             \/ Element \/ Previewing
    <3>1. Local
      BY DEF QueueInv, Held, Local
    <3> QED
      BY <2>1, <3>1, LocalSteps, LocalKept
  <2>2. CASE InRoom
    BY <2>2, InRoomKept
  <2>3. CASE Flush
    BY <2>3, FlushKept
  <2>4. CASE \E closed \in BOOLEAN : Relaunch(closed)
    BY <2>4, RelaunchKept
  <2> QED
    BY <1>2, <2>1, <2>2, <2>3, <2>4 DEF Next
<1> QED
  BY <1>1, <1>2 DEF Kept

LEMMA QueueAlways ==
  Spec => []QueueInv
<1>1. Init => QueueInv
  BY QueueInit
<1>2. QueueInv /\ [Next]_vars => QueueInv'
  BY QueueNext
<1> QED
  BY <1>1, <1>2, PTL DEF Spec

\* In a room and out of it, a window keeps the types of its state; what it has
\* not still to write is what is in storage (flushQueue and restorePlayback
\* come back to it); and a track that a preview has paused is owed its resume
\* to that preview alone (resumeMainAfterPreview).
THEOREM QueueWindowSafe ==
  Spec => []WindowSafe
<1>1. QueueInv => WindowSafe
  <2> SUFFICES ASSUME QueueInv PROVE WindowSafe
    OBVIOUS
  <2>1. TypeOK
    BY DEF QueueInv, Held, QueueTypes, PlayerInv, Elements, Previews, RoomInv, RoomTypes, TypeOK
  <2>2. ResumeOwned
    BY DEF QueueInv, Held, PlayerInv, Previews, Owed, ResumeOwned
  <2> QED
    BY <2>1, <2>2 DEF QueueInv, WindowSafe
<1> QED
  BY <1>1, QueueAlways, PTL

\* Once every frame has arrived, the two windows of a room hold the same songs,
\* unless two edits have crossed: what delta() sends, one after the other,
\* rebuilds the queue it was made of (room.ts).
THEOREM QueueConverged ==
  Spec => []Converged
<1>1. QueueInv => Converged
  <2> SUFFICES ASSUME QueueInv, room = "in", toPeer = <<>>, fromPeer = <<>>, ~overlap
               PROVE  Ids(queue) = Ids(peer)
    BY DEF Converged
  <2>1. Leads(Ids(queue), <<>>, Ids(peer))
    BY DEF QueueInv, Held, RoomInv, InStep
  <2>2. Ids(queue) \in Seq(Songs)
    BY IdsTyped DEF QueueInv, Held, QueueTypes
  <2> QED
    BY <2>1, <2>2, LeadsNone
<1> QED
  BY <1>1, QueueAlways, PTL

\* Outside a room a skip button is offered exactly when there is a row to skip
\* to (canNext and canPrev against pick).
THEOREM QueueSkips ==
  Spec => []SkipsAsOffered
<1>1. QueueInv => SkipsAsOffered
  <2> SUFFICES ASSUME QueueInv, room = "out" PROVE SkipsAsOffered
    BY DEF SkipsAsOffered
  <2> DEFINE n == Len(queue)
  <2>1. n \in Nat /\ index \in Nat /\ repeat \in {"off", "all", "one"}
    BY DEF QueueInv, Held, QueueTypes, Modes
  <2>2. IF n = 0 THEN index = 0 ELSE index \in 1 .. n
    BY DEF QueueInv, Held, QueueTypes, PlacedInv, Placed, Holds
  <2>3. Holds(queue, index) <=> index \in 1 .. n
    BY DEF Holds
  <2>4. CanNext <=> Holds(queue, PickNext(n, index, repeat))
    <3> HIDE DEF n
    <3>1. CanNext <=> index \in 1 .. n /\ (repeat # "off" \/ index < n)
      BY <2>3 DEF CanNext, n
    <3>2. Holds(queue, PickNext(n, index, repeat)) <=> PickNext(n, index, repeat) \in 1 .. n
      BY DEF Holds, n
    <3> QED
      BY <2>1, <2>2, <3>1, <3>2 DEF PickNext
  <2>5. CanPrev <=> Holds(queue, PickPrevious(n, index, repeat))
    <3> HIDE DEF n
    <3>1. CanPrev <=> index \in 1 .. n /\ (repeat # "off" \/ index > 1)
      BY <2>3 DEF CanPrev
    <3>2. Holds(queue, PickPrevious(n, index, repeat)) <=> PickPrevious(n, index, repeat) \in 1 .. n
      BY DEF Holds, n
    <3> QED
      BY <2>1, <2>2, <3>1, <3>2 DEF PickPrevious
  <2> QED
    BY <2>4, <2>5 DEF SkipsAsOffered, CanNext, CanPrev, Holds
<1> QED
  BY <1>1, QueueAlways, PTL

\* The mark stays on its track through inserts, removals, moves, shuffles,
\* relaunches and the frames of the room (replaceQueue finds it again), as long
\* as the track is in the queue once and no edits have crossed.
THEOREM QueueHighlightKept ==
  Spec => HighlightKept
<1>1. QueueInv /\ [Next]_vars => [MarkStays]_vars
  BY QueueNext
<1>2. Spec => [][MarkStays]_vars
  BY <1>1, QueueAlways, PTL DEF Spec
<1> QED
  BY <1>2, PTL DEF HighlightKept, MarkStays
==============================================================================
