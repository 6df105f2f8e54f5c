------------------------- MODULE MusicPlaylistProofs -------------------------
(***************************************************************************)
(* The operations of filebrowser.cpp on a list that represents a sequence    *)
(* of entries do to the sequence what their names say, for lists of every     *)
(* length and wherever in the list the entry is.  With them the music        *)
(* playlist's invariants are proved through every edit: the links (Linked,    *)
(* MembersOK, CursorOK, CallsOK, SortOK with PosOK and KeptOK), the count       *)
(* (CountOK), the player's choice (SelectOK) and the shuffled order            *)
(* (ShuffleInv).                                                            *)
(***************************************************************************)
EXTENDS MusicPlaylist, FiniteSetTheorems, SequenceTheorems, WellFoundedInduction, TLAPS

(* The entries but the k-th, and with the k-th and the one behind it exchanged. *)
Dropped(s, k) == [j \in 1..(Len(s) - 1) |-> IF j < k THEN s[j] ELSE s[j + 1]]
Switched(s, k) == [j \in 1..Len(s) |-> CASE j = k -> s[k + 1] [] j = k + 1 -> s[k] [] OTHER -> s[j]]

(* The fields of a list hold entries or the null pointer.                    *)
LEMMA FieldsOf ==
  ASSUME NEW L \in Lists
  PROVE  /\ L.first \in Link /\ L.last \in Link /\ L.numEntries \in Nat
         /\ L.next \in [Entry -> Link] /\ L.prior \in [Entry -> Link] /\ L.pos \in [Entry -> Nat]
         /\ DOMAIN L = {"first", "last", "next", "prior", "pos", "numEntries"}
BY DEF Lists

(* A sequence's entries are no null pointers, and it is empty if its length is 0. *)
LEMMA EntriesOf ==
  ASSUME NEW s \in Seq(Entry)
  PROVE  /\ Len(s) \in Nat /\ (s = <<>> <=> Len(s) = 0)
         /\ \A j \in 1..Len(s) : s[j] \in Entry /\ s[j] # Null
BY NullAssumption

(* What AddEntry stores.                                                    *)
LEMMA AddEntryStores ==
  ASSUME NEW L \in Lists, NEW n \in Entry
  PROVE  /\ AddEntry(L, n).first = IF L.last = Null THEN n ELSE L.first
         /\ AddEntry(L, n).last = n
         /\ AddEntry(L, n).next = IF L.last = Null THEN [L.next EXCEPT ![n] = Null]
                                  ELSE [L.next EXCEPT ![n] = Null, ![L.last] = n]
         /\ AddEntry(L, n).prior = [L.prior EXCEPT ![n] = L.last]
         /\ AddEntry(L, n).pos = [L.pos EXCEPT ![n] = L.numEntries]
         /\ AddEntry(L, n).numEntries = L.numEntries + 1
         /\ DOMAIN AddEntry(L, n) = {"first", "last", "next", "prior", "pos", "numEntries"}
<1> DEFINE K == LinkNew(L, n)
<1>1. /\ K.first = (IF L.last = Null THEN n ELSE L.first) /\ K.last = L.last
      /\ K.next = IF L.last = Null THEN [L.next EXCEPT ![n] = Null]
                                  ELSE [L.next EXCEPT ![n] = Null, ![L.last] = n]
      /\ K.prior = L.prior /\ K.pos = L.pos /\ K.numEntries = L.numEntries
      /\ DOMAIN K = {"first", "last", "next", "prior", "pos", "numEntries"}
  <2>1. CASE L.last = Null
    BY <2>1, FieldsOf DEF LinkNew
  <2>2. CASE L.last # Null
    BY <2>2, FieldsOf DEF LinkNew
  <2> QED
    BY <2>1, <2>2
<1>2. AddEntry(L, n) = CountNew(K, n)
  BY DEF AddEntry
<1> HIDE DEF K
<1>3. /\ CountNew(K, n).first = K.first /\ CountNew(K, n).last = n /\ CountNew(K, n).next = K.next
      /\ CountNew(K, n).prior = [K.prior EXCEPT ![n] = K.last]
      /\ CountNew(K, n).pos = [K.pos EXCEPT ![n] = K.numEntries]
      /\ CountNew(K, n).numEntries = K.numEntries + 1 /\ DOMAIN CountNew(K, n) = DOMAIN K
  BY <1>1 DEF CountNew
<1> QED
  BY <1>1, <1>2, <1>3

(* AddEntry puts a new entry behind all others.                             *)
THEOREM AddEntryAppends ==
  ASSUME NEW L \in Lists, NEW s \in Seq(Entry), NEW n \in Entry,
         Represents(L, s), \A j \in 1..Len(s) : s[j] # n
  PROVE  Represents(AddEntry(L, n), Append(s, n))
<1> DEFINE m == Len(s)
           t == Append(s, n)
           A == AddEntry(L, n)
<1>1. /\ Len(t) = m + 1 /\ t # <<>> /\ t[m + 1] = n /\ m \in Nat
      /\ \A j \in 1..m : t[j] = s[j] /\ t[j] # n
  <2>1. m \in Nat /\ Len(t) = m + 1 /\ t[m + 1] = n /\ \A j \in 1..m : t[j] = s[j]
    OBVIOUS
  <2>2. t # <<>>
    BY <2>1
  <2> QED
    BY <2>1, <2>2
<1>2. \A i, j \in 1..m : s[i] = s[j] => i = j
  BY DEF Represents
<1>3. L.last = IF m = 0 THEN Null ELSE s[m]
  BY EntriesOf DEF Represents
<1>4. L.first = IF m = 0 THEN Null ELSE s[1]
  BY EntriesOf DEF Represents
<1>5. \A j \in 1..m : /\ L.next[s[j]] = IF j < m THEN s[j + 1] ELSE Null
                      /\ L.prior[s[j]] = IF j > 1 THEN s[j - 1] ELSE Null
  BY DEF Represents
<1>6. \A j \in 1..m : s[j] \in Entry /\ s[j] # Null
  BY EntriesOf
<1>7. /\ A.first = (IF L.last = Null THEN n ELSE L.first) /\ A.last = n
      /\ A.next = IF L.last = Null THEN [L.next EXCEPT ![n] = Null]
                                  ELSE [L.next EXCEPT ![n] = Null, ![L.last] = n]
      /\ A.prior = [L.prior EXCEPT ![n] = L.last]
  BY AddEntryStores, ZenonT(60)
<1>8. L.next \in [Entry -> Link] /\ L.prior \in [Entry -> Link]
  BY FieldsOf
<1> HIDE DEF t, A, m
<1>9. \A i, j \in 1..(m + 1) : t[i] = t[j] => i = j
  BY <1>1, <1>2
<1>10. A.first = t[1] /\ A.last = t[m + 1]
  BY <1>1, <1>3, <1>4, <1>6, <1>7
<1>11. ASSUME NEW j \in 1..(m + 1)
       PROVE  A.next[t[j]] = IF j < m + 1 THEN t[j + 1] ELSE Null
  <2>1. CASE j = m + 1
    BY <1>1, <1>3, <1>6, <1>7, <1>8, <2>1
  <2>2. CASE j = m
    BY <1>1, <1>3, <1>6, <1>7, <1>8, <2>2
  <2>3. CASE j < m
    <3>1. j \in 1..m /\ j + 1 \in 1..m /\ s[j] # s[m] /\ s[j] # n /\ L.last = s[m] /\ L.last # Null
      BY <1>1, <1>2, <1>3, <1>6, <2>3
    <3>2. A.next[s[j]] = L.next[s[j]]
      BY <1>6, <1>7, <1>8, <3>1
    <3> QED
      BY <1>1, <1>5, <2>3, <3>1, <3>2
  <2> QED
    BY <1>1, <2>1, <2>2, <2>3
<1>12. ASSUME NEW j \in 1..(m + 1)
       PROVE  A.prior[t[j]] = IF j > 1 THEN t[j - 1] ELSE Null
  <2>1. CASE j = m + 1
    BY <1>1, <1>3, <1>7, <1>8, <2>1
  <2>2. CASE j \in 1..m
    <3>1. A.prior[s[j]] = L.prior[s[j]]
      BY <1>1, <1>6, <1>7, <1>8, <2>2
    <3>2. t[j] = s[j] /\ (j > 1 => j - 1 \in 1..m /\ t[j - 1] = s[j - 1])
      BY <1>1, <2>2
    <3> QED
      BY <1>5, <2>2, <3>1, <3>2
  <2> QED
    BY <1>1, <2>1, <2>2
<1> QED
  BY <1>1, <1>9, <1>10, <1>11, <1>12, SMTT(30) DEF Represents, t, A

(* What is left of a sequence without its k-th entry.                        *)
LEMMA DroppedFacts ==
  ASSUME NEW s \in Seq(Entry), NEW k \in 1..Len(s)
  PROVE  /\ Dropped(s, k) \in Seq(Entry) /\ Len(Dropped(s, k)) = Len(s) - 1
         /\ \A j \in 1..(Len(s) - 1) : Dropped(s, k)[j] = IF j < k THEN s[j] ELSE s[j + 1]
<1>1. \A j \in 1..(Len(s) - 1) : (IF j < k THEN s[j] ELSE s[j + 1]) \in Entry
  BY EntriesOf
<1>2. Len(s) - 1 \in Nat
  BY EntriesOf
<1>3. Dropped(s, k) \in [1..(Len(s) - 1) -> Entry]
  BY <1>1 DEF Dropped
<1> QED
  BY <1>2, <1>3 DEF Dropped

(* Unlink, which DeleteEntry and the playlist's Remove share, takes the entry   *)
(* out and leaves the others in their order.                                *)
THEOREM UnlinkDrops ==
  ASSUME NEW L \in Lists, NEW s \in Seq(Entry), Represents(L, s), NEW k \in 1..Len(s)
  PROVE  Represents(Unlink(L, s[k]), Dropped(s, k))
<1> DEFINE m == Len(s)
           t == Dropped(s, k)
           e == s[k]
           n == L.next[e]
           p == L.prior[e]
           U == Unlink(L, e)
<1>1. /\ Len(t) = m - 1 /\ m \in Nat /\ (t = <<>> <=> m = 1)
      /\ \A j \in 1..(m - 1) : t[j] = IF j < k THEN s[j] ELSE s[j + 1]
  <2>1. /\ t \in Seq(Entry) /\ Len(t) = m - 1 /\ m \in Nat
        /\ \A j \in 1..(m - 1) : t[j] = IF j < k THEN s[j] ELSE s[j + 1]
    BY DroppedFacts, EntriesOf
  <2>2. t = <<>> <=> Len(t) = 0
    BY <2>1, EntriesOf
  <2> QED
    BY <2>1, <2>2
<1>2. \A i, j \in 1..m : s[i] = s[j] => i = j
  BY DEF Represents
<1>3. m # 0 /\ L.first = s[1] /\ L.last = s[m]
  BY EntriesOf DEF Represents
<1>4. \A j \in 1..m : /\ L.next[s[j]] = IF j < m THEN s[j + 1] ELSE Null
                      /\ L.prior[s[j]] = IF j > 1 THEN s[j - 1] ELSE Null
  BY DEF Represents
<1>5. \A j \in 1..m : s[j] \in Entry /\ s[j] # Null
  BY EntriesOf
<1>6. n = (IF k < m THEN s[k + 1] ELSE Null) /\ p = (IF k > 1 THEN s[k - 1] ELSE Null) /\ k \in 1..m
  BY <1>4
<1>7. /\ U.first = (IF L.first = e THEN n ELSE L.first)
      /\ U.last = (IF L.last = e THEN p ELSE L.last)
      /\ U.next = (IF p # Null THEN [L.next EXCEPT ![p] = n] ELSE L.next)
      /\ U.prior = (IF n # Null THEN [L.prior EXCEPT ![n] = p] ELSE L.prior)
  BY FieldsOf DEF Unlink
<1>8. L.next \in [Entry -> Link] /\ L.prior \in [Entry -> Link] /\ e = s[k]
  BY FieldsOf
<1> HIDE DEF m, t, e, n, p, U
<1>9. \A i, j \in 1..(m - 1) : t[i] = t[j] => i = j
  BY <1>1, <1>2, <1>6
<1>10. U.first = IF m = 1 THEN Null ELSE t[1]
  <2>1. L.first = e <=> k = 1
    BY <1>1, <1>2, <1>3, <1>6, <1>8
  <2>2. CASE k = 1
    BY <1>1, <1>6, <1>7, <2>1, <2>2
  <2>3. CASE k > 1
    BY <1>1, <1>3, <1>6, <1>7, <2>1, <2>3
  <2> QED
    BY <1>6, <2>2, <2>3
<1>11. U.last = IF m = 1 THEN Null ELSE t[m - 1]
  BY <1>1, <1>2, <1>3, <1>6, <1>7, <1>8
<1>12. ASSUME NEW j \in 1..m, j # k
       PROVE  /\ U.next[s[j]] = IF j = k - 1 THEN n ELSE L.next[s[j]]
              /\ U.prior[s[j]] = IF j = k + 1 THEN p ELSE L.prior[s[j]]
  <2>1. s[j] \in Entry /\ s[j] # Null /\ j \in Int /\ k \in Int
    BY <1>1, <1>5, <1>6
  <2>2. p = s[j] <=> j = k - 1
    BY <1>1, <1>2, <1>5, <1>6
  <2>3. n = s[j] <=> j = k + 1
    BY <1>1, <1>2, <1>5, <1>6
  <2>4. U.next[s[j]] = IF j = k - 1 THEN n ELSE L.next[s[j]]
    BY <1>7, <1>8, <2>1, <2>2
  <2>5. U.prior[s[j]] = IF j = k + 1 THEN p ELSE L.prior[s[j]]
    BY <1>7, <1>8, <2>1, <2>3
  <2> QED
    BY <2>4, <2>5
<1>13. ASSUME NEW j \in 1..(m - 1)
       PROVE  U.next[t[j]] = IF j < m - 1 THEN t[j + 1] ELSE Null
  <2>1. CASE j < k
    <3>1. t[j] = s[j] /\ j \in 1..m /\ j # k /\ k \in Int /\ m \in Int
      BY <1>1, <1>6, <2>1
    <3>2. U.next[t[j]] = IF j = k - 1 THEN n ELSE L.next[s[j]]
      BY <1>12, <3>1
    <3>3. L.next[s[j]] = IF j < m THEN s[j + 1] ELSE Null
      BY <1>4, <3>1
    <3>4. j < m - 1 => t[j + 1] = IF j + 1 < k THEN s[j + 1] ELSE s[(j + 1) + 1]
      BY <1>1, <3>1, <2>1
    <3> QED
      BY <1>6, <2>1, <3>1, <3>2, <3>3, <3>4
  <2>2. CASE j >= k
    <3>1. t[j] = s[j + 1] /\ j + 1 \in 1..m /\ j + 1 # k /\ k \in Int /\ m \in Int
      BY <1>1, <1>6, <2>2
    <3>2. U.next[t[j]] = IF j + 1 = k - 1 THEN n ELSE L.next[s[j + 1]]
      BY <1>12, <3>1
    <3>3. L.next[s[j + 1]] = IF j + 1 < m THEN s[(j + 1) + 1] ELSE Null
      BY <1>4, <3>1
    <3>4. j < m - 1 => t[j + 1] = s[(j + 1) + 1]
      BY <1>1, <3>1, <2>2
    <3> QED
      BY <1>6, <2>2, <3>1, <3>2, <3>3, <3>4
  <2> QED
    BY <1>1, <1>6, <2>1, <2>2
<1>14. ASSUME NEW j \in 1..(m - 1)
       PROVE  U.prior[t[j]] = IF j > 1 THEN t[j - 1] ELSE Null
  <2>1. CASE j < k
    <3>1. t[j] = s[j] /\ j \in 1..m /\ j # k /\ k \in Int /\ m \in Int
      BY <1>1, <1>6, <2>1
    <3>2. U.prior[t[j]] = IF j = k + 1 THEN p ELSE L.prior[s[j]]
      BY <1>12, <3>1
    <3>3. L.prior[s[j]] = IF j > 1 THEN s[j - 1] ELSE Null
      BY <1>4, <3>1
    <3>4. j > 1 => t[j - 1] = s[j - 1]
      BY <1>1, <3>1, <2>1
    <3> QED
      BY <1>6, <2>1, <3>1, <3>2, <3>3, <3>4
  <2>2. CASE j >= k
    <3>1. t[j] = s[j + 1] /\ j + 1 \in 1..m /\ j + 1 # k /\ k \in Int /\ m \in Int
      BY <1>1, <1>6, <2>2
    <3>2. U.prior[t[j]] = IF j + 1 = k + 1 THEN p ELSE L.prior[s[j + 1]]
      BY <1>12, <3>1
    <3>3. L.prior[s[j + 1]] = IF j + 1 > 1 THEN s[(j + 1) - 1] ELSE Null
      BY <1>4, <3>1
    <3>4. j > 1 => t[j - 1] = IF j - 1 < k THEN s[j - 1] ELSE s[(j - 1) + 1]
      BY <1>1, <3>1, <2>2
    <3> QED
      BY <1>6, <2>2, <3>1, <3>2, <3>3, <3>4
  <2> QED
    BY <1>1, <1>6, <2>1, <2>2
<1> QED
  BY <1>1, <1>9, <1>10, <1>11, <1>13, <1>14 DEF Represents, t, U, e

LEMMA SwitchedFacts ==
  ASSUME NEW s \in Seq(Entry), NEW k \in 1..(Len(s) - 1)
  PROVE  /\ Switched(s, k) \in Seq(Entry) /\ Len(Switched(s, k)) = Len(s)
         /\ Switched(s, k)[k] = s[k + 1] /\ Switched(s, k)[k + 1] = s[k]
         /\ \A j \in 1..Len(s) : j # k /\ j # k + 1 => Switched(s, k)[j] = s[j]
<1>1. Len(s) \in Nat /\ k \in 1..Len(s) /\ k + 1 \in 1..Len(s)
  BY EntriesOf
<1>2. ASSUME NEW j \in 1..Len(s)
      PROVE  Switched(s, k)[j] = IF j = k THEN s[k + 1] ELSE IF j = k + 1 THEN s[k] ELSE s[j]
  BY <1>1 DEF Switched
<1>3. Switched(s, k) = [j \in 1..Len(s) |-> Switched(s, k)[j]]
  BY DEF Switched
<1>4. \A j \in 1..Len(s) : Switched(s, k)[j] \in Entry
  BY <1>1, <1>2, EntriesOf
<1>5. Switched(s, k) \in [1..Len(s) -> Entry]
  BY <1>3, <1>4
<1>6. Switched(s, k) \in Seq(Entry) /\ Len(Switched(s, k)) = Len(s)
  BY <1>1, <1>3, <1>5
<1> QED
  BY <1>1, <1>2, <1>6

(* SortBrowser exchanges two neighbours and then stores the new ends.         *)
THEOREM SwapSwitches ==
  ASSUME NEW L \in Lists, NEW s \in Seq(Entry), Represents(L, s), NEW k \in 1..(Len(s) - 1)
  PROVE  Represents([Swap(L, s[k]) EXCEPT !.first = IF k = 1 THEN s[2] ELSE @,
                                          !.last = IF k + 1 = Len(s) THEN s[k] ELSE @],
                    Switched(s, k))
<1> DEFINE m == Len(s)
           t == Switched(s, k)
           a == s[k]
           b == s[k + 1]
           before == L.prior[a]
           after == L.next[b]
           W == [Swap(L, s[k]) EXCEPT !.first = IF k = 1 THEN s[2] ELSE @,
                                      !.last = IF k + 1 = Len(s) THEN s[k] ELSE @]
<1>1. /\ m \in Nat /\ k \in 1..m /\ k + 1 \in 1..m /\ k \in Int
      /\ \A j \in 1..m : s[j] \in Entry /\ s[j] # Null
      /\ s # <<>>
  BY EntriesOf
<1>2. \A i, j \in 1..m : s[i] = s[j] => i = j
  BY DEF Represents
<1>3. \A j \in 1..m : L.next[s[j]] = IF j < m THEN s[j + 1] ELSE Null
  BY DEF Represents
<1>4. \A j \in 1..m : L.prior[s[j]] = IF j > 1 THEN s[j - 1] ELSE Null
  BY DEF Represents
<1>5. L.first = s[1] /\ L.last = s[m]
  BY <1>1 DEF Represents
<1>6. /\ Len(t) = m /\ t # <<>> /\ t[k] = b /\ t[k + 1] = a
      /\ \A j \in 1..m : j # k /\ j # k + 1 => t[j] = s[j]
  <2>1. t \in Seq(Entry) /\ Len(t) = m
    BY SwitchedFacts
  <2>2. t # <<>>
    BY <1>1, <2>1
  <2> QED
    BY <2>1, <2>2, SwitchedFacts
<1>7. /\ L.next[a] = b /\ a \in Entry /\ b \in Entry /\ a # b
      /\ before = (IF k > 1 THEN s[k - 1] ELSE Null)
      /\ after = (IF k + 1 < m THEN s[(k + 1) + 1] ELSE Null)
  BY <1>1, <1>2, <1>3, <1>4
<1>8. /\ W.first = (IF k = 1 THEN s[2] ELSE L.first) /\ W.last = (IF k + 1 = m THEN a ELSE L.last)
      /\ W.next = (IF before = Null THEN [L.next EXCEPT ![b] = a, ![a] = after]
                   ELSE [L.next EXCEPT ![b] = a, ![before] = b, ![a] = after])
      /\ W.prior = (IF after = Null THEN [L.prior EXCEPT ![b] = before, ![a] = b]
                    ELSE [L.prior EXCEPT ![b] = before, ![a] = b, ![after] = a])
  <2> DEFINE S1 == Swap1(L, a, b, before)
             S2 == Swap2(S1, b, before)
             S3 == Swap3(S2, a, b, after)
  <2>1. Swap(L, s[k]) = S3
    BY <1>7 DEF Swap
  <2>2. W = [S3 EXCEPT !.first = IF k = 1 THEN s[2] ELSE @, !.last = IF k + 1 = m THEN a ELSE @]
    BY <2>1
  <2> HIDE DEF a, b, before, after, m, W
  <2>3. /\ DOMAIN S1 = {"first", "last", "next", "prior", "pos", "numEntries"}
        /\ S1.first = L.first /\ S1.last = L.last
        /\ S1.next = [L.next EXCEPT ![b] = a] /\ S1.prior = [L.prior EXCEPT ![b] = before]
    BY FieldsOf DEF Swap1
  <2> HIDE DEF S1
  <2>4. /\ DOMAIN S2 = {"first", "last", "next", "prior", "pos", "numEntries"}
        /\ S2.first = L.first /\ S2.last = L.last
        /\ S2.next = (IF before = Null THEN [L.next EXCEPT ![b] = a]
                      ELSE [L.next EXCEPT ![b] = a, ![before] = b])
        /\ S2.prior = [L.prior EXCEPT ![b] = before]
    BY <2>3 DEF Swap2
  <2> HIDE DEF S2
  <2>5. /\ DOMAIN S3 = {"first", "last", "next", "prior", "pos", "numEntries"}
        /\ S3.first = L.first /\ S3.last = L.last
        /\ S3.next = [S2.next EXCEPT ![a] = after]
        /\ S3.prior = (IF after = Null THEN [S2.prior EXCEPT ![a] = b]
                       ELSE [S2.prior EXCEPT ![a] = b, ![after] = a])
    BY <2>4 DEF Swap3
  <2> HIDE DEF S3
  <2> QED
    BY <2>2, <2>4, <2>5
<1>9. L.next \in [Entry -> Link] /\ L.prior \in [Entry -> Link]
  BY FieldsOf
<1>10. a = s[k] /\ b = s[k + 1]
  OBVIOUS
<1> HIDE DEF m, t, a, b, before, after, W
<1>11. ASSUME NEW j \in 1..m
       PROVE  /\ a = s[j] <=> j = k
              /\ b = s[j] <=> j = k + 1
              /\ before = s[j] <=> j = k - 1
              /\ after = s[j] <=> j = k + 2
  BY <1>1, <1>2, <1>7, <1>10
<1>12. /\ W.next[a] = after /\ W.next[b] = a
       /\ \A j \in 1..m : j \notin {k, k + 1} => W.next[s[j]] = IF j = k - 1 THEN b ELSE L.next[s[j]]
  <2>1. before # a /\ before # b
    BY <1>1, <1>10, <1>11
  <2>2. W.next[a] = after /\ W.next[b] = a
    BY <1>7, <1>8, <1>9, <2>1
  <2>3. ASSUME NEW j \in 1..m, j \notin {k, k + 1}
        PROVE  W.next[s[j]] = IF j = k - 1 THEN b ELSE L.next[s[j]]
    BY <1>1, <1>8, <1>9, <1>11, <2>3
  <2> QED
    BY <2>2, <2>3
<1>13. /\ W.prior[a] = b /\ W.prior[b] = before
       /\ \A j \in 1..m : j \notin {k, k + 1} => W.prior[s[j]] = IF j = k + 2 THEN a ELSE L.prior[s[j]]
  <2>1. after # a /\ after # b
    BY <1>1, <1>10, <1>11
  <2>2. W.prior[a] = b /\ W.prior[b] = before
    BY <1>7, <1>8, <1>9, <2>1
  <2>3. ASSUME NEW j \in 1..m, j \notin {k, k + 1}
        PROVE  W.prior[s[j]] = IF j = k + 2 THEN a ELSE L.prior[s[j]]
    BY <1>1, <1>8, <1>9, <1>11, <2>3
  <2> QED
    BY <2>2, <2>3
<1>14. \A i, j \in 1..m : t[i] = t[j] => i = j
  BY <1>1, <1>2, <1>6, <1>10
<1>15. W.first = t[1] /\ W.last = t[m]
  BY <1>1, <1>5, <1>6, <1>8, <1>10
<1>16. ASSUME NEW j \in 1..m
       PROVE  W.next[t[j]] = IF j < m THEN t[j + 1] ELSE Null
  <2>1. CASE j = k
    BY <1>1, <1>6, <1>12, <2>1
  <2>2. CASE j = k + 1
    BY <1>1, <1>6, <1>7, <1>12, <2>2
  <2>3. CASE j = k - 1
    BY <1>1, <1>6, <1>12, <2>3
  <2>4. CASE j \notin {k - 1, k, k + 1}
    <3>1. t[j] = s[j] /\ (j < m => t[j + 1] = s[j + 1])
      BY <1>1, <1>6, <2>4
    <3>2. W.next[s[j]] = L.next[s[j]]
      BY <1>1, <1>12, <2>4
    <3> QED
      BY <1>3, <3>1, <3>2
  <2> QED
    BY <2>1, <2>2, <2>3, <2>4
<1>17. ASSUME NEW j \in 1..m
       PROVE  W.prior[t[j]] = IF j > 1 THEN t[j - 1] ELSE Null
  <2>1. CASE j = k
    BY <1>1, <1>6, <1>7, <1>13, <2>1
  <2>2. CASE j = k + 1
    BY <1>1, <1>6, <1>13, <2>2
  <2>3. CASE j = k + 2
    BY <1>1, <1>6, <1>13, <2>3
  <2>4. CASE j \notin {k, k + 1, k + 2}
    <3>1. t[j] = s[j] /\ (j > 1 => t[j - 1] = s[j - 1])
      BY <1>1, <1>6, <2>4
    <3>2. W.prior[s[j]] = L.prior[s[j]]
      BY <1>1, <1>13, <2>4
    <3> QED
      BY <1>4, <3>1, <3>2
  <2> QED
    BY <2>1, <2>2, <2>3, <2>4
<1> QED
  BY <1>6, <1>14, <1>15, <1>16, <1>17 DEF Represents, t, W

-----------------------------------------------------------------------------
(* The entries of a sequence, and what the operations on it do to them.        *)
Of(s) == {s[k] : k \in 1..Len(s)}

Distinct(s) == \A i, j \in 1..Len(s) : s[i] = s[j] => i = j

LEMMA OfIn ==
  ASSUME NEW s
  PROVE  \A n : n \in Of(s) <=> \E k \in 1..Len(s) : s[k] = n
BY DEF Of

LEMMA Appended ==
  ASSUME NEW s \in Seq(Entry), NEW n \in Entry
  PROVE  /\ Append(s, n) \in Seq(Entry) /\ Len(Append(s, n)) = Len(s) + 1
         /\ Append(s, n)[Len(s) + 1] = n /\ \A k \in 1..Len(s) : Append(s, n)[k] = s[k]
         /\ Of(Append(s, n)) = Of(s) \union {n}
<1> DEFINE w == Append(s, n)
<1>1. /\ w \in Seq(Entry) /\ Len(s) \in Nat /\ Len(w) = Len(s) + 1 /\ w[Len(s) + 1] = n
      /\ \A k \in 1..Len(s) : w[k] = s[k]
  OBVIOUS
<1>2. 1..Len(w) = 1..Len(s) \union {Len(s) + 1}
  BY <1>1
<1> HIDE DEF w
<1>3. Of(w) = Of(s) \union {n}
  BY <1>1, <1>2 DEF Of
<1> QED
  BY <1>1, <1>3 DEF w

LEMMA OfDropped ==
  ASSUME NEW s \in Seq(Entry), Distinct(s), NEW k \in 1..Len(s)
  PROVE  Of(Dropped(s, k)) = Of(s) \ {s[k]}
<1> DEFINE w == Dropped(s, k)
<1>1. /\ Len(s) \in Nat /\ Len(w) = Len(s) - 1
      /\ \A j \in 1..(Len(s) - 1) : w[j] = IF j < k THEN s[j] ELSE s[j + 1]
  BY DroppedFacts, EntriesOf
<1> HIDE DEF w
<1>2. ASSUME NEW n \in Of(w) PROVE n \in Of(s) /\ n # s[k]
  <2>1. PICK j \in 1..Len(w) : w[j] = n
    BY <1>2, OfIn
  <2>2. CASE j < k
    <3>1. j \in 1..Len(s) /\ s[j] = n /\ j # k
      BY <1>1, <2>1, <2>2
    <3> QED
      BY <3>1, OfIn DEF Distinct
  <2>3. CASE ~(j < k)
    <3>1. j + 1 \in 1..Len(s) /\ s[j + 1] = n /\ j + 1 # k
      BY <1>1, <2>1, <2>3
    <3> QED
      BY <3>1, OfIn DEF Distinct
  <2> QED
    BY <2>2, <2>3
<1>3. ASSUME NEW n \in Of(s), n # s[k] PROVE n \in Of(w)
  <2>1. PICK j \in 1..Len(s) : s[j] = n
    BY <1>3, OfIn
  <2>2. CASE j < k
    <3>1. j \in 1..Len(w) /\ w[j] = n
      BY <1>1, <2>1, <2>2
    <3> QED
      BY <3>1, OfIn
  <2>3. CASE j > k
    <3>1. j - 1 \in 1..Len(w) /\ w[j - 1] = n
      BY <1>1, <2>1, <2>3
    <3> QED
      BY <3>1, OfIn
  <2> QED
    BY <1>1, <1>3, <2>1, <2>2, <2>3
<1> QED
  BY <1>2, <1>3 DEF w

LEMMA WithoutIsDropped ==
  ASSUME NEW s \in Seq(Entry), Distinct(s), NEW k \in 1..Len(s)
  PROVE  Without(s, s[k]) = Dropped(s, k)
<1>1. k = CHOOSE i \in 1..Len(s) : s[i] = s[k]
  BY DEF Distinct
<1> QED
  BY <1>1 DEF Without, Dropped

LEMMA ExchangedIsSwitched ==
  ASSUME NEW s \in Seq(Entry), Distinct(s), NEW k \in 1..(Len(s) - 1)
  PROVE  Exchanged(s, s[k], s[k + 1]) = Switched(s, k)
<1>1. Len(s) \in Nat /\ k \in 1..Len(s) /\ k + 1 \in 1..Len(s)
  BY EntriesOf
<1>2. \A j \in 1..Len(s) : (s[j] = s[k] <=> j = k) /\ (s[j] = s[k + 1] <=> j = k + 1)
  BY <1>1 DEF Distinct
<1>3. ASSUME NEW j \in 1..Len(s)
      PROVE  (CASE s[j] = s[k] -> s[k + 1] [] s[j] = s[k + 1] -> s[k] [] OTHER -> s[j])
              = (CASE j = k -> s[k + 1] [] j = k + 1 -> s[k] [] OTHER -> s[j])
  BY <1>1, <1>2
<1> QED
  BY <1>3 DEF Exchanged, Switched

LEMMA OfSwitched ==
  ASSUME NEW s \in Seq(Entry), NEW k \in 1..(Len(s) - 1)
  PROVE  Of(Switched(s, k)) = Of(s)
<1> DEFINE w == Switched(s, k)
<1>1. Len(s) \in Nat /\ k \in 1..Len(s) /\ k + 1 \in 1..Len(s)
  BY EntriesOf
<1>2. /\ Len(w) = Len(s) /\ w[k] = s[k + 1] /\ w[k + 1] = s[k]
      /\ \A j \in 1..Len(s) : j # k /\ j # k + 1 => w[j] = s[j]
  BY SwitchedFacts
<1> HIDE DEF w
<1>3. ASSUME NEW n \in Of(w) PROVE n \in Of(s)
  <2>1. PICK j \in 1..Len(s) : w[j] = n
    BY <1>2, <1>3, OfIn
  <2>2. \E i \in 1..Len(s) : s[i] = n
    BY <1>1, <1>2, <2>1
  <2> QED
    BY <2>2, OfIn
<1>4. ASSUME NEW n \in Of(s) PROVE n \in Of(w)
  <2>1. PICK j \in 1..Len(s) : s[j] = n
    BY <1>4, OfIn
  <2>2. \E i \in 1..Len(s) : w[i] = n
    BY <1>1, <1>2, <2>1
  <2> QED
    BY <1>2, <2>2, OfIn
<1> QED
  BY <1>3, <1>4 DEF w

(* Whether a list represents a sequence depends on its ends and links only.    *)
LEMMA SameLinks ==
  ASSUME NEW L, NEW K, NEW s, Represents(L, s),
         K.first = L.first, K.last = L.last, K.next = L.next, K.prior = L.prior
  PROVE  Represents(K, s)
BY DEF Represents

LEMMA FreedKeeps ==
  ASSUME NEW L \in Lists, NEW s \in Seq(Entry), Represents(L, s), NEW n \in Entry, n \notin Of(s)
  PROVE  Represents(Freed(L, n), s)
<1> DEFINE K == Freed(L, n)
<1>1. /\ K.first = L.first /\ K.last = L.last
      /\ K.next = [L.next EXCEPT ![n] = Null] /\ K.prior = [L.prior EXCEPT ![n] = Null]
  BY FieldsOf DEF Freed
<1> HIDE DEF K
<1>2. \A k \in 1..Len(s) : s[k] # n /\ K.next[s[k]] = L.next[s[k]] /\ K.prior[s[k]] = L.prior[s[k]]
  BY <1>1, OfIn, FieldsOf, EntriesOf
<1> QED
  BY <1>1, <1>2 DEF Represents, K

(* The operations give lists.                                               *)
LEMMA OperationTypes ==
  ASSUME NEW L \in Lists, NEW n \in Entry
  PROVE  /\ LinkNew(L, n) \in Lists /\ CountNew(L, n) \in Lists
         /\ Unlink(L, n) \in Lists /\ Freed(L, n) \in Lists
<1> USE FieldsOf, NullAssumption DEF Link
<1>1. LinkNew(L, n) \in Lists
  <2>1. CASE L.last = Null
    BY <2>1, ZenonT(60) DEF LinkNew, Lists
  <2>2. CASE L.last # Null
    BY <2>2 DEF LinkNew, Lists
  <2> QED
    BY <2>1, <2>2
<1>2. CountNew(L, n) \in Lists
  <2> DEFINE pr == [L.prior EXCEPT ![n] = L.last]
             ps == [L.pos EXCEPT ![n] = L.numEntries]
  <2>1. pr \in [Entry -> Link] /\ ps \in [Entry -> Nat] /\ L.numEntries + 1 \in Nat
    OBVIOUS
  <2>2. CountNew(L, n) = [L EXCEPT !.prior = pr, !.last = n, !.pos = ps, !.numEntries = L.numEntries + 1]
    BY DEF CountNew
  <2> HIDE DEF pr, ps
  <2> QED
    BY <2>1, <2>2 DEF Lists
<1>3. Unlink(L, n) \in Lists
  <2> DEFINE x == L.next[n]
             p == L.prior[n]
             f == IF L.first = n THEN x ELSE L.first
             l == IF L.last = n THEN p ELSE L.last
             nx == IF p # Null THEN [L.next EXCEPT ![p] = x] ELSE L.next
             pr == IF x # Null THEN [L.prior EXCEPT ![x] = p] ELSE L.prior
  <2>1. x \in Link /\ p \in Link
    OBVIOUS
  <2>2. f \in Link /\ l \in Link
    BY <2>1
  <2>3. nx \in [Entry -> Link] /\ pr \in [Entry -> Link]
    BY <2>1
  <2>4. Unlink(L, n) = [L EXCEPT !.first = f, !.last = l, !.next = nx, !.prior = pr]
    BY DEF Unlink
  <2> HIDE DEF x, p, f, l, nx, pr
  <2> QED
    BY <2>2, <2>3, <2>4 DEF Lists
<1>4. Freed(L, n) \in Lists
  BY DEF Freed, Lists
<1> QED
  BY <1>1, <1>2, <1>3, <1>4

LEMMA SwapTypes ==
  ASSUME NEW L \in Lists, NEW a \in Entry, NEW b \in Entry, NEW before \in Link, NEW after \in Link
  PROVE  /\ Swap1(L, a, b, before) \in Lists /\ Swap2(L, b, before) \in Lists
         /\ Swap3(L, a, b, after) \in Lists
<1> USE FieldsOf, NullAssumption DEF Link
<1>1. Swap1(L, a, b, before) \in Lists
  BY DEF Swap1, Lists
<1>2. Swap2(L, b, before) \in Lists
  BY DEF Swap2, Lists
<1>3. Swap3(L, a, b, after) \in Lists
  <2> DEFINE nx == [L.next EXCEPT ![a] = after]
             pr == IF after = Null THEN [L.prior EXCEPT ![a] = b] ELSE [L.prior EXCEPT ![a] = b, ![after] = a]
             ps == [L.pos EXCEPT ![a] = L.pos[b], ![b] = L.pos[a]]
  <2>1. nx \in [Entry -> Link] /\ pr \in [Entry -> Link] /\ ps \in [Entry -> Nat]
    OBVIOUS
  <2>2. Swap3(L, a, b, after) = [L EXCEPT !.next = nx, !.prior = pr, !.pos = ps]
    BY DEF Swap3
  <2> HIDE DEF nx, pr, ps
  <2> QED
    BY <2>1, <2>2 DEF Lists
<1> QED
  BY <1>1, <1>2, <1>3

-----------------------------------------------------------------------------
(* The invariant.  Where an edit is: in EnqueueFile, in Remove (after the       *)
(* links have been mended, in all of it), in SortBrowser.                     *)
Adding   == {"item", "link", "count", "name", "display", "reshuffle", "failed"}
Unlinked == {"select", "deselect", "unshuffle", "uncount", "free"}
Removing == Unlinked \union {"unlink"}
Sorting  == {"pass", "compare", "swap1", "swap2", "swap3"}
Swapping == {"swap1", "swap2", "swap3"}

(* The links are those of the entries in order, or will be after the steps that *)
(* add an entry or exchange two have been done.                              *)
SortEnds(L) == [L EXCEPT !.first = sort.head, !.last = sort.tail]

SwapEnds(L) == [L EXCEPT !.first = IF sort.before = Null THEN sort.b ELSE sort.head,
                         !.last = IF sort.after = Null THEN sort.a ELSE sort.tail]

Linked ==
  /\ pc \notin Sorting \union {"count"} => Represents(list, order)
  /\ pc = "count" => Represents(CountNew(list, entry), Append(order, entry))
  /\ pc \in {"pass", "compare", "swap1"} => Represents(SortEnds(list), order)
  /\ pc = "pass" /\ sort.head = Null => Represents(list, order)
  /\ pc = "swap2" => Represents(SwapEnds(Swap3(Swap2(list, sort.b, sort.before), sort.a, sort.b, sort.after)),
                                Exchanged(order, sort.a, sort.b))
  /\ pc = "swap3" => Represents(SwapEnds(Swap3(list, sort.a, sort.b, sort.after)),
                                Exchanged(order, sort.a, sort.b))

(* The memory of the entries, and the one an edit works on.                   *)
MembersOK ==
  /\ Distinct(order)
  /\ pc \notin Unlinked \union {"count", "clear"} => Members = Of(order)
  /\ pc \in Unlinked \union {"count"} =>
       entry \in Entry /\ entry \notin Of(order) /\ Members = Of(order) \union {entry}
  /\ pc = "clear" => \E k \in 1..(Len(order) + 1) :
       /\ Members = {order[j] : j \in k..Len(order)}
       /\ cursor = IF k <= Len(order) THEN order[k] ELSE Null
  /\ \A n \in Entry : mem[n] = "new" => pc \in {"count", "name"} /\ n = entry
  /\ pc = "link" => entry \in Entry /\ mem[entry] = "free"
  /\ pc \in {"count", "name"} => mem[entry] = "new"
  /\ pc \in {"name", "display"} => Len(order) > 0 /\ entry = order[Len(order)]
  /\ pc = "unlink" => entry \in Of(order)

CursorOK ==
  /\ pc \notin Removing \union {"scan"} => drop = {}
  /\ pc = "scan" \/ (pc \in Removing /\ drop # {}) => cursor \in Of(order) \union {Null}
  /\ pc = "unlink" /\ drop # {} => cursor # entry

CallsOK ==
  /\ pc \in Sorting \union {"folder"} => calls # <<>>
  /\ pc \notin Sorting \union Adding \union {"folder"} => calls = <<>>
  /\ \A k \in 1..(Len(calls) - 1) : calls[k].start = -1
  /\ calls # <<>> /\ pc # "folder" => Top.start # -1

(* SortBrowser: a is the i-th entry; the entries from the j-th on, which e is,   *)
(* have been sorted in: behind the end there is the null pointer.  This part     *)
(* uses that nothing has been dequeued (Undequeued), see KeptOK.              *)
Undequeued == "dequeued" \notin past

Outside == Len(Top.kept)

IsAt(j, n) == n = IF j <= Len(order) THEN order[j] ELSE Null

Settles(j) ==
  \A x \in (Outside + 1)..Len(order), y \in j..Len(order) : x < y => Name[order[x]] <= Name[order[y]]

Highest(i) == \A x \in (Outside + 1)..i : Name[order[x]] <= Name[order[i]]

SortOK ==
  /\ pc = "pass" =>
       \/ sort.e = Null
       \/ \E j \in 2..Len(order) : sort.e = order[j] /\ (Undequeued => Settles(j))
  /\ pc = "compare" =>
       \E i \in 1..Len(order), j \in 2..(Len(order) + 1) :
         /\ sort.a = order[i] /\ IsAt(j, sort.e) /\ (i = j \/ i + 2 <= j)
         /\ Undequeued => Highest(i) /\ Settles(j)
  /\ pc \in Swapping =>
       \E i \in 1..(Len(order) - 1), j \in 3..(Len(order) + 1) :
         /\ sort.a = order[i] /\ sort.b = order[i + 1] /\ IsAt(i + 2, sort.after)
         /\ sort.before = (IF i > 1 THEN order[i - 1] ELSE Null)
         /\ i + 2 <= j /\ IsAt(j, sort.e)
         /\ Undequeued => /\ i > Outside /\ Highest(i) /\ Settles(j)
                          /\ Name[order[i + 1]] < Name[order[i]]

Core == TypeOK /\ Linked /\ MembersOK /\ CursorOK /\ CallsOK /\ SortOK

-----------------------------------------------------------------------------
(* The steps.                                                               *)
PlayerStep == SongEnds \/ StartPlaylist \/ (\E n \in Entry : Select(n)) \/ LoadNewFile \/ ModeButton

BeginStep ==
  \/ \E f \in Entry \union File : EnqueueFile(f)
  \/ \E d \in Folder : EnqueueFolder(d)
  \/ \E x \in Entry \union Folder : Dequeue(x)
  \/ \E f \in File : DequeueItems(f)
  \/ ResetMusic

LEMMA NextGroups ==
  ASSUME Next
  PROVE  PlayerStep \/ BeginStep \/ AddStep \/ FolderStep \/ SortStep \/ RemoveStep \/ ResetStep
BY Zenon DEF Next, EditStep, UserStep, PlayerStep, BeginStep

(* What the player's steps leave alone.                                      *)
LEMMA PlayerKeeps ==
  ASSUME PlayerStep
  PROVE  /\ UNCHANGED <<list, mem, order, past, entry, todo, calls, drop, cursor, sort>>
         /\ pc' = pc \/ (pc \in {"idle", "load"} /\ pc' \in {"idle", "load"})
BY DEF PlayerStep, SongEnds, StartPlaylist, Select, LoadNewFile, ModeButton, At, Goto, edit

(* The types, by parts.                                                     *)
EditTypes ==
  /\ entry \in Link /\ cursor \in Link /\ order \in Seq(Entry) /\ todo \in Seq(Entry)
  /\ past \in SUBSET {"dequeued", "failed"} /\ drop \in SUBSET Entry /\ pc \in Labels

ChosenTypes ==
  /\ selIndex \in Link /\ shuffleIndex \in Nat \union {-1} /\ shuffleList \in Seq(Nat)
  /\ heard \in SUBSET Entry

Flags == playing \in BOOLEAN /\ fault \in BOOLEAN

MemTypes == mem \in [Entry -> {"free", "new", "named"}]

LEMMA TypeParts ==
  TypeOK <=> /\ list \in Lists /\ MemTypes /\ EditTypes /\ ChosenTypes /\ Flags /\ playOrder \in PlayOrders
             /\ calls \in Seq(Calls) /\ sort \in Sorts
BY DEF TypeOK, MemTypes, EditTypes, ChosenTypes, Flags

LEMMA CallTyped ==
  ASSUME NEW d \in Folder
  PROVE  Call(d) \in Calls
BY MusicAssumption DEF Call, Calls

LEMMA CallsFacts ==
  ASSUME calls \in Seq(Calls), calls # <<>>
  PROVE  /\ Len(calls) \in Nat /\ Len(calls) >= 1 /\ Top \in Calls
         /\ \A c \in Calls : /\ [calls EXCEPT ![Len(calls)] = c] \in Seq(Calls)
                             /\ Len([calls EXCEPT ![Len(calls)] = c]) = Len(calls)
         /\ SubSeq(calls, 1, Len(calls) - 1) \in Seq(Calls)
         /\ Len(SubSeq(calls, 1, Len(calls) - 1)) = Len(calls) - 1
         /\ \A k \in 1..(Len(calls) - 1) : SubSeq(calls, 1, Len(calls) - 1)[k] = calls[k]
<1>1. Len(calls) \in Nat /\ Len(calls) >= 1 /\ Top \in Calls
  BY DEF Top
<1>2. ASSUME NEW c \in Calls
      PROVE  /\ [calls EXCEPT ![Len(calls)] = c] \in Seq(Calls)
             /\ Len([calls EXCEPT ![Len(calls)] = c]) = Len(calls)
  BY <1>1
<1>3. /\ SubSeq(calls, 1, Len(calls) - 1) \in Seq(Calls)
      /\ Len(SubSeq(calls, 1, Len(calls) - 1)) = Len(calls) - 1
      /\ \A k \in 1..(Len(calls) - 1) : SubSeq(calls, 1, Len(calls) - 1)[k] = calls[k]
  <2> DEFINE n == Len(calls) - 1
             w == SubSeq(calls, 1, n)
  <2>1. n \in Nat /\ \A k \in 1..n : calls[k] \in Calls
    BY <1>1
  <2>2. /\ w \in Seq(Calls) /\ Len(w) = IF 1 <= n THEN n - 1 + 1 ELSE 0
        /\ \A k \in 1..(n - 1 + 1) : w[k] = calls[1 + k - 1]
    BY <2>1, SubSeqProperties
  <2> HIDE DEF n, w
  <2>3. w \in Seq(Calls) /\ Len(w) = n /\ \A k \in 1..n : w[k] = calls[k]
    BY <2>1, <2>2
  <2> QED
    BY <2>3 DEF n, w
<1> QED
  BY <1>1, <1>2, <1>3

LEMMA TopChanges ==
  ASSUME calls \in Seq(Calls), calls # <<>>
  PROVE  /\ [Top EXCEPT !.subs = <<>>] \in Calls
         /\ [Top EXCEPT !.files = <<>>] \in Calls
         /\ Top.subs # <<>> => [Top EXCEPT !.subs = Tail(@)] \in Calls /\ Head(Top.subs) \in Folder
         /\ Top.files # <<>> => [Top EXCEPT !.files = Tail(@)] \in Calls /\ Head(Top.files) \in Entry \union File
         /\ \A m \in Nat, s \in Seq(Entry) : [Top EXCEPT !.start = m, !.kept = s] \in Calls
         /\ [calls EXCEPT ![Len(calls)].files = <<>>]
              = [calls EXCEPT ![Len(calls)] = [Top EXCEPT !.files = <<>>]]
         /\ [calls EXCEPT ![Len(calls)].subs = Tail(@)]
              = [calls EXCEPT ![Len(calls)] = [Top EXCEPT !.subs = Tail(@)]]
<1>1. Top \in Calls
  BY CallsFacts
<1>2. Top.subs \in Seq(Folder) /\ Top.files \in Seq(Entry \union File)
  BY <1>1 DEF Calls
<1>3. Top.subs # <<>> => Tail(Top.subs) \in Seq(Folder) /\ Head(Top.subs) \in Folder
  BY <1>2
<1>4. Top.files # <<>> => Tail(Top.files) \in Seq(Entry \union File) /\ Head(Top.files) \in Entry \union File
  BY <1>2
<1>5. <<>> \in Seq(Folder) /\ <<>> \in Seq(Entry \union File)
  OBVIOUS
<1>6. [Top EXCEPT !.subs = <<>>] \in Calls /\ [Top EXCEPT !.files = <<>>] \in Calls
  BY <1>1, <1>5 DEF Calls
<1>7. /\ Top.subs # <<>> => [Top EXCEPT !.subs = Tail(@)] \in Calls
      /\ Top.files # <<>> => [Top EXCEPT !.files = Tail(@)] \in Calls
  BY <1>1, <1>3, <1>4 DEF Calls
<1>8. \A m \in Nat, s \in Seq(Entry) : [Top EXCEPT !.start = m, !.kept = s] \in Calls
  BY <1>1 DEF Calls
<1>9. /\ [calls EXCEPT ![Len(calls)].files = <<>>]
           = [calls EXCEPT ![Len(calls)] = [Top EXCEPT !.files = <<>>]]
      /\ [calls EXCEPT ![Len(calls)].subs = Tail(@)]
           = [calls EXCEPT ![Len(calls)] = [Top EXCEPT !.subs = Tail(@)]]
  BY DEF Top
<1> QED
  BY <1>3, <1>4, <1>6, <1>7, <1>8, <1>9

LEMMA CallsTyped ==
  ASSUME Core, Next
  PROVE  calls' \in Seq(Calls)
<1>0. calls \in Seq(Calls) /\ list \in Lists /\ order \in Seq(Entry)
  BY DEF Core, TypeOK
<1>1. CASE PlayerStep
  BY <1>0, <1>1, PlayerKeeps
<1>2. CASE BeginStep
  <2>1. calls' = calls \/ \E d \in Folder : calls' = <<Call(d)>>
    BY <1>2 DEF BeginStep, EnqueueFile, EnqueueFolder, Dequeue, DequeueItems, ResetMusic
  <2>2. ASSUME NEW c \in Calls PROVE <<c>> \in Seq(Calls)
    OBVIOUS
  <2> QED
    BY <1>0, <2>1, <2>2, CallTyped
<1>3. CASE AddStep
  <2>1. calls' = calls \/ (calls # <<>> /\ calls' = [calls EXCEPT ![Len(calls)].files = <<>>])
    BY <1>3 DEF AddStep, NextItem, AddLink, AddCount, AddFile, AddDisplay, ResetShuffle, EnqueueFails
  <2> QED
    BY <1>0, <2>1, CallsFacts, TopChanges
<1>4. CASE FolderStep
  <2>0. calls # <<>>
    BY <1>4 DEF FolderStep, SubFolder, OpenAgain, FolderFile, FolderDone, At, Core, CallsOK
  <2>1. CASE SubFolder
    <3>1. Top.subs # <<>>
      BY <2>1 DEF SubFolder
    <3>2. \/ calls' = Append([calls EXCEPT ![Len(calls)].subs = Tail(@)], Call(Head(Top.subs)))
          \/ calls' = [calls EXCEPT ![Len(calls)] = [Top EXCEPT !.subs = <<>>]]
      BY <2>1 DEF SubFolder, SetTop
    <3>3. [calls EXCEPT ![Len(calls)].subs = Tail(@)] \in Seq(Calls) /\ Call(Head(Top.subs)) \in Calls
      BY <1>0, <2>0, <3>1, CallsFacts, TopChanges, CallTyped
    <3>4. [calls EXCEPT ![Len(calls)] = [Top EXCEPT !.subs = <<>>]] \in Seq(Calls)
      BY <1>0, <2>0, CallsFacts, TopChanges
    <3>5. ASSUME NEW s \in Seq(Calls), NEW c \in Calls PROVE Append(s, c) \in Seq(Calls)
      OBVIOUS
    <3> QED
      BY <3>2, <3>3, <3>4, <3>5
  <2>2. CASE OpenAgain
    <3>1. list.numEntries \in Nat
      BY <1>0, FieldsOf
    <3> QED
      BY <1>0, <2>0, <2>2, <3>1, CallsFacts, TopChanges DEF OpenAgain, SetTop
  <2>3. CASE FolderFile
    BY <1>0, <2>0, <2>3, CallsFacts, TopChanges DEF FolderFile, SetTop
  <2>4. CASE FolderDone
    BY <1>0, <2>0, <2>4, CallsFacts DEF FolderDone, CloseFolder
  <2> QED
    BY <1>4, <2>1, <2>2, <2>3, <2>4 DEF FolderStep
<1>5. CASE SortStep
  <2>1. calls' = calls \/ (SortPass /\ calls' = SubSeq(calls, 1, Len(calls) - 1))
    BY <1>5 DEF SortStep, SortPass, SortCompare, SortSwap1, SortSwap2, SortSwap3, CloseFolder
  <2>2. SortPass => calls # <<>>
    BY DEF SortPass, At, Core, CallsOK, Sorting
  <2> QED
    BY <1>0, <2>1, <2>2, CallsFacts
<1>6. CASE RemoveStep \/ ResetStep
  <2>1. calls' = calls
    BY <1>6 DEF RemoveStep, Scan, ScanItem, RemoveLinks, RemoveTest, RemoveDeselect, RemoveShuffle, RemoveCount,
                RemoveFree, ResetStep, ResetEntry, ResetDone
  <2> QED
    BY <1>0, <2>1
<1> QED
  BY <1>1, <1>2, <1>3, <1>4, <1>5, <1>6, NextGroups

LEMMA EntryThere ==
  ASSUME Core, pc \in {"link", "count", "name", "display"} \union Removing
  PROVE  entry \in Entry
<1>1. order \in Seq(Entry)
  BY DEF Core, TypeOK
<1>2. CASE pc \in {"name", "display"}
  <2>1. Len(order) \in 1..Len(order) /\ entry = order[Len(order)]
    BY <1>1, <1>2 DEF Core, MembersOK
  <2> QED
    BY <1>1, <2>1, EntriesOf
<1>3. CASE pc = "unlink"
  BY <1>1, <1>3, OfIn, EntriesOf DEF Core, MembersOK
<1> QED
  BY <1>2, <1>3 DEF Core, MembersOK, Removing

(* The entry that is deleted again is the last one, that which is removed one   *)
(* of those in order.                                                       *)
LEMMA EntryPlace ==
  ASSUME Core, pc \in {"name", "display", "unlink"}
  PROVE  \E k \in 1..Len(order) : entry = order[k] /\ Without(order, entry) = Dropped(order, k)
<1>1. order \in Seq(Entry) /\ Distinct(order)
  BY DEF Core, TypeOK, MembersOK
<1>2. \E k \in 1..Len(order) : entry = order[k]
  <2>1. CASE pc \in {"name", "display"}
    BY <1>1, <2>1, EntriesOf DEF Core, MembersOK
  <2>2. CASE pc = "unlink"
    BY <1>1, <2>2, OfIn DEF Core, MembersOK
  <2> QED
    BY <2>1, <2>2
<1> QED
  BY <1>1, <1>2, WithoutIsDropped

LEMMA SortFacts ==
  ASSUME Core
  PROVE  /\ sort.head \in Link /\ sort.tail \in Link /\ sort.e \in Link
         /\ pc = "compare" => sort.a \in Entry
         /\ pc \in Swapping => /\ sort.a \in Entry /\ sort.b \in Entry
                               /\ sort.before \in Link /\ sort.after \in Link
<1>1. order \in Seq(Entry) /\ sort \in Sorts
  BY DEF Core, TypeOK
<1>2. /\ sort.head \in Link /\ sort.tail \in Link /\ sort.e \in Link
      /\ sort.before \in Link /\ sort.after \in Link
  BY <1>1 DEF Sorts
<1>3. pc = "compare" => sort.a \in Entry
  BY <1>1, EntriesOf DEF Core, SortOK
<1>4. ASSUME pc \in Swapping PROVE sort.a \in Entry /\ sort.b \in Entry
  <2>1. PICK i \in 1..(Len(order) - 1) : sort.a = order[i] /\ sort.b = order[i + 1]
    BY <1>4 DEF Core, SortOK
  <2>2. i \in 1..Len(order) /\ i + 1 \in 1..Len(order)
    BY <1>1, EntriesOf
  <2> QED
    BY <1>1, <2>1, <2>2, EntriesOf
<1> QED
  BY <1>2, <1>3, <1>4

LEMMA ListTyped ==
  ASSUME Core, Next
  PROVE  list' \in Lists
<1>0. list \in Lists /\ list.numEntries \in Nat /\ sort \in Sorts
  BY FieldsOf DEF Core, TypeOK
<1>1. CASE PlayerStep \/ BeginStep
  <2>1. list' = list
    BY <1>1, PlayerKeeps DEF BeginStep, EnqueueFile, EnqueueFolder, Dequeue, DequeueItems, ResetMusic
  <2> QED
    BY <1>0, <2>1
<1>2. CASE AddStep
  <2>1. CASE AddLink
    BY <1>0, <2>1, EntryThere, OperationTypes DEF AddLink, At
  <2>2. CASE AddCount
    BY <1>0, <2>2, EntryThere, OperationTypes DEF AddCount, At
  <2>3. CASE AddFile \/ AddDisplay
    <3>1. entry \in Entry
      BY <2>3, EntryThere DEF AddFile, AddDisplay, At
    <3>2. list' = list \/ list' = Freed(Unlink(list, entry), entry)
      BY <2>3 DEF AddFile, AddDisplay, Delete
    <3> QED
      BY <1>0, <3>1, <3>2, OperationTypes
  <2>4. CASE NextItem \/ ResetShuffle \/ EnqueueFails
    <3>1. list' = list
      BY <2>4 DEF NextItem, ResetShuffle, EnqueueFails
    <3> QED
      BY <1>0, <3>1
  <2> QED
    BY <1>2, <2>1, <2>2, <2>3, <2>4 DEF AddStep
<1>3. CASE FolderStep
  <2>1. list' = list
    BY <1>3 DEF FolderStep, SubFolder, OpenAgain, FolderFile, FolderDone
  <2> QED
    BY <1>0, <2>1
<1>4. CASE SortStep
  <2>1. CASE SortPass
    <3>1. list' = list \/ list' = [list EXCEPT !.first = sort.head, !.last = sort.tail]
      BY <2>1 DEF SortPass
    <3> QED
      BY <1>0, <3>1, SortFacts DEF Lists
  <2>2. CASE SortCompare
    <3>1. list' = list
      BY <2>2 DEF SortCompare
    <3> QED
      BY <1>0, <3>1
  <2>3. CASE SortSwap1
    BY <1>0, <2>3, SortFacts, SwapTypes DEF SortSwap1, At, Swapping
  <2>4. CASE SortSwap2
    BY <1>0, <2>4, SortFacts, SwapTypes DEF SortSwap2, At, Swapping
  <2>5. CASE SortSwap3
    BY <1>0, <2>5, SortFacts, SwapTypes DEF SortSwap3, At, Swapping
  <2> QED
    BY <1>4, <2>1, <2>2, <2>3, <2>4, <2>5 DEF SortStep
<1>5. CASE RemoveStep
  <2>1. CASE RemoveLinks
    BY <1>0, <2>1, EntryThere, OperationTypes DEF RemoveLinks, At, Removing
  <2>2. CASE RemoveCount
    <3>1. list' = list \/ (list.numEntries > 0 /\ list' = [list EXCEPT !.numEntries = list.numEntries - 1])
      BY <2>2 DEF RemoveCount
    <3>2. list.numEntries > 0 => list.numEntries - 1 \in Nat
      BY <1>0
    <3> QED
      BY <1>0, <3>1, <3>2 DEF Lists
  <2>3. CASE RemoveFree
    BY <1>0, <2>3, EntryThere, OperationTypes DEF RemoveFree, At, Removing, Unlinked
  <2>4. CASE Scan \/ ScanItem \/ RemoveTest \/ RemoveDeselect \/ RemoveShuffle
    <3>1. list' = list
      BY <2>4 DEF Scan, ScanItem, RemoveTest, RemoveDeselect, RemoveShuffle
    <3> QED
      BY <1>0, <3>1
  <2> QED
    BY <1>5, <2>1, <2>2, <2>3, <2>4 DEF RemoveStep
<1>6. CASE ResetStep
  <2>1. list' = list \/ list' = EmptyList
    BY <1>6 DEF ResetStep, ResetEntry, ResetDone
  <2> QED
    BY <1>0, <2>1 DEF EmptyList, Lists, Link
<1> QED
  BY <1>1, <1>2, <1>3, <1>4, <1>5, <1>6, NextGroups

LEMMA MemTyped ==
  ASSUME Core, Next
  PROVE  MemTypes'
<1>0. MemTypes
  BY TypeParts DEF Core
<1>1. \/ mem' = mem
      \/ \E n : mem' = [mem EXCEPT ![n] = "new"]
      \/ \E n : mem' = [mem EXCEPT ![n] = "free"]
      \/ \E n : mem' = [mem EXCEPT ![n] = "named"]
  <2>1. CASE PlayerStep \/ BeginStep
    BY <2>1, PlayerKeeps DEF BeginStep, EnqueueFile, EnqueueFolder, Dequeue, DequeueItems, ResetMusic
  <2>2. CASE AddStep
    BY <2>2 DEF AddStep, NextItem, AddLink, AddCount, AddFile, AddDisplay, Delete, ResetShuffle, EnqueueFails
  <2>3. CASE FolderStep \/ SortStep
    BY <2>3 DEF FolderStep, SubFolder, OpenAgain, FolderFile, FolderDone,
                SortStep, SortPass, SortCompare, SortSwap1, SortSwap2, SortSwap3
  <2>4. CASE RemoveStep \/ ResetStep
    BY <2>4 DEF RemoveStep, Scan, ScanItem, RemoveLinks, RemoveTest, RemoveDeselect, RemoveShuffle, RemoveCount,
                RemoveFree, ResetStep, ResetEntry, ResetDone
  <2> QED
    BY <2>1, <2>2, <2>3, <2>4, NextGroups
<1> QED
  BY <1>0, <1>1 DEF MemTypes

LEMMA OrderTyped ==
  ASSUME Core, Next
  PROVE  order' \in Seq(Entry)
<1>0. order \in Seq(Entry)
  BY DEF Core, TypeOK
<1>1. CASE PlayerStep \/ BeginStep \/ FolderStep
  <2>1. order' = order
    BY <1>1, PlayerKeeps DEF BeginStep, EnqueueFile, EnqueueFolder, Dequeue, DequeueItems, ResetMusic,
       FolderStep, SubFolder, OpenAgain, FolderFile, FolderDone
  <2> QED
    BY <1>0, <2>1
<1>2. CASE AddStep
  <2>1. CASE AddCount
    BY <1>0, <2>1, EntryThere, Appended DEF AddCount, At
  <2>2. CASE AddFile \/ AddDisplay
    <3>1. order' = order \/ order' = Without(order, entry)
      BY <2>2 DEF AddFile, AddDisplay, Delete
    <3>2. PICK k \in 1..Len(order) : Without(order, entry) = Dropped(order, k)
      BY <2>2, EntryPlace DEF AddFile, AddDisplay, At
    <3> QED
      BY <1>0, <3>1, <3>2, DroppedFacts
  <2>3. CASE NextItem \/ AddLink \/ ResetShuffle \/ EnqueueFails
    <3>1. order' = order
      BY <2>3 DEF NextItem, AddLink, ResetShuffle, EnqueueFails
    <3> QED
      BY <1>0, <3>1
  <2> QED
    BY <1>2, <2>1, <2>2, <2>3 DEF AddStep
<1>3. CASE SortStep
  <2>1. CASE SortSwap3
    <3>1. PICK i \in 1..(Len(order) - 1) : sort.a = order[i] /\ sort.b = order[i + 1]
      BY <2>1 DEF Core, SortOK, SortSwap3, At, Swapping
    <3>2. order' = Switched(order, i)
      BY <1>0, <2>1, <3>1, ExchangedIsSwitched DEF SortSwap3, Core, MembersOK
    <3> QED
      BY <1>0, <3>2, SwitchedFacts
  <2>2. CASE SortPass \/ SortCompare \/ SortSwap1 \/ SortSwap2
    <3>1. order' = order
      BY <2>2 DEF SortPass, SortCompare, SortSwap1, SortSwap2
    <3> QED
      BY <1>0, <3>1
  <2> QED
    BY <1>3, <2>1, <2>2 DEF SortStep
<1>4. CASE RemoveStep
  <2>1. CASE RemoveLinks
    <3>1. PICK k \in 1..Len(order) : Without(order, entry) = Dropped(order, k)
      BY <2>1, EntryPlace DEF RemoveLinks, At
    <3> QED
      BY <1>0, <2>1, <3>1, DroppedFacts DEF RemoveLinks
  <2>2. CASE Scan \/ ScanItem \/ RemoveTest \/ RemoveDeselect \/ RemoveShuffle \/ RemoveCount \/ RemoveFree
    <3>1. order' = order
      BY <2>2 DEF Scan, ScanItem, RemoveTest, RemoveDeselect, RemoveShuffle, RemoveCount, RemoveFree
    <3> QED
      BY <1>0, <3>1
  <2> QED
    BY <1>4, <2>1, <2>2 DEF RemoveStep
<1>5. CASE ResetStep
  <2>1. order' = order \/ order' = <<>>
    BY <1>5 DEF ResetStep, ResetEntry, ResetDone
  <2>2. <<>> \in Seq(Entry)
    OBVIOUS
  <2> QED
    BY <1>0, <2>1, <2>2
<1> QED
  BY <1>1, <1>2, <1>3, <1>4, <1>5, NextGroups

LEMMA EditTyped ==
  ASSUME Core, Next
  PROVE  EditTypes'
<1>0. /\ EditTypes /\ calls \in Seq(Calls) /\ list.first \in Link /\ list.next \in [Entry -> Link]
      /\ \A f \in File : Items[f] \in Seq(Entry)
      /\ todo # <<>> => Head(todo) \in Entry /\ Tail(todo) \in Seq(Entry)
  <2>1. EditTypes /\ calls \in Seq(Calls) /\ list.first \in Link /\ list.next \in [Entry -> Link]
    BY TypeParts, FieldsOf DEF Core
  <2>2. todo # <<>> => Head(todo) \in Entry /\ Tail(todo) \in Seq(Entry)
    BY <2>1, HeadTailProperties DEF EditTypes
  <2> QED
    BY <2>1, <2>2, MusicAssumption
<1> USE DEF EditTypes
<1>1. order' \in Seq(Entry)
  BY OrderTyped
<1>2. ASSUME NEW f \in Entry \union File, OpenFile(f), UNCHANGED calls
      PROVE  entry' \in Link /\ todo' \in Seq(Entry) /\ pc' \in Labels
  <2>1. CASE f \in File
    BY <1>0, <1>2, <2>1 DEF OpenFile, Goto, Labels
  <2>2. CASE f \notin File
    BY <1>0, <1>2, <2>2 DEF OpenFile, Goto, Return, Labels, Link
  <2> QED
    BY <2>1, <2>2
<1>3. CASE PlayerStep
  BY <1>0, <1>1, <1>3, PlayerKeeps DEF Labels
<1>4. CASE BeginStep
  <2>1. CASE \E f \in Entry \union File : EnqueueFile(f)
    BY <1>0, <1>1, <1>2, <2>1 DEF EnqueueFile, ListStep
  <2>2. CASE \E d \in Folder : EnqueueFolder(d)
    BY <1>0, <1>1, <2>2 DEF EnqueueFolder, ListStep, Goto, Labels
  <2>3. CASE \E x \in Entry \union Folder : Dequeue(x)
    BY <1>0, <1>1, <2>3, MusicAssumption DEF Dequeue, Goto, Labels
  <2>4. CASE \E f \in File : DequeueItems(f)
    BY <1>0, <1>1, <2>4 DEF DequeueItems, Goto, Labels
  <2>5. CASE ResetMusic
    BY <1>0, <1>1, <2>5 DEF ResetMusic, Goto, Labels
  <2> QED
    BY <1>4, <2>1, <2>2, <2>3, <2>4, <2>5 DEF BeginStep
<1>5. CASE AddStep
  <2>1. CASE NextItem
    BY <1>0, <1>1, <2>1 DEF NextItem, ListStep, Goto, Labels, Link
  <2>2. CASE AddLink \/ AddCount \/ AddFile
    BY <1>0, <1>1, <2>2 DEF AddLink, AddCount, AddFile, Delete, ListStep, Goto, Labels
  <2>3. CASE AddDisplay \/ ResetShuffle
    BY <1>0, <1>1, <2>3 DEF AddDisplay, ResetShuffle, Delete, ListStep, Goto, Return, Labels, Link
  <2>4. CASE EnqueueFails
    <3>1. /\ todo' = <<>> /\ entry' = Null /\ past' = past \union {"failed"} /\ UNCHANGED <<drop, cursor>>
          /\ pc' \in {"idle", "folder"}
      BY <2>4 DEF EnqueueFails, Goto, Return
    <3>2. todo' \in Seq(Entry)
      BY <3>1
    <3> QED
      BY <1>0, <1>1, <3>1, <3>2 DEF Labels, Link
  <2> QED
    BY <1>5, <2>1, <2>2, <2>3, <2>4 DEF AddStep
<1>6. CASE FolderStep
  <2>1. CASE FolderFile
    <3>1. Head(Top.files) \in Entry \union File
      BY <1>0, <2>1, TopChanges DEF FolderFile, At, Core, CallsOK
    <3>2. entry' \in Link /\ todo' \in Seq(Entry) /\ pc' \in Labels
      <4> DEFINE f == Head(Top.files)
      <4>1. OpenFile(f)
        BY <2>1 DEF FolderFile
      <4>2. CASE f \in File
        BY <1>0, <4>1, <4>2 DEF OpenFile, Goto, Labels
      <4>3. CASE f \notin File
        BY <1>0, <3>1, <4>1, <4>3 DEF OpenFile, Goto, Return, Labels, Link
      <4> QED
        BY <4>2, <4>3
    <3> QED
      BY <1>0, <1>1, <2>1, <3>2 DEF FolderFile, ListStep
  <2>2. CASE SubFolder \/ OpenAgain \/ FolderDone
    BY <1>0, <1>1, <2>2 DEF SubFolder, OpenAgain, FolderDone, CloseFolder, ListStep, Goto, Labels
  <2> QED
    BY <1>6, <2>1, <2>2 DEF FolderStep
<1>7. CASE SortStep
  BY <1>0, <1>1, <1>7 DEF SortStep, SortPass, SortCompare, SortSwap1, SortSwap2, SortSwap3, CloseFolder,
                          ListStep, Goto, Labels
<1>8. CASE RemoveStep
  <2>1. CASE Scan
    <3>1. cursor # Null => cursor \in Entry /\ list.next[cursor] \in Link
      BY <1>0 DEF Link
    <3> QED
      BY <1>0, <1>1, <2>1, <3>1 DEF Scan, Goto, Labels, Link
  <2>2. CASE ScanItem
    BY <1>0, <1>1, <2>2 DEF ScanItem, Goto, Labels, Link
  <2>3. CASE RemoveLinks \/ RemoveTest \/ RemoveDeselect \/ RemoveShuffle
    BY <1>0, <1>1, <2>3 DEF RemoveLinks, RemoveTest, RemoveDeselect, RemoveShuffle, ListStep, Goto, Labels
  <2>4. CASE RemoveCount \/ RemoveFree
    BY <1>0, <1>1, <2>4 DEF RemoveCount, RemoveFree, ListStep, Goto, Labels, Link
  <2> QED
    BY <1>8, <2>1, <2>2, <2>3, <2>4 DEF RemoveStep
<1>9. CASE ResetStep
  <2>1. cursor # Null => cursor \in Entry /\ list.next[cursor] \in Link
    BY <1>0 DEF Link
  <2> QED
    BY <1>0, <1>1, <1>9, <2>1 DEF ResetStep, ResetEntry, ResetDone, Goto, Labels
<1> QED
  BY <1>3, <1>4, <1>5, <1>6, <1>7, <1>8, <1>9, NextGroups

LEMMA SortTyped ==
  ASSUME Core, Next
  PROVE  sort' \in Sorts
<1>0. sort \in Sorts /\ list \in Lists /\ list.first \in Link /\ list.last \in Link
  BY FieldsOf DEF Core, TypeOK
<1> USE DEF Sorts
<1>1. NoSort \in Sorts
  BY DEF NoSort, Link
<1>2. ASSUME NEW a \in Link, NEW b \in Link
      PROVE  Onward(a, b) \in Sorts
  <2> DEFINE e == IF b = sort.e THEN a ELSE sort.e
  <2>1. e \in Link /\ sort.head \in Link /\ sort.tail \in Link
    BY SortFacts
  <2>2. Onward(a, b) = [NoSort EXCEPT !.head = sort.head, !.tail = sort.tail, !.a = a, !.e = e]
    BY DEF Onward
  <2> HIDE DEF e
  <2> QED
    BY <1>1, <2>1, <2>2
<1>3. CASE PlayerStep \/ BeginStep
  <2>1. sort' = sort
    BY <1>3, PlayerKeeps DEF BeginStep, EnqueueFile, EnqueueFolder, Dequeue, DequeueItems, ResetMusic
  <2> QED
    BY <1>0, <2>1
<1>4. CASE AddStep \/ RemoveStep \/ ResetStep
  <2>1. sort' = sort
    BY <1>4 DEF AddStep, NextItem, AddLink, AddCount, AddFile, AddDisplay, Delete, ResetShuffle, EnqueueFails,
       RemoveStep, Scan, ScanItem, RemoveLinks, RemoveTest, RemoveDeselect, RemoveShuffle, RemoveCount,
       RemoveFree, ResetStep, ResetEntry, ResetDone
  <2> QED
    BY <1>0, <2>1
<1>5. CASE FolderStep
  <2>1. sort' = sort \/ sort' = [NoSort EXCEPT !.head = list.first, !.tail = list.last]
    BY <1>5 DEF FolderStep, SubFolder, OpenAgain, FolderFile, FolderDone
  <2> QED
    BY <1>0, <1>1, <2>1
<1>6. CASE SortStep
  <2>1. CASE SortPass
    <3>1. sort' = NoSort \/ sort' = [sort EXCEPT !.a = sort.head]
      BY <2>1 DEF SortPass
    <3> QED
      BY <1>0, <1>1, <3>1, SortFacts
  <2>2. CASE SortCompare
    <3> DEFINE b == list.next[sort.a]
    <3>1. PICK i \in 1..Len(order), j \in 2..(Len(order) + 1) :
            sort.a = order[i] /\ IsAt(j, sort.e) /\ (i = j \/ i + 2 <= j)
      BY <2>2 DEF SortCompare, At, Core, SortOK
    <3>2. sort.a # sort.e => b \in Entry /\ list.next[b] \in Link
      <4>1. order \in Seq(Entry) /\ Represents(SortEnds(list), order) /\ Len(order) \in Nat
        BY <2>2, EntriesOf DEF SortCompare, At, Core, Linked, TypeOK
      <4>2. SortEnds(list).next = list.next
        BY <1>0 DEF SortEnds, Lists
      <4>3. sort.a # sort.e => i + 1 \in 1..Len(order)
        BY <3>1, <4>1, EntriesOf DEF IsAt
      <4>4. sort.a # sort.e => b = order[i + 1]
        BY <3>1, <4>1, <4>2, <4>3 DEF Represents
      <4> QED
        BY <1>0, <4>1, <4>3, <4>4, EntriesOf, FieldsOf
    <3>3. \/ sort' = sort
          \/ /\ sort.a # sort.e
             /\ sort' = [sort EXCEPT !.b = b, !.before = list.prior[sort.a], !.after = list.next[b]]
          \/ /\ sort.a # sort.e
             /\ sort' = Onward(b, list.next[b])
      BY <2>2 DEF SortCompare
    <3>4. sort.a \in Entry /\ list.prior[sort.a] \in Link
      BY <1>0, <2>2, SortFacts, FieldsOf DEF SortCompare, At
    <3>5. \A x \in Link, y \in Link, z \in Link :
            [sort EXCEPT !.b = x, !.before = y, !.after = z] \in Sorts
      BY <1>0
    <3>6. sort.a # sort.e => b \in Link /\ list.next[b] \in Link
      BY <3>2 DEF Link
    <3> DEFINE x == list.next[b]
               y == list.prior[sort.a]
    <3>7. sort.a # sort.e => [sort EXCEPT !.b = b, !.before = y, !.after = x] \in Sorts /\ Onward(b, x) \in Sorts
      BY <1>2, <3>4, <3>5, <3>6
    <3> QED
      BY <1>0, <3>3, <3>7
  <2>3. CASE SortSwap3
    <3>1. sort.a \in Link /\ sort.b \in Link /\ sort.after \in Link
      BY <1>0
    <3>2. Onward(sort.a, sort.after) \in Sorts
      BY <1>2, <3>1
    <3>3. sort' = [Onward(sort.a, sort.after) EXCEPT
                     !.head = IF sort.before = Null THEN sort.b ELSE @,
                     !.tail = IF sort.after = Null THEN sort.a ELSE @]
      BY <2>3 DEF SortSwap3
    <3> DEFINE o == Onward(sort.a, sort.after)
               h == IF sort.before = Null THEN sort.b ELSE o.head
               t == IF sort.after = Null THEN sort.a ELSE o.tail
    <3>4. o \in Sorts /\ sort' = [o EXCEPT !.head = h, !.tail = t]
      BY <3>2, <3>3
    <3> HIDE DEF o
    <3>5. h \in Link /\ t \in Link
      BY <3>1, <3>4
    <3> HIDE DEF h, t
    <3> QED
      BY <3>4, <3>5
  <2>4. CASE SortSwap1 \/ SortSwap2
    <3>1. sort' = sort
      BY <2>4 DEF SortSwap1, SortSwap2
    <3> QED
      BY <1>0, <3>1
  <2> QED
    BY <1>6, <2>1, <2>2, <2>3, <2>4 DEF SortStep
<1> QED
  BY <1>3, <1>4, <1>5, <1>6, NextGroups

(* What FindNextFile does, by parts: in shuffle order it reads position k of the  *)
(* order p, which is the old one or a new one.                                *)
FindsLinear == Unshuffled /\ (NoNext \/ Fault \/ (\E n : Load(n)))

ReadsShuffle(p, k, since) ==
  /\ shuffleList' = p /\ shuffleIndex' = k + 1
  /\ \/ k < Len(p) /\ Load(Walk(p[k + 1])) /\ heard' = since \union ({selIndex'} \intersect Entry)
     \/ k >= Len(p) /\ Fault /\ heard' = since

FindsShuffled ==
  \/ /\ shuffleIndex = -1 \/ shuffleIndex >= list.numEntries
     /\ \E p \in Shuffles(list.numEntries) : ReadsShuffle(p, 0, {})
  \/ /\ shuffleIndex # -1 /\ shuffleIndex < list.numEntries
     /\ ReadsShuffle(shuffleList, shuffleIndex, heard)

LEMMA ShuffleFinds ==
  ASSUME list.numEntries \in Nat, ChosenTypes, GetNextShuffle
  PROVE  FindsShuffled
<1>1. CASE shuffleIndex = -1 \/ shuffleIndex >= list.numEntries
  <2>1. PICK p \in Shuffles(list.numEntries) :
          /\ shuffleList' = p /\ shuffleIndex' = 0 + 1
          /\ IF 0 < Len(p)
             THEN /\ Load(Walk(p[0 + 1]))
                  /\ heard' = {} \union ({selIndex'} \intersect Entry)
             ELSE Fault /\ heard' = {}
    BY <1>1 DEF GetNextShuffle
  <2>2. p \in [1..list.numEntries -> 0..(list.numEntries - 1)] /\ Len(p) \in Nat
    BY <2>1 DEF Shuffles
  <2>3. ReadsShuffle(p, 0, {})
    BY <2>1, <2>2 DEF ReadsShuffle
  <2> QED
    BY <1>1, <2>1, <2>3 DEF FindsShuffled
<1>2. CASE ~(shuffleIndex = -1 \/ shuffleIndex >= list.numEntries)
  <2>1. /\ shuffleList' = shuffleList /\ shuffleIndex' = shuffleIndex + 1
        /\ IF shuffleIndex < Len(shuffleList)
           THEN /\ Load(Walk(shuffleList[shuffleIndex + 1]))
                /\ heard' = heard \union ({selIndex'} \intersect Entry)
           ELSE Fault /\ heard' = heard
    BY <1>2 DEF GetNextShuffle
  <2>2. shuffleIndex \in Nat /\ Len(shuffleList) \in Nat /\ shuffleIndex < list.numEntries
    BY <1>2 DEF ChosenTypes
  <2>3. ReadsShuffle(shuffleList, shuffleIndex, heard)
    BY <2>1, <2>2 DEF ReadsShuffle
  <2> QED
    BY <1>2, <2>2, <2>3 DEF FindsShuffled
<1> QED
  BY <1>1, <1>2

LEMMA Finds ==
  ASSUME list.numEntries \in Nat, ChosenTypes, FindNextFile
  PROVE  FindsLinear \/ (list.numEntries > 0 /\ playOrder = "shuffle" /\ selIndex # Null /\ FindsShuffled)
<1>1. CASE GetNextShuffle /\ list.numEntries > 0 /\ playOrder = "shuffle" /\ selIndex # Null
  BY <1>1, ShuffleFinds
<1>2. CASE ~(GetNextShuffle /\ list.numEntries > 0 /\ playOrder = "shuffle" /\ selIndex # Null)
  <2>1. Unshuffled
    BY <1>2, Zenon DEF FindNextFile
  <2>2. NoNext \/ Fault \/ (\E n : Load(n))
    BY <1>2, Zenon DEF FindNextFile
  <2> QED
    BY <2>1, <2>2 DEF FindsLinear
<1> QED
  BY <1>1, <1>2

LEMMA FindTyped ==
  ASSUME list.numEntries \in Nat, ChosenTypes, FindNextFile
  PROVE  ChosenTypes' /\ (fault' = fault \/ fault' = TRUE)
<1>1. selIndex' \in Link /\ (fault' = fault \/ fault' = TRUE)
  BY Finds DEF FindsLinear, FindsShuffled, ReadsShuffle, NoNext, Load, Fault, Members, Link, ChosenTypes
<1>2. shuffleIndex' \in Nat \union {-1} /\ shuffleList' \in Seq(Nat) /\ heard' \in SUBSET Entry
  <2>1. CASE FindsLinear
    BY <2>1 DEF FindsLinear, Unshuffled, ChosenTypes
  <2>2. CASE FindsShuffled
    <3>1. ASSUME NEW p \in Seq(Nat), NEW k \in Nat, NEW since \in SUBSET Entry, ReadsShuffle(p, k, since)
          PROVE  shuffleIndex' \in Nat /\ shuffleList' \in Seq(Nat) /\ heard' \in SUBSET Entry
      BY <3>1 DEF ReadsShuffle
    <3>2. ASSUME NEW p \in Shuffles(list.numEntries) PROVE p \in Seq(Nat)
      <4>1. p \in [1..list.numEntries -> 0..(list.numEntries - 1)]
        BY DEF Shuffles
      <4>2. p \in [1..list.numEntries -> Nat]
        BY <4>1
      <4> QED
        BY <4>2
    <3>3. CASE \E p \in Shuffles(list.numEntries) : ReadsShuffle(p, 0, {})
      BY <3>1, <3>2, <3>3
    <3>4. CASE shuffleIndex # -1 /\ ReadsShuffle(shuffleList, shuffleIndex, heard)
      BY <3>1, <3>4 DEF ChosenTypes
    <3> QED
      BY <2>2, <3>3, <3>4 DEF FindsShuffled
  <2> QED
    BY <2>1, <2>2, Finds
<1> QED
  BY <1>1, <1>2 DEF ChosenTypes

(* The steps that leave the player's choice alone, and the two that reset it.   *)
LEMMA ChosenKept ==
  ASSUME Next
  PROVE  \/ PlayerStep
         \/ UNCHANGED chosen
         \/ /\ RemoveDeselect \/ ResetDone
            /\ selIndex' = Null /\ UNCHANGED <<shuffleIndex, shuffleList, heard, playing, fault>>
         \/ /\ ResetShuffle \/ RemoveShuffle
            /\ Reshuffle /\ UNCHANGED <<selIndex, playing, fault>>
<1>1. CASE BeginStep
  BY <1>1, Zenon DEF BeginStep, EnqueueFile, EnqueueFolder, Dequeue, DequeueItems, ResetMusic, ListStep
<1>2. CASE AddStep
  <2>1. CASE ResetShuffle
    BY <2>1 DEF ResetShuffle
  <2>2. CASE NextItem \/ AddLink \/ AddCount \/ AddFile \/ AddDisplay \/ EnqueueFails
    BY <2>2, Zenon DEF NextItem, AddLink, AddCount, AddFile, AddDisplay, EnqueueFails, ListStep
  <2> QED
    BY <1>2, <2>1, <2>2 DEF AddStep
<1>3. CASE FolderStep \/ SortStep
  BY <1>3, Zenon DEF FolderStep, SubFolder, OpenAgain, FolderFile, FolderDone,
     SortStep, SortPass, SortCompare, SortSwap1, SortSwap2, SortSwap3, ListStep
<1>4. CASE RemoveStep
  <2>1. CASE RemoveDeselect \/ RemoveShuffle
    BY <2>1 DEF RemoveDeselect, RemoveShuffle
  <2>2. CASE Scan \/ ScanItem \/ RemoveLinks \/ RemoveTest \/ RemoveCount \/ RemoveFree
    BY <2>2, Zenon DEF Scan, ScanItem, RemoveLinks, RemoveTest, RemoveCount, RemoveFree, ListStep
  <2> QED
    BY <1>4, <2>1, <2>2 DEF RemoveStep
<1>5. CASE ResetStep
  <2>1. ResetEntry => UNCHANGED chosen
    BY Zenon DEF ResetEntry
  <2>2. ResetDone => selIndex' = Null /\ UNCHANGED <<shuffleIndex, shuffleList, heard, playing, fault>>
    BY DEF ResetDone
  <2> QED
    BY <1>5, <2>1, <2>2 DEF ResetStep
<1> QED
  BY <1>1, <1>2, <1>3, <1>4, <1>5, NextGroups

LEMMA ChosenTyped ==
  ASSUME Core, Next
  PROVE  ChosenTypes' /\ Flags' /\ playOrder' \in PlayOrders
<1>0. list.numEntries \in Nat /\ ChosenTypes /\ Flags /\ playOrder \in PlayOrders
  BY TypeParts, FieldsOf DEF Core
<1>1. CASE PlayerStep
  <2>1. ChosenTypes' /\ (fault' = fault \/ fault' = TRUE)
    <3>1. CASE SongEnds \/ StartPlaylist
      BY <1>0, <3>1, FindTyped DEF SongEnds, StartPlaylist
    <3>2. CASE (\E n \in Entry : Select(n)) \/ LoadNewFile \/ ModeButton
      BY <1>0, <3>2 DEF Select, LoadNewFile, ModeButton, chosen, ChosenTypes, Link
    <3> QED
      BY <1>1, <3>1, <3>2 DEF PlayerStep
  <2>2. playing' \in BOOLEAN
    BY <1>0, <1>1, Zenon DEF PlayerStep, SongEnds, StartPlaylist, Select, LoadNewFile, ModeButton, chosen, Flags
  <2>3. fault' \in BOOLEAN
    BY <1>0, <2>1, Zenon DEF Flags
  <2>4. playOrder' \in PlayOrders
    BY <1>0, <1>1 DEF PlayerStep, SongEnds, StartPlaylist, Select, LoadNewFile, ModeButton, At, PlayOrders
  <2> QED
    BY <2>1, <2>2, <2>3, <2>4 DEF Flags
<1>2. CASE ~PlayerStep
  <2>1. ChosenTypes'
    <3>1. CASE UNCHANGED chosen
      BY <1>0, <3>1 DEF chosen, ChosenTypes
    <3>2. CASE selIndex' = Null /\ UNCHANGED <<shuffleIndex, shuffleList, heard, playing, fault>>
      BY <1>0, <3>2 DEF ChosenTypes, Link
    <3>3. CASE Reshuffle /\ UNCHANGED <<selIndex, playing, fault>>
      <4>1. <<>> \in Seq(Nat)
        OBVIOUS
      <4> QED
        BY <1>0, <3>3, <4>1 DEF Reshuffle, ChosenTypes
    <3> QED
      BY <1>2, <3>1, <3>2, <3>3, ChosenKept
  <2>2. playing' = playing /\ fault' = fault
    BY <1>2, ChosenKept DEF chosen
  <2>3. playOrder' = playOrder
    <3>1. CASE BeginStep \/ AddStep \/ FolderStep
      BY <3>1 DEF BeginStep, EnqueueFile, EnqueueFolder, Dequeue, DequeueItems, ResetMusic,
         AddStep, NextItem, AddLink, AddCount, AddFile, AddDisplay, ResetShuffle, EnqueueFails,
         FolderStep, SubFolder, OpenAgain, FolderFile, FolderDone, At
    <3>2. CASE SortStep \/ RemoveStep \/ ResetStep
      BY <3>2 DEF SortStep, SortPass, SortCompare, SortSwap1, SortSwap2, SortSwap3,
         RemoveStep, Scan, ScanItem, RemoveLinks, RemoveTest, RemoveDeselect, RemoveShuffle, RemoveCount,
         RemoveFree, ResetStep, ResetEntry, ResetDone, At
    <3> QED
      BY <1>2, <3>1, <3>2, NextGroups
  <2> QED
    BY <1>0, <2>1, <2>2, <2>3, Zenon DEF Flags
<1> QED
  BY <1>1, <1>2

LEMMA Typed ==
  ASSUME Core, Next
  PROVE  TypeOK'
BY ListTyped, MemTyped, EditTyped, ChosenTyped, CallsTyped, SortTyped, Zenon
   DEF TypeOK, MemTypes, EditTypes, ChosenTypes, Flags

-----------------------------------------------------------------------------
(* The memory of the entries.                                               *)
LEMMA DistinctSteps ==
  ASSUME NEW s \in Seq(Entry), Distinct(s)
  PROVE  /\ \A n \in Entry : n \notin Of(s) => Distinct(Append(s, n))
         /\ \A k \in 1..Len(s) : Distinct(Dropped(s, k))
         /\ \A k \in 1..(Len(s) - 1) : Distinct(Switched(s, k))
<1>0. Len(s) \in Nat
  OBVIOUS
<1>1. ASSUME NEW n \in Entry, n \notin Of(s) PROVE Distinct(Append(s, n))
  <2> DEFINE w == Append(s, n)
  <2>1. Len(w) = Len(s) + 1 /\ w[Len(s) + 1] = n /\ \A k \in 1..Len(s) : w[k] = s[k] /\ w[k] # n
    BY <1>1, Appended, OfIn
  <2>2. \A k \in 1..Len(w) : k \in 1..Len(s) \/ k = Len(s) + 1
    BY <1>0, <2>1
  <2> HIDE DEF w
  <2>3. Distinct(w)
    BY <2>1, <2>2 DEF Distinct
  <2> QED
    BY <2>3 DEF w
<1>2. ASSUME NEW k \in 1..Len(s) PROVE Distinct(Dropped(s, k))
  <2> DEFINE w == Dropped(s, k)
  <2>1. Len(w) = Len(s) - 1 /\ \A j \in 1..Len(w) : w[j] = s[IF j < k THEN j ELSE j + 1]
    BY DroppedFacts
  <2> HIDE DEF w
  <2>2. ASSUME NEW i \in 1..Len(w), NEW j \in 1..Len(w), w[i] = w[j] PROVE i = j
    <3>1. (IF i < k THEN i ELSE i + 1) \in 1..Len(s) /\ (IF j < k THEN j ELSE j + 1) \in 1..Len(s)
      BY <1>0, <2>1
    <3>2. (IF i < k THEN i ELSE i + 1) = (IF j < k THEN j ELSE j + 1)
      BY <2>1, <2>2, <3>1 DEF Distinct
    <3> QED
      BY <1>0, <2>1, <3>2
  <2> QED
    BY <2>2 DEF Distinct, w
<1>3. ASSUME NEW k \in 1..(Len(s) - 1) PROVE Distinct(Switched(s, k))
  <2> DEFINE w == Switched(s, k)
  <2>1. /\ Len(w) = Len(s) /\ w[k] = s[k + 1] /\ w[k + 1] = s[k]
        /\ \A j \in 1..Len(s) : j # k /\ j # k + 1 => w[j] = s[j]
    BY <1>3, SwitchedFacts
  <2>2. k \in 1..Len(s) /\ k + 1 \in 1..Len(s)
    BY <1>0
  <2> HIDE DEF w
  <2> QED
    BY <2>1, <2>2 DEF Distinct, w
<1> QED
  BY <1>1, <1>2, <1>3

LEMMA MemSteps ==
  ASSUME MemTypes, NEW n \in Entry, NEW v, mem' = [mem EXCEPT ![n] = v]
  PROVE  /\ v = "free" => Members' = Members \ {n}
         /\ v # "free" => Members' = Members \union {n}
         /\ mem'[n] = v /\ \A k \in Entry : k # n => mem'[k] = mem[k]
BY DEF MemTypes, Members

(* What the first entry and the next one are.                                *)
LEMMA LinksLead ==
  ASSUME NEW L \in Lists, NEW s \in Seq(Entry), Represents(L, s)
  PROVE  /\ L.first = IF Len(s) > 0 THEN s[1] ELSE Null
         /\ \A k \in 1..Len(s) : L.next[s[k]] = IF k < Len(s) THEN s[k + 1] ELSE Null
         /\ \A k \in 1..Len(s) : L.prior[s[k]] = IF k > 1 THEN s[k - 1] ELSE Null
BY EntriesOf DEF Represents

LEMMA LinkedNow ==
  ASSUME Core, pc \notin Sorting \union {"count"}
  PROVE  /\ list.first = IF Len(order) > 0 THEN order[1] ELSE Null
         /\ \A k \in 1..Len(order) : list.next[order[k]] = IF k < Len(order) THEN order[k + 1] ELSE Null
         /\ list.first \in Of(order) \union {Null}
<1>1. list \in Lists /\ order \in Seq(Entry) /\ Represents(list, order) /\ Len(order) \in Nat
  BY DEF Core, TypeOK, Linked
<1>2. /\ list.first = IF Len(order) > 0 THEN order[1] ELSE Null
      /\ \A k \in 1..Len(order) : list.next[order[k]] = IF k < Len(order) THEN order[k + 1] ELSE Null
  BY <1>1, LinksLead
<1>3. Len(order) > 0 => 1 \in 1..Len(order)
  BY <1>1
<1> QED
  BY <1>2, <1>3, OfIn

(* A song that OpenFile or NextItem is to add is not in the list.              *)
LEMMA NotNamed ==
  ASSUME Core, NEW n \in Entry, pc \notin {"count", "name"}
  PROVE  mem[n] = "named" \/ mem[n] = "free"
BY DEF Core, TypeOK, MembersOK

LEMMA MembersKept ==
  ASSUME Core, Next
  PROVE  MembersOK'
<1>0. /\ order \in Seq(Entry) /\ Distinct(order) /\ Len(order) \in Nat /\ MemTypes
      /\ MembersOK
      /\ todo # <<>> => Head(todo) \in Entry
  BY TypeParts DEF Core, MembersOK, EditTypes
<1> USE DEF MembersOK, Adding, Unlinked, Removing, Sorting
<1>1. ASSUME UNCHANGED <<mem, order>>
      PROVE  Members' = Members /\ Of(order') = Of(order) /\ Distinct(order')
             /\ \A n : mem'[n] = mem[n]
  BY <1>0, <1>1 DEF Members
<1>2. CASE PlayerStep
  <2>1. UNCHANGED <<mem, order, entry, cursor>> /\ (pc' = pc \/ (pc \in {"idle", "load"} /\ pc' \in {"idle", "load"}))
    BY <1>2, PlayerKeeps
  <2> QED
    BY <1>0, <1>1, <2>1
<1>3. CASE BeginStep
  <2>1. pc = "idle" /\ UNCHANGED <<mem, order>>
    BY <1>3 DEF BeginStep, EnqueueFile, EnqueueFolder, Dequeue, DequeueItems, ResetMusic, At
  <2>2. \/ pc' \in {"idle", "item", "folder", "scan", "items"}
        \/ pc' = "link" /\ entry' \in Entry /\ mem[entry'] # "named"
        \/ pc' = "clear" /\ cursor' = list.first
    <3>1. ASSUME NEW f \in Entry \union File, EnqueueFile(f)
          PROVE  \/ pc' \in {"idle", "item"}
                 \/ pc' = "link" /\ entry' \in Entry /\ mem[entry'] # "named"
      BY <2>1, <3>1, MusicAssumption DEF EnqueueFile, OpenFile, Return, Goto, Core, CallsOK
    <3> QED
      BY <1>3, <3>1 DEF BeginStep, EnqueueFolder, Dequeue, DequeueItems, ResetMusic, Goto
  <2>3. CASE pc' = "clear"
    <3>1. cursor' = IF Len(order) > 0 THEN order[1] ELSE Null
      BY <2>1, <2>2, <2>3, LinkedNow
    <3>2. 1 \in 1..(Len(order) + 1) /\ cursor' = IF 1 <= Len(order) THEN order[1] ELSE Null
      BY <1>0, <3>1
    <3>3. Members = {order[j] : j \in 1..Len(order)}
      BY <1>0, <2>1 DEF Of
    <3>4. \E k \in 1..(Len(order) + 1) :
            /\ Members = {order[j] : j \in k..Len(order)}
            /\ cursor' = IF k <= Len(order) THEN order[k] ELSE Null
      BY <3>2, <3>3
    <3> QED
      BY <1>0, <1>1, <2>1, <2>3, <3>4
  <2>4. CASE pc' # "clear"
    BY <1>0, <1>1, <2>1, <2>2, <2>4, NotNamed
  <2> QED
    BY <2>3, <2>4
<1>4. CASE AddStep
  <2>1. CASE NextItem
    BY <1>0, <1>1, <2>1, NotNamed DEF NextItem, At, Goto
  <2>2. CASE AddLink
    <3>1. pc = "link" /\ entry \in Entry /\ mem[entry] = "free" /\ Members = Of(order) /\ entry \notin Members
      BY <1>0, <2>2 DEF AddLink, At, Members
    <3>2. UNCHANGED <<order, entry>> /\ (pc' = "count" \/ pc' = "failed")
      BY <2>2 DEF AddLink, Goto
    <3>3. CASE pc' = "count"
      <4>1. mem' = [mem EXCEPT ![entry] = "new"]
        BY <2>2, <3>3 DEF AddLink, Goto
      <4>2. Members' = Members \union {entry} /\ mem'[entry] = "new" /\ \A k \in Entry : k # entry => mem'[k] = mem[k]
        BY <1>0, <3>1, <4>1, MemSteps
      <4> QED
        BY <1>0, <3>1, <3>2, <3>3, <4>2
    <3>4. CASE pc' = "failed"
      <4>1. mem' = mem
        BY <2>2, <3>4 DEF AddLink, Goto
      <4> QED
        BY <1>0, <1>1, <3>1, <3>2, <3>4, <4>1
    <3> QED
      BY <3>2, <3>3, <3>4
  <2>3. CASE AddCount
    <3>1. /\ pc = "count" /\ pc' = "name" /\ order' = Append(order, entry) /\ UNCHANGED <<mem, entry>>
          /\ entry \in Entry /\ entry \notin Of(order) /\ Members = Of(order) \union {entry}
          /\ mem[entry] = "new"
      BY <1>0, <2>3 DEF AddCount, At, Goto
    <3>2. Distinct(order') /\ Of(order') = Of(order) \union {entry} /\ Len(order') = Len(order) + 1
          /\ order'[Len(order) + 1] = entry
      BY <1>0, <3>1, DistinctSteps, Appended
    <3>3. Members' = Members
      BY <3>1 DEF Members
    <3> QED
      BY <1>0, <3>1, <3>2, <3>3
  <2>4. CASE AddFile \/ AddDisplay
    <3>1. pc \in {"name", "display"} /\ entry \in Entry /\ Members = Of(order) /\ Len(order) > 0
      BY <2>4, EntryThere, <1>0 DEF AddFile, AddDisplay, At
    <3>2. entry \in Of(order)
      BY <1>0, <3>1, OfIn
    <3>3. \/ Delete /\ pc' = "failed"
          \/ mem' = [mem EXCEPT ![entry] = "named"] /\ pc' = "display" /\ UNCHANGED <<order, entry>>
          \/ pc = "display" /\ pc' = "item" /\ UNCHANGED <<mem, order>>
      BY <2>4 DEF AddFile, AddDisplay, Delete, At, Goto
    <3>4. CASE Delete /\ pc' = "failed"
      <4>1. mem' = [mem EXCEPT ![entry] = "free"] /\ order' = Without(order, entry)
        BY <3>4 DEF Delete
      <4>2. PICK k \in 1..Len(order) : entry = order[k] /\ Without(order, entry) = Dropped(order, k)
        BY <3>1, EntryPlace
      <4>3. Distinct(order') /\ Of(order') = Of(order) \ {entry}
        BY <1>0, <4>1, <4>2, DistinctSteps, OfDropped
      <4>4. Members' = Members \ {entry} /\ mem'[entry] = "free" /\ \A j \in Entry : j # entry => mem'[j] = mem[j]
        BY <1>0, <3>1, <4>1, MemSteps
      <4> QED
        BY <1>0, <3>1, <3>4, <4>3, <4>4
    <3>5. CASE mem' = [mem EXCEPT ![entry] = "named"] /\ pc' = "display" /\ UNCHANGED <<order, entry>>
      <4>1. Members' = Members \union {entry} /\ mem'[entry] = "named" /\ \A j \in Entry : j # entry => mem'[j] = mem[j]
        BY <1>0, <3>1, <3>5, MemSteps
      <4> QED
        BY <1>0, <3>1, <3>2, <3>5, <4>1
    <3>6. CASE pc = "display" /\ pc' = "item" /\ UNCHANGED <<mem, order>>
      BY <1>0, <1>1, <3>1, <3>6
    <3> QED
      BY <3>3, <3>4, <3>5, <3>6
  <2>5. CASE ResetShuffle \/ EnqueueFails
    <3>1. pc \in {"reshuffle", "failed"} /\ pc' \in {"idle", "folder"} /\ UNCHANGED <<mem, order>>
      BY <2>5 DEF ResetShuffle, EnqueueFails, At, Goto, Return
    <3> QED
      BY <1>0, <1>1, <3>1
  <2> QED
    BY <1>4, <2>1, <2>2, <2>3, <2>4, <2>5 DEF AddStep
<1>5. CASE FolderStep
  <2>1. pc = "folder" /\ UNCHANGED <<mem, order>>
    BY <1>5 DEF FolderStep, SubFolder, OpenAgain, FolderFile, FolderDone, At
  <2>2. \/ pc' \in {"idle", "item", "folder", "pass"}
        \/ pc' = "link" /\ entry' \in Entry /\ mem[entry'] # "named"
    <3>1. CASE FolderFile
      <4> DEFINE f == Head(Top.files)
      <4>1. f \in Entry \union File
        BY <2>1, <3>1, TopChanges DEF FolderFile, Core, CallsOK, TypeOK
      <4>2. OpenFile(f)
        BY <3>1 DEF FolderFile
      <4> QED
        BY <4>1, <4>2 DEF OpenFile, Return, Goto
    <3> QED
      BY <1>5, <2>1, <3>1 DEF FolderStep, SubFolder, OpenAgain, FolderDone, CloseFolder, Goto
  <2> QED
    BY <1>0, <1>1, <2>1, <2>2, NotNamed
<1>6. CASE SortStep
  <2>1. pc \in Sorting /\ mem' = mem /\ pc' \in Sorting \union {"idle", "folder"}
    BY <1>6 DEF SortStep, SortPass, SortCompare, SortSwap1, SortSwap2, SortSwap3, At, Goto, CloseFolder
  <2>2. CASE SortSwap3
    <3>1. PICK i \in 1..(Len(order) - 1) : sort.a = order[i] /\ sort.b = order[i + 1]
      BY <2>2 DEF Core, SortOK, SortSwap3, At, Swapping
    <3>2. order' = Switched(order, i)
      BY <1>0, <2>2, <3>1, ExchangedIsSwitched DEF SortSwap3
    <3>3. Distinct(order') /\ Of(order') = Of(order)
      BY <1>0, <3>2, DistinctSteps, OfSwitched
    <3>4. Members' = Members
      BY <2>1 DEF Members
    <3> QED
      BY <1>0, <2>1, <3>3, <3>4
  <2>3. CASE SortPass \/ SortCompare \/ SortSwap1 \/ SortSwap2
    <3>1. order' = order
      BY <2>3 DEF SortPass, SortCompare, SortSwap1, SortSwap2
    <3> QED
      BY <1>0, <1>1, <2>1, <3>1
  <2> QED
    BY <1>6, <2>2, <2>3 DEF SortStep
<1>7. CASE RemoveStep
  <2>1. CASE Scan
    <3>1. pc = "scan" /\ cursor \in Of(order) \union {Null}
      BY <2>1 DEF Scan, At, Core, CursorOK
    <3>2. UNCHANGED <<mem, order>> /\ (pc' \in {"idle", "scan"} \/ (pc' = "unlink" /\ cursor # Null /\ entry' = cursor))
      BY <2>1, <3>1 DEF Scan, Goto
    <3> QED
      BY <1>0, <1>1, <3>1, <3>2
  <2>2. CASE ScanItem
    <3>1. /\ pc = "items" /\ UNCHANGED <<mem, order>>
          /\ pc' \in {"idle", "items"} \/ (pc' = "unlink" /\ entry' \in Entry /\ mem[entry'] = "named")
      BY <1>0, <2>2 DEF ScanItem, At, Goto
    <3>2. pc' = "unlink" => entry' \in Of(order)
      BY <1>0, <3>1 DEF Members
    <3> QED
      BY <1>0, <1>1, <3>1, <3>2
  <2>3. CASE RemoveLinks
    <3>1. pc = "unlink" /\ pc' = "select" /\ order' = Without(order, entry) /\ UNCHANGED <<mem, entry>>
      BY <2>3 DEF RemoveLinks, At, Goto
    <3>2. PICK k \in 1..Len(order) : entry = order[k] /\ Without(order, entry) = Dropped(order, k)
      BY <3>1, EntryPlace
    <3>3. Distinct(order') /\ Of(order') = Of(order) \ {entry}
      BY <1>0, <3>1, <3>2, DistinctSteps, OfDropped
    <3>4. Members' = Members /\ entry \in Entry /\ Members = Of(order) /\ entry \in Of(order)
      BY <1>0, <3>1, EntryThere DEF Members
    <3> QED
      BY <1>0, <3>1, <3>3, <3>4
  <2>4. CASE RemoveTest \/ RemoveDeselect \/ RemoveShuffle \/ RemoveCount
    <3>1. pc \in Unlinked /\ pc' \in Unlinked /\ UNCHANGED <<mem, order, entry>>
      BY <2>4 DEF RemoveTest, RemoveDeselect, RemoveShuffle, RemoveCount, At, Goto
    <3> QED
      BY <1>0, <1>1, <3>1
  <2>5. CASE RemoveFree
    <3>1. /\ pc = "free" /\ pc' \in {"items", "scan"} /\ UNCHANGED order /\ mem' = [mem EXCEPT ![entry] = "free"]
          /\ entry \in Entry
      BY <2>5, EntryThere DEF RemoveFree, At, Goto
    <3>2. Members' = Members \ {entry} /\ mem'[entry] = "free" /\ \A j \in Entry : j # entry => mem'[j] = mem[j]
      BY <1>0, <3>1, MemSteps
    <3> QED
      BY <1>0, <3>1, <3>2
  <2> QED
    BY <1>7, <2>1, <2>2, <2>3, <2>4, <2>5 DEF RemoveStep
<1>8. CASE ResetStep
  <2>1. PICK k \in 1..(Len(order) + 1) :
          /\ Members = {order[j] : j \in k..Len(order)}
          /\ cursor = IF k <= Len(order) THEN order[k] ELSE Null
    BY <1>0, <1>8 DEF ResetStep, ResetEntry, ResetDone, At
  <2>2. CASE ResetEntry
    <3>1. /\ pc = "clear" /\ pc' = pc /\ cursor # Null /\ UNCHANGED <<order, entry>>
          /\ mem' = [mem EXCEPT ![cursor] = "free"] /\ cursor' = list.next[cursor]
      BY <2>2 DEF ResetEntry, At
    <3>2. k \in 1..Len(order) /\ cursor = order[k] /\ cursor \in Entry
      BY <1>0, <2>1, <3>1, EntriesOf
    <3>3. cursor' = IF k < Len(order) THEN order[k + 1] ELSE Null
      BY <3>1, <3>2, LinkedNow
    <3>4. Members' = Members \ {cursor} /\ mem'[cursor] = "free" /\ \A j \in Entry : j # cursor => mem'[j] = mem[j]
      BY <1>0, <3>1, <3>2, MemSteps, ZenonT(60)
    <3>5. Members \ {order[k]} = {order[j] : j \in (k + 1)..Len(order)}
      <4>1. k..Len(order) = {k} \union ((k + 1)..Len(order))
        BY <3>2
      <4>2. \A j \in (k + 1)..Len(order) : order[j] # order[k]
        BY <1>0, <3>2 DEF Distinct
      <4> QED
        BY <2>1, <4>1, <4>2
    <3>6. k + 1 \in 1..(Len(order) + 1) /\ cursor' = IF k + 1 <= Len(order) THEN order[k + 1] ELSE Null
      BY <1>0, <3>2, <3>3
    <3>7. \E j \in 1..(Len(order) + 1) :
            /\ Members' = {order[x] : x \in j..Len(order)}
            /\ cursor' = IF j <= Len(order) THEN order[j] ELSE Null
      BY <3>2, <3>4, <3>5, <3>6
    <3> QED
      BY <1>0, <3>1, <3>4, <3>7
  <2>3. CASE ResetDone
    <3>1. pc = "clear" /\ pc' = "idle" /\ cursor = Null /\ UNCHANGED <<mem>> /\ order' = <<>>
      BY <2>3 DEF ResetDone, At, Goto
    <3>2. k = Len(order) + 1
      BY <1>0, <2>1, <3>1, EntriesOf, NullAssumption
    <3>3. Members = {}
      BY <1>0, <2>1, <3>2
    <3>4. Of(order') = {} /\ Distinct(order')
      BY <3>1 DEF Of, Distinct
    <3>5. Members' = Members
      BY <3>1 DEF Members
    <3> QED
      BY <1>0, <3>1, <3>3, <3>4, <3>5
  <2> QED
    BY <1>8, <2>2, <2>3 DEF ResetStep
<1> QED
  BY <1>2, <1>3, <1>4, <1>5, <1>6, <1>7, <1>8, NextGroups

LEMMA CursorKept ==
  ASSUME Core, Next
  PROVE  CursorOK'
<1>0. order \in Seq(Entry) /\ Distinct(order) /\ Len(order) \in Nat /\ CursorOK
  BY DEF Core, TypeOK, MembersOK
<1> USE DEF CursorOK, Unlinked, Removing
<1>1. CASE PlayerStep
  BY <1>0, <1>1, PlayerKeeps
<1>2. CASE BeginStep
  <2>1. pc = "idle" /\ order' = order /\ drop = {}
    BY <1>0, <1>2 DEF BeginStep, EnqueueFile, EnqueueFolder, Dequeue, DequeueItems, ResetMusic, At
  <2>2. \/ pc' \in {"idle", "item", "link", "folder", "items", "clear"} /\ drop' = drop
        \/ pc' = "scan" /\ cursor' = list.first
    BY <1>2, <2>1 DEF BeginStep, EnqueueFile, EnqueueFolder, Dequeue, DequeueItems, ResetMusic, OpenFile, Return, Goto,
       ListStep, Core, CallsOK
  <2>3. list.first \in Of(order) \union {Null}
    BY <2>1, LinkedNow DEF Sorting
  <2> QED
    BY <2>1, <2>2, <2>3
<1>3. CASE AddStep \/ FolderStep \/ SortStep
  <2>1. /\ pc \in Adding \union Sorting \union {"folder"} /\ drop' = drop
        /\ pc' \in Adding \union Sorting \union {"folder", "idle"}
    <3>1. CASE AddStep
      BY <3>1 DEF AddStep, NextItem, AddLink, AddCount, AddFile, AddDisplay, Delete, ResetShuffle, EnqueueFails,
         At, Goto, Return, ListStep, Adding
    <3>2. CASE FolderStep
      BY <3>2 DEF FolderStep, SubFolder, OpenAgain, FolderFile, FolderDone, OpenFile, CloseFolder,
         At, Goto, Return, ListStep, Adding, Sorting
    <3>3. CASE SortStep
      BY <3>3 DEF SortStep, SortPass, SortCompare, SortSwap1, SortSwap2, SortSwap3, CloseFolder,
         At, Goto, ListStep, Sorting
    <3> QED
      BY <1>3, <3>1, <3>2, <3>3
  <2> QED
    BY <1>0, <2>1 DEF Adding, Sorting
<1>4. CASE RemoveStep
  <2>1. CASE Scan
    <3>1. pc = "scan" /\ order' = order /\ cursor \in Of(order) \union {Null}
      BY <1>0, <2>1 DEF Scan, At
    <3>2. CASE cursor = Null
      BY <2>1, <3>1, <3>2 DEF Scan, Goto
    <3>3. CASE cursor # Null
      <4>1. PICK k \in 1..Len(order) : cursor = order[k]
        BY <3>1, <3>3, OfIn
      <4>2. cursor' = (IF k < Len(order) THEN order[k + 1] ELSE Null) /\ drop' = drop
            /\ (pc' = "scan" \/ (pc' = "unlink" /\ entry' = cursor))
        BY <2>1, <3>1, <3>3, <4>1, LinkedNow DEF Scan, Goto, Sorting
      <4>3. k < Len(order) => k + 1 \in 1..Len(order) /\ order[k + 1] # order[k]
        BY <1>0, <4>1 DEF Distinct
      <4>4. Null \notin Of(order)
        BY <1>0, OfIn, EntriesOf, NullAssumption
      <4>5. cursor' \in Of(order) \union {Null} /\ cursor' # cursor
        BY <3>3, <4>1, <4>2, <4>3, OfIn
      <4> QED
        BY <3>1, <4>2, <4>5
    <3> QED
      BY <3>2, <3>3
  <2>2. CASE ScanItem
    <3>1. drop = {} /\ drop' = {} /\ pc' \in {"idle", "items", "unlink"}
      BY <1>0, <2>2 DEF ScanItem, At, Goto
    <3> QED
      BY <3>1
  <2>3. CASE RemoveLinks
    <3>1. /\ pc = "unlink" /\ pc' = "select" /\ order' = Without(order, entry)
          /\ UNCHANGED <<drop, cursor, entry>>
      BY <2>3 DEF RemoveLinks, At, Goto, ListStep
    <3>2. PICK k \in 1..Len(order) : entry = order[k] /\ Without(order, entry) = Dropped(order, k)
      BY <3>1, EntryPlace
    <3>3. Of(order') = Of(order) \ {entry}
      BY <1>0, <3>1, <3>2, OfDropped
    <3> QED
      BY <1>0, <3>1, <3>3
  <2>4. CASE RemoveTest \/ RemoveDeselect \/ RemoveShuffle \/ RemoveCount \/ RemoveFree
    <3>1. /\ pc \in Unlinked /\ UNCHANGED <<order, drop, cursor>>
          /\ pc' \in Unlinked \/ (drop = {} /\ pc' = "items") \/ pc' = "scan"
      BY <2>4 DEF RemoveTest, RemoveDeselect, RemoveShuffle, RemoveCount, RemoveFree, At, Goto, ListStep
    <3>2. pc' = "scan" => drop # {}
      BY <2>4 DEF RemoveTest, RemoveDeselect, RemoveShuffle, RemoveCount, RemoveFree, Goto
    <3> QED
      BY <1>0, <3>1, <3>2
  <2> QED
    BY <1>4, <2>1, <2>2, <2>3, <2>4 DEF RemoveStep
<1>5. CASE ResetStep
  <2>1. pc = "clear" /\ pc' \in {"clear", "idle"} /\ drop' = drop
    BY <1>5 DEF ResetStep, ResetEntry, ResetDone, At, Goto
  <2> QED
    BY <1>0, <2>1
<1> QED
  BY <1>1, <1>2, <1>3, <1>4, <1>5, NextGroups

LEMMA CallsKept ==
  ASSUME Core, Next
  PROVE  CallsOK'
<1>0. calls \in Seq(Calls) /\ Len(calls) \in Nat /\ list.numEntries \in Nat /\ order \in Seq(Entry) /\ CallsOK
  BY FieldsOf DEF Core, TypeOK
<1> USE DEF CallsOK, Adding, Sorting
<1>1. ASSUME CloseFolder, pc \in Sorting \union {"folder"} PROVE CallsOK'
  <2>1. calls # <<>>
    BY <1>0, <1>1
  <2>2. /\ Len(calls) >= 1 /\ Len(calls') = Len(calls) - 1 /\ calls' \in Seq(Calls)
        /\ \A k \in 1..(Len(calls) - 1) : calls'[k] = calls[k]
    BY <1>0, <1>1, <2>1, CallsFacts DEF CloseFolder
  <2>3. pc' = (IF Len(calls) = 1 THEN "idle" ELSE "folder")
    BY <1>1 DEF CloseFolder, Goto
  <2>4. Len(calls) = 1 => calls' = <<>>
    BY <2>2
  <2>5. Len(calls) # 1 => calls' # <<>>
    BY <1>0, <2>2
  <2>6. \A k \in 1..(Len(calls') - 1) : calls'[k].start = -1
    BY <1>0, <2>2
  <2> QED
    BY <1>0, <2>3, <2>4, <2>5, <2>6
<1>2. CASE PlayerStep
  BY <1>0, <1>2, PlayerKeeps DEF Top
<1>3. CASE BeginStep
  <2>1. pc = "idle" /\ calls = <<>>
    BY <1>0, <1>3 DEF BeginStep, EnqueueFile, EnqueueFolder, Dequeue, DequeueItems, ResetMusic, At
  <2>2. \/ calls' = <<>> /\ pc' \in {"idle", "item", "link", "scan", "items", "clear"}
        \/ pc' = "folder" /\ \E d \in Folder : calls' = <<Call(d)>>
    BY <1>3, <2>1 DEF BeginStep, EnqueueFile, EnqueueFolder, Dequeue, DequeueItems, ResetMusic, OpenFile, Return, Goto
  <2>3. CASE calls' = <<>> /\ pc' \in {"idle", "item", "link", "scan", "items", "clear"}
    BY <2>3
  <2>4. CASE pc' = "folder" /\ \E d \in Folder : calls' = <<Call(d)>>
    <3>1. calls' # <<>> /\ Len(calls') = 1
      BY <2>4
    <3> QED
      BY <2>4, <3>1
  <2> QED
    BY <2>2, <2>3, <2>4
<1>4. CASE AddStep
  <2>1. CASE NextItem \/ AddLink \/ AddCount \/ AddFile \/ AddDisplay
    <3>1. pc \in Adding /\ pc' \in Adding /\ calls' = calls
      BY <2>1 DEF NextItem, AddLink, AddCount, AddFile, AddDisplay, Delete, At, Goto
    <3> QED
      BY <1>0, <3>1 DEF Top
  <2>2. CASE ResetShuffle
    <3>1. pc \in Adding /\ calls' = calls /\ pc' = IF calls = <<>> THEN "idle" ELSE "folder"
      BY <2>2 DEF ResetShuffle, Return, At, Goto
    <3> QED
      BY <1>0, <3>1 DEF Top
  <2>3. CASE EnqueueFails
    <3>1. /\ pc' = (IF calls = <<>> THEN "idle" ELSE "folder")
          /\ calls' = IF calls = <<>> THEN calls ELSE [calls EXCEPT ![Len(calls)].files = <<>>]
      BY <2>3 DEF EnqueueFails, Return, Goto
    <3>2. CASE calls # <<>>
      <4>1. /\ Len(calls') = Len(calls) /\ Len(calls) >= 1
            /\ \A k \in 1..(Len(calls) - 1) : calls'[k] = calls[k]
        BY <1>0, <3>1, <3>2
      <4>2. calls' # <<>>
        BY <4>1
      <4> QED
        BY <1>0, <3>1, <3>2, <4>1, <4>2
    <3> QED
      BY <1>0, <3>1, <3>2
  <2> QED
    BY <1>4, <2>1, <2>2, <2>3 DEF AddStep
<1>5. CASE FolderStep
  <2>1. pc = "folder" /\ calls # <<>> /\ Len(calls) >= 1 /\ Top \in Calls
    BY <1>0, <1>5, CallsFacts DEF FolderStep, SubFolder, OpenAgain, FolderFile, FolderDone, At
  <2>2. ASSUME NEW c \in Calls, SetTop(c)
        PROVE  /\ calls' # <<>> /\ Len(calls') = Len(calls) /\ Top' = c
               /\ \A k \in 1..(Len(calls') - 1) : calls'[k].start = -1
    <3>1. calls' = [calls EXCEPT ![Len(calls)] = c]
      BY <2>2 DEF SetTop
    <3>2. Len(calls') = Len(calls) /\ Len(calls) \in 1..Len(calls)
      BY <1>0, <2>1, <3>1
    <3>3. calls'[Len(calls')] = c
      BY <1>0, <3>1, <3>2
    <3>4. \A k \in 1..(Len(calls) - 1) : calls'[k] = calls[k]
      BY <1>0, <3>1
    <3>5. calls' # <<>>
      BY <1>0, <2>1, <3>2
    <3> QED
      BY <1>0, <3>2, <3>3, <3>4, <3>5 DEF Top
  <2>3. CASE SubFolder
    <3>1. pc' = "folder" /\ Top.start = -1 /\ Top.subs # <<>>
      BY <2>1, <2>3 DEF SubFolder
    <3>2. CASE SetTop([Top EXCEPT !.subs = <<>>])
      <4>1. [Top EXCEPT !.subs = <<>>] \in Calls
        BY <1>0, <2>1, TopChanges
      <4> QED
        BY <2>2, <3>1, <3>2, <4>1
    <3>3. CASE calls' = Append([calls EXCEPT ![Len(calls)].subs = Tail(@)], Call(Head(Top.subs)))
      <4> DEFINE s == [calls EXCEPT ![Len(calls)].subs = Tail(@)]
                 c == Call(Head(Top.subs))
                 t == [Top EXCEPT !.subs = Tail(@)]
      <4>1. s = [calls EXCEPT ![Len(calls)] = t] /\ t \in Calls /\ c \in Calls
        BY <1>0, <2>1, <3>1, TopChanges, CallTyped
      <4>2. t.start = -1
        BY <2>1, <3>1 DEF Calls
      <4>3. s \in Seq(Calls) /\ Len(s) = Len(calls)
        BY <1>0, <2>1, <4>1, CallsFacts
      <4> HIDE DEF s, t, c
      <4>4. \A k \in 1..Len(calls) : s[k] = IF k = Len(calls) THEN t ELSE calls[k]
        BY <1>0, <4>1
      <4>5. \A k \in 1..Len(calls) : s[k].start = -1
        <5>1. ASSUME NEW k \in 1..Len(calls) PROVE s[k].start = -1
          <6>1. CASE k = Len(calls)
            BY <4>2, <4>4, <6>1
          <6>2. CASE k # Len(calls)
            <7>1. k \in 1..(Len(calls) - 1)
              BY <1>0, <6>2
            <7> QED
              BY <1>0, <4>4, <6>2, <7>1
          <6> QED
            BY <6>1, <6>2
        <5> QED
          BY <5>1
      <4>6. calls' = Append(s, c)
        BY <3>3 DEF s, c
      <4>7. Len(calls') = Len(calls) + 1 /\ calls' # <<>> /\ \A k \in 1..Len(calls) : calls'[k] = s[k]
        BY <1>0, <4>1, <4>3, <4>6
      <4>8. \A k \in 1..(Len(calls') - 1) : calls'[k].start = -1
        BY <1>0, <4>5, <4>7
      <4> QED
        BY <3>1, <4>7, <4>8
    <3> QED
      BY <2>3, <3>2, <3>3 DEF SubFolder
  <2>4. CASE OpenAgain
    <3>1. [Top EXCEPT !.start = list.numEntries, !.kept = order] \in Calls
      BY <1>0, <2>1, TopChanges
    <3>2. pc' = "folder" /\ SetTop([Top EXCEPT !.start = list.numEntries, !.kept = order])
      BY <2>1, <2>4 DEF OpenAgain
    <3> QED
      BY <2>2, <3>1, <3>2
  <2>5. CASE FolderFile
    <3> DEFINE c == [Top EXCEPT !.files = Tail(@)]
    <3>1. c \in Calls /\ SetTop(c) /\ c.start = Top.start /\ Top.start # -1
      BY <1>0, <2>1, <2>5, TopChanges DEF FolderFile, Calls
    <3> HIDE DEF c
    <3>2. calls' # <<>> /\ Top'.start # -1 /\ \A k \in 1..(Len(calls') - 1) : calls'[k].start = -1
      BY <2>2, <3>1
    <3>3. pc' \in {"item", "idle", "link", "folder"} /\ (pc' = "idle" => calls = <<>>)
      BY <2>1, <2>5 DEF FolderFile, OpenFile, Return, Goto
    <3> QED
      BY <2>1, <3>2, <3>3
  <2>6. CASE FolderDone
    <3>1. CloseFolder \/ (pc' = "pass" /\ calls' = calls /\ Top.start # -1)
      BY <2>6 DEF FolderDone, Goto
    <3>2. CASE pc' = "pass" /\ calls' = calls /\ Top.start # -1
      BY <1>0, <2>1, <3>2 DEF Top
    <3> QED
      BY <1>1, <2>1, <3>1, <3>2
  <2> QED
    BY <1>5, <2>3, <2>4, <2>5, <2>6 DEF FolderStep
<1>6. CASE SortStep
  <2>1. pc \in Sorting /\ (CloseFolder \/ (calls' = calls /\ pc' \in Sorting))
    BY <1>6 DEF SortStep, SortPass, SortCompare, SortSwap1, SortSwap2, SortSwap3, At, Goto
  <2> QED
    BY <1>0, <1>1, <2>1 DEF Top
<1>7. CASE RemoveStep \/ ResetStep
  <2>1. pc \in Removing \union {"scan", "items", "clear"} /\ calls' = calls
        /\ pc' \in Removing \union {"scan", "items", "clear", "idle"}
    BY <1>7 DEF RemoveStep, Scan, ScanItem, RemoveLinks, RemoveTest, RemoveDeselect, RemoveShuffle, RemoveCount,
       RemoveFree, ResetStep, ResetEntry, ResetDone, At, Goto, Removing, Unlinked
  <2> QED
    BY <1>0, <2>1 DEF Top, Removing, Unlinked
<1> QED
  BY <1>2, <1>3, <1>4, <1>5, <1>6, <1>7, NextGroups

-----------------------------------------------------------------------------
(* The links.                                                               *)
LEMMA SwapSame ==
  ASSUME NEW L \in Lists, NEW K \in Lists, NEW a \in Entry, NEW b \in Entry,
         NEW before \in Link, NEW after \in Link, L.next = K.next, L.prior = K.prior
  PROVE  /\ Swap1(L, a, b, before).next = Swap1(K, a, b, before).next
         /\ Swap1(L, a, b, before).prior = Swap1(K, a, b, before).prior
         /\ Swap2(L, b, before).next = Swap2(K, b, before).next
         /\ Swap2(L, b, before).prior = Swap2(K, b, before).prior
         /\ Swap3(L, a, b, after).next = Swap3(K, a, b, after).next
         /\ Swap3(L, a, b, after).prior = Swap3(K, a, b, after).prior
<1>1. /\ Swap1(L, a, b, before).next = Swap1(K, a, b, before).next
      /\ Swap1(L, a, b, before).prior = Swap1(K, a, b, before).prior
  BY FieldsOf DEF Swap1
<1>2. /\ Swap2(L, b, before).next = Swap2(K, b, before).next
      /\ Swap2(L, b, before).prior = Swap2(K, b, before).prior
  BY FieldsOf DEF Swap2
<1>3. /\ Swap3(L, a, b, after).next = Swap3(K, a, b, after).next
      /\ Swap3(L, a, b, after).prior = Swap3(K, a, b, after).prior
  BY FieldsOf DEF Swap3
<1> QED
  BY <1>1, <1>2, <1>3

LEMMA EndsFields ==
  ASSUME NEW L \in Lists, sort \in Sorts
  PROVE  /\ SortEnds(L) \in Lists /\ SwapEnds(L) \in Lists
         /\ SortEnds(L).first = sort.head /\ SortEnds(L).last = sort.tail
         /\ SortEnds(L).next = L.next /\ SortEnds(L).prior = L.prior
         /\ SwapEnds(L).first = (IF sort.before = Null THEN sort.b ELSE sort.head)
         /\ SwapEnds(L).last = (IF sort.after = Null THEN sort.a ELSE sort.tail)
         /\ SwapEnds(L).next = L.next /\ SwapEnds(L).prior = L.prior
<1>1. sort.head \in Link /\ sort.tail \in Link /\ sort.a \in Link /\ sort.b \in Link
  BY DEF Sorts
<1>2. \A f \in Link, l \in Link : /\ [L EXCEPT !.first = f, !.last = l] \in Lists
                                 /\ [L EXCEPT !.first = f, !.last = l].first = f
                                 /\ [L EXCEPT !.first = f, !.last = l].last = l
                                 /\ [L EXCEPT !.first = f, !.last = l].next = L.next
                                 /\ [L EXCEPT !.first = f, !.last = l].prior = L.prior
  BY FieldsOf DEF Lists
<1> DEFINE f == IF sort.before = Null THEN sort.b ELSE sort.head
           l == IF sort.after = Null THEN sort.a ELSE sort.tail
<1>3. f \in Link /\ l \in Link /\ SwapEnds(L) = [L EXCEPT !.first = f, !.last = l]
  BY <1>1 DEF SwapEnds
<1> HIDE DEF f, l
<1>4. /\ SwapEnds(L) \in Lists /\ SwapEnds(L).first = f /\ SwapEnds(L).last = l
      /\ SwapEnds(L).next = L.next /\ SwapEnds(L).prior = L.prior
  <2> DEFINE K == [L EXCEPT !.first = f, !.last = l]
  <2>1. K \in Lists /\ K.first = f /\ K.last = l /\ K.next = L.next /\ K.prior = L.prior
    BY <1>2, <1>3
  <2>2. SwapEnds(L) = K
    BY <1>3
  <2> HIDE DEF K
  <2> QED
    BY <2>1, <2>2
<1>5. /\ SortEnds(L) \in Lists /\ SortEnds(L).first = sort.head /\ SortEnds(L).last = sort.tail
      /\ SortEnds(L).next = L.next /\ SortEnds(L).prior = L.prior
  BY <1>1, <1>2, ZenonT(60) DEF SortEnds
<1> QED
  BY <1>4, <1>5 DEF f, l

(* After the first of the three stores the other two complete the exchange.      *)
LEMMA SwapComes ==
  ASSUME Core, pc = "swap1"
  PROVE  Represents(SwapEnds(Swap3(Swap2(Swap1(list, sort.a, sort.b, sort.before), sort.b, sort.before),
                                   sort.a, sort.b, sort.after)),
                    Exchanged(order, sort.a, sort.b))
<1>1. /\ list \in Lists /\ order \in Seq(Entry) /\ Distinct(order) /\ sort \in Sorts
      /\ Represents(SortEnds(list), order) /\ Len(order) \in Nat
  BY DEF Core, TypeOK, MembersOK, Linked
<1>2. PICK i \in 1..(Len(order) - 1) :
        /\ sort.a = order[i] /\ sort.b = order[i + 1] /\ IsAt(i + 2, sort.after)
        /\ sort.before = (IF i > 1 THEN order[i - 1] ELSE Null)
  BY DEF Core, SortOK, Swapping
<1> DEFINE L == SortEnds(list)
           a == order[i]
           b == order[i + 1]
           before == L.prior[a]
           after == L.next[b]
           K == Swap3(Swap2(Swap1(list, a, b, before), b, before), a, b, after)
           M == Swap3(Swap2(Swap1(L, a, b, before), b, before), a, b, after)
           W == [Swap(L, a) EXCEPT !.first = IF i = 1 THEN order[2] ELSE @,
                                   !.last = IF i + 1 = Len(order) THEN a ELSE @]
<1>3. i \in 1..Len(order) /\ i + 1 \in 1..Len(order) /\ a \in Entry /\ b \in Entry
  BY <1>1, EntriesOf
<1>4. L \in Lists /\ L.next = list.next /\ L.prior = list.prior /\ L.first = sort.head /\ L.last = sort.tail
  BY <1>1, EndsFields
<1>5. /\ L.next[a] = b
      /\ before = (IF i > 1 THEN order[i - 1] ELSE Null)
      /\ after = (IF i + 1 < Len(order) THEN order[(i + 1) + 1] ELSE Null)
  BY <1>1, <1>3, <1>4, LinksLead
<1>6. /\ sort.a = a /\ sort.b = b /\ before = sort.before /\ after = sort.after
      /\ before = Null <=> i = 1
      /\ after = Null <=> i + 1 = Len(order)
  <2>1. i > 1 => order[i - 1] # Null
    BY <1>1, <1>3, EntriesOf
  <2>2. i + 1 < Len(order) => order[i + 2] # Null
    BY <1>1, <1>3, EntriesOf
  <2> QED
    BY <1>1, <1>2, <1>3, <1>5, <2>1, <2>2 DEF IsAt
<1>7. before \in Link /\ after \in Link
  BY <1>3, <1>4, FieldsOf
<1>8. M = Swap(L, a)
  BY <1>5 DEF Swap
<1> HIDE DEF L
<1>9. /\ Swap1(L, a, b, before) \in Lists /\ Swap1(list, a, b, before) \in Lists
      /\ Swap2(Swap1(L, a, b, before), b, before) \in Lists
      /\ Swap2(Swap1(list, a, b, before), b, before) \in Lists
      /\ M \in Lists /\ K \in Lists
  BY <1>1, <1>3, <1>4, <1>7, SwapTypes
<1> HIDE DEF a, b, before, after
<1>10. K.next = M.next /\ K.prior = M.prior
  <2>1. /\ Swap1(L, a, b, before).next = Swap1(list, a, b, before).next
        /\ Swap1(L, a, b, before).prior = Swap1(list, a, b, before).prior
    BY <1>1, <1>3, <1>4, <1>7, SwapSame
  <2> DEFINE S == Swap1(L, a, b, before)
             T == Swap1(list, a, b, before)
  <2> HIDE DEF S, T
  <2>2. /\ S \in Lists /\ T \in Lists /\ S.next = T.next /\ S.prior = T.prior
    BY <1>9, <2>1 DEF S, T
  <2>3. /\ Swap2(S, b, before).next = Swap2(T, b, before).next
        /\ Swap2(S, b, before).prior = Swap2(T, b, before).prior
        /\ Swap2(S, b, before) \in Lists /\ Swap2(T, b, before) \in Lists
    BY <1>3, <1>7, <2>2, SwapSame, SwapTypes
  <2>4. /\ Swap3(Swap2(S, b, before), a, b, after).next = Swap3(Swap2(T, b, before), a, b, after).next
        /\ Swap3(Swap2(S, b, before), a, b, after).prior = Swap3(Swap2(T, b, before), a, b, after).prior
    BY <1>3, <1>7, <2>3, SwapSame
  <2> QED
    BY <2>4 DEF S, T
<1>11. Represents(W, Switched(order, i))
  BY <1>1, <1>4, SwapSwitches DEF a, L
<1>12. M.first = L.first /\ M.last = L.last
  BY <1>4, FieldsOf DEF Swap1, Swap2, Swap3
<1>13. /\ W.first = (IF i = 1 THEN order[2] ELSE L.first)
       /\ W.last = (IF i + 1 = Len(order) THEN a ELSE L.last)
       /\ W.next = M.next /\ W.prior = M.prior
  <2> HIDE DEF M
  <2>1. W = [M EXCEPT !.first = IF i = 1 THEN order[2] ELSE @, !.last = IF i + 1 = Len(order) THEN a ELSE @]
    BY <1>8
  <2> HIDE DEF W
  <2> QED
    BY <1>9, <1>12, <2>1, FieldsOf
<1>14. /\ SwapEnds(K).first = (IF sort.before = Null THEN sort.b ELSE sort.head)
       /\ SwapEnds(K).last = (IF sort.after = Null THEN sort.a ELSE sort.tail)
       /\ SwapEnds(K).next = K.next /\ SwapEnds(K).prior = K.prior
  BY <1>1, <1>9, EndsFields
<1>15. i = 1 => b = order[2]
  BY DEF b
<1> HIDE DEF K, M, W
<1>16. Represents(SwapEnds(K), Switched(order, i))
  <2>1. SwapEnds(K).first = W.first
    BY <1>4, <1>6, <1>13, <1>14, <1>15
  <2>2. SwapEnds(K).last = W.last
    BY <1>4, <1>6, <1>13, <1>14
  <2>3. SwapEnds(K).next = W.next /\ SwapEnds(K).prior = W.prior
    BY <1>10, <1>13, <1>14
  <2> QED
    BY <1>11, <2>1, <2>2, <2>3, SameLinks
<1>17. Switched(order, i) = Exchanged(order, a, b)
  BY <1>1, ExchangedIsSwitched DEF a, b
<1> QED
  BY <1>6, <1>16, <1>17 DEF K

LEMMA DeleteLinks ==
  ASSUME Core, pc \in {"name", "display"}
  PROVE  Represents(Freed(Unlink(list, entry), entry), Without(order, entry))
<1>1. list \in Lists /\ order \in Seq(Entry) /\ Distinct(order) /\ Represents(list, order) /\ entry \in Entry
  BY EntryThere DEF Core, TypeOK, MembersOK, Linked, Sorting
<1>2. PICK k \in 1..Len(order) : entry = order[k] /\ Without(order, entry) = Dropped(order, k)
  BY EntryPlace
<1>3. Represents(Unlink(list, entry), Dropped(order, k))
  BY <1>1, <1>2, UnlinkDrops
<1>4. entry \notin Of(Dropped(order, k)) /\ Dropped(order, k) \in Seq(Entry) /\ Unlink(list, entry) \in Lists
  BY <1>1, <1>2, OfDropped, DroppedFacts, OperationTypes
<1> QED
  BY <1>1, <1>2, <1>3, <1>4, FreedKeeps

LEMMA LinkedKept ==
  ASSUME Core, Next
  PROVE  Linked'
<1>0. list \in Lists /\ order \in Seq(Entry) /\ Distinct(order) /\ sort \in Sorts /\ Len(order) \in Nat /\ Linked
  BY DEF Core, TypeOK, MembersOK
<1> USE DEF Linked, Sorting
<1>1. ASSUME pc \notin Sorting \union {"count"}, pc' \notin Sorting \union {"count"}, UNCHANGED <<list, order>>
      PROVE  Linked'
  BY <1>0, <1>1
<1>2. CASE PlayerStep
  <2>1. CASE pc \in {"idle", "load"}
    BY <1>1, <1>2, <2>1, PlayerKeeps
  <2>2. CASE pc \notin {"idle", "load"}
    BY <1>0, <1>2, <2>2, PlayerKeeps DEF SortEnds, SwapEnds
  <2> QED
    BY <2>1, <2>2
<1>3. CASE BeginStep
  <2>1. pc = "idle" /\ UNCHANGED <<list, order>> /\ pc' \notin Sorting \union {"count"}
    BY <1>3 DEF BeginStep, EnqueueFile, EnqueueFolder, Dequeue, DequeueItems, ResetMusic, At, OpenFile, Return, Goto
  <2> QED
    BY <1>1, <2>1
<1>4. CASE AddStep
  <2>1. CASE AddLink
    <3>1. /\ pc = "link" /\ UNCHANGED <<order, entry>>
          /\ \/ list' = LinkNew(list, entry) /\ pc' = "count"
             \/ list' = list /\ pc' = "failed"
      BY <2>1 DEF AddLink, At, Goto
    <3>2. entry \in Entry /\ entry \notin Of(order)
      BY <1>0, <3>1 DEF Core, MembersOK, Unlinked, Members
    <3>3. \A k \in 1..Len(order) : order[k] # entry
      BY <3>2, OfIn
    <3>4. Represents(CountNew(LinkNew(list, entry), entry), Append(order, entry))
      BY <1>0, <3>1, <3>2, <3>3, AddEntryAppends DEF AddEntry
    <3> QED
      BY <1>0, <3>1, <3>4
  <2>2. CASE AddCount
    <3>1. /\ pc = "count" /\ pc' = "name" /\ list' = CountNew(list, entry) /\ order' = Append(order, entry)
      BY <2>2 DEF AddCount, At, Goto
    <3> QED
      BY <1>0, <3>1
  <2>3. CASE AddFile \/ AddDisplay
    <3>1. /\ pc \in {"name", "display"} /\ pc' \notin Sorting \union {"count"}
          /\ \/ UNCHANGED <<list, order>>
             \/ list' = Freed(Unlink(list, entry), entry) /\ order' = Without(order, entry)
      BY <2>3 DEF AddFile, AddDisplay, Delete, At, Goto
    <3>2. Represents(list', order')
      BY <1>0, <3>1, DeleteLinks
    <3> QED
      BY <3>1, <3>2
  <2>4. CASE NextItem \/ ResetShuffle \/ EnqueueFails
    <3>1. pc \notin Sorting \union {"count"} /\ pc' \notin Sorting \union {"count"} /\ UNCHANGED <<list, order>>
      BY <2>4 DEF NextItem, ResetShuffle, EnqueueFails, At, Goto, Return
    <3> QED
      BY <1>1, <3>1
  <2> QED
    BY <1>4, <2>1, <2>2, <2>3, <2>4 DEF AddStep
<1>5. CASE FolderStep
  <2>1. pc = "folder" /\ UNCHANGED <<list, order>>
    BY <1>5 DEF FolderStep, SubFolder, OpenAgain, FolderFile, FolderDone, At
  <2>2. \/ pc' \notin Sorting \union {"count"}
        \/ pc' = "pass" /\ sort' = [NoSort EXCEPT !.head = list.first, !.tail = list.last]
    BY <1>5, <2>1 DEF FolderStep, SubFolder, OpenAgain, FolderFile, FolderDone, OpenFile, CloseFolder, Return, Goto
  <2>3. CASE pc' = "pass" /\ sort' = [NoSort EXCEPT !.head = list.first, !.tail = list.last]
    <3>1. sort'.head = list.first /\ sort'.tail = list.last
      BY <2>3 DEF NoSort
    <3>2. Represents(list, order)
      BY <1>0, <2>1
    <3> DEFINE K == [list EXCEPT !.first = list.first, !.last = list.last]
    <3>3. K.first = list.first /\ K.last = list.last /\ K.next = list.next /\ K.prior = list.prior
      BY <1>0, FieldsOf
    <3> HIDE DEF K
    <3>4. Represents(K, order)
      BY <3>2, <3>3, SameLinks
    <3>5. SortEnds(list)' = K
      BY <2>1, <3>1 DEF SortEnds, K
    <3> QED
      BY <2>1, <2>3, <3>2, <3>4, <3>5
  <2> QED
    BY <1>1, <2>1, <2>2, <2>3
<1>6. CASE SortStep
  <2>1. CASE SortPass
    <3>1. pc = "pass" /\ order' = order /\ Represents(SortEnds(list), order)
      BY <1>0, <2>1 DEF SortPass, At, ListStep
    <3>2. CASE pc' = "compare"
      <4>1. /\ sort.head # Null /\ sort' = [sort EXCEPT !.a = sort.head] /\ list' = list
        BY <2>1, <3>2 DEF SortPass, CloseFolder, Goto
      <4>2. sort'.head = sort.head /\ sort'.tail = sort.tail
        BY <1>0, <4>1 DEF Sorts
      <4>3. SortEnds(list)' = SortEnds(list)
        BY <4>1, <4>2 DEF SortEnds
      <4> QED
        BY <3>1, <3>2, <4>3
    <3>3. CASE pc' # "compare"
      <4>1. /\ pc' \in {"idle", "folder"}
            /\ list' = IF sort.head = Null THEN list ELSE SortEnds(list)
        BY <2>1, <3>3 DEF SortPass, CloseFolder, Goto, SortEnds
      <4> QED
        BY <1>0, <3>1, <4>1
    <3> QED
      BY <3>2, <3>3
  <2>2. CASE SortCompare
    <3>1. pc = "compare" /\ UNCHANGED <<list, order>> /\ Represents(SortEnds(list), order)
          /\ pc' \in {"pass", "compare", "swap1"}
      BY <1>0, <2>2 DEF SortCompare, At, Goto
    <3>2. sort'.head = sort.head /\ sort'.tail = sort.tail
      BY <1>0, <2>2 DEF SortCompare, Onward, NoSort, Sorts
    <3>3. SortEnds(list)' = SortEnds(list)
      BY <3>1, <3>2 DEF SortEnds
    <3>4. sort.head # Null
      <4>1. Len(order) > 0
        BY <1>0, <3>1 DEF Core, SortOK
      <4>2. sort.head = order[1]
        BY <1>0, <3>1, <4>1, LinksLead, EndsFields
      <4> QED
        BY <1>0, <4>1, <4>2, EntriesOf
    <3> QED
      BY <3>1, <3>2, <3>3, <3>4
  <2>3. CASE SortSwap1
    <3>1. /\ pc = "swap1" /\ pc' = "swap2" /\ UNCHANGED <<order, sort>>
          /\ list' = Swap1(list, sort.a, sort.b, sort.before)
      BY <2>3 DEF SortSwap1, At, Goto
    <3> QED
      BY <3>1, SwapComes DEF SwapEnds
  <2>4. CASE SortSwap2
    <3>1. /\ pc = "swap2" /\ pc' = "swap3" /\ UNCHANGED <<order, sort>>
          /\ list' = Swap2(list, sort.b, sort.before)
      BY <2>4 DEF SortSwap2, At, Goto
    <3> QED
      BY <1>0, <3>1 DEF SwapEnds
  <2>5. CASE SortSwap3
    <3>1. /\ pc = "swap3" /\ pc' = "compare" /\ order' = Exchanged(order, sort.a, sort.b)
          /\ list' = Swap3(list, sort.a, sort.b, sort.after)
          /\ sort' = [Onward(sort.a, sort.after) EXCEPT
                        !.head = IF sort.before = Null THEN sort.b ELSE @,
                        !.tail = IF sort.after = Null THEN sort.a ELSE @]
      BY <2>5 DEF SortSwap3, At, Goto
    <3>2. /\ sort'.head = (IF sort.before = Null THEN sort.b ELSE sort.head)
          /\ sort'.tail = (IF sort.after = Null THEN sort.a ELSE sort.tail)
      BY <3>1 DEF Onward, NoSort
    <3>3. SortEnds(list)' = SwapEnds(Swap3(list, sort.a, sort.b, sort.after))
      BY <3>1, <3>2 DEF SortEnds, SwapEnds
    <3> QED
      BY <1>0, <3>1, <3>3
  <2> QED
    BY <1>6, <2>1, <2>2, <2>3, <2>4, <2>5 DEF SortStep
<1>7. CASE RemoveStep
  <2>1. CASE RemoveLinks
    <3>1. pc = "unlink" /\ pc' = "select" /\ list' = Unlink(list, entry) /\ order' = Without(order, entry)
      BY <2>1 DEF RemoveLinks, At, Goto
    <3>2. PICK k \in 1..Len(order) : entry = order[k] /\ Without(order, entry) = Dropped(order, k)
      BY <3>1, EntryPlace
    <3>3. Represents(list', order')
      BY <1>0, <3>1, <3>2, UnlinkDrops
    <3> QED
      BY <3>1, <3>3
  <2>2. CASE RemoveCount
    <3>1. pc = "uncount" /\ pc' = "free" /\ order' = order /\ Represents(list, order)
      BY <1>0, <2>2 DEF RemoveCount, At, Goto
    <3>2. /\ list'.first = list.first /\ list'.last = list.last /\ list'.next = list.next
          /\ list'.prior = list.prior
      BY <1>0, <2>2, FieldsOf DEF RemoveCount
    <3>3. Represents(list', order')
      BY <3>1, <3>2, SameLinks
    <3> QED
      BY <3>1, <3>3
  <2>3. CASE RemoveFree
    <3>1. /\ pc = "free" /\ pc' \in {"items", "scan"} /\ order' = order /\ Represents(list, order)
          /\ list' = Freed(list, entry)
      BY <1>0, <2>3 DEF RemoveFree, At, Goto
    <3>2. entry \in Entry /\ entry \notin Of(order)
      BY <3>1 DEF Core, MembersOK, Unlinked
    <3>3. Represents(list', order')
      BY <1>0, <3>1, <3>2, FreedKeeps
    <3> QED
      BY <3>1, <3>3
  <2>4. CASE Scan \/ ScanItem \/ RemoveTest \/ RemoveDeselect \/ RemoveShuffle
    <3>1. pc \notin Sorting \union {"count"} /\ pc' \notin Sorting \union {"count"} /\ UNCHANGED <<list, order>>
      BY <2>4 DEF Scan, ScanItem, RemoveTest, RemoveDeselect, RemoveShuffle, At, Goto
    <3> QED
      BY <1>1, <3>1
  <2> QED
    BY <1>7, <2>1, <2>2, <2>3, <2>4 DEF RemoveStep
<1>8. CASE ResetStep
  <2>1. CASE ResetEntry
    <3>1. pc = "clear" /\ UNCHANGED <<pc, list, order>>
      BY <2>1 DEF ResetEntry, At
    <3> QED
      BY <1>1, <3>1
  <2>2. CASE ResetDone
    <3>1. pc' = "idle" /\ list' = EmptyList /\ order' = <<>>
      BY <2>2 DEF ResetDone, Goto
    <3>2. Represents(EmptyList, <<>>)
      BY DEF EmptyList, Represents
    <3> QED
      BY <3>1, <3>2
  <2> QED
    BY <1>8, <2>1, <2>2 DEF ResetStep
<1> QED
  BY <1>2, <1>3, <1>4, <1>5, <1>6, <1>7, <1>8, NextGroups

-----------------------------------------------------------------------------
(* The sorted order.  As long as nothing has been dequeued, the entries' numbers *)
(* grow along the list, and tell a folder's own songs from those before them.   *)
PosOK == Undequeued =>
  /\ \A x \in 1..Len(order) : list.pos[order[x]] < list.numEntries
  /\ \A x, y \in 1..Len(order) : x < y => list.pos[order[x]] < list.pos[order[y]]

KeptOK == calls # <<>> /\ Top.start # -1 /\ Undequeued =>
  /\ Outside <= Len(order) /\ Top.start <= list.numEntries
  /\ pc \in {"name", "display"} => Outside < Len(order)
  /\ \A x \in 1..Outside : order[x] = Top.kept[x]
  /\ \A x \in 1..Len(order) : list.pos[order[x]] >= Top.start <=> x > Outside

(* What the operations do to the numbers.                                   *)
LEMMA NumbersOf ==
  ASSUME NEW L \in Lists, NEW n \in Entry
  PROVE  /\ LinkNew(L, n).pos = L.pos /\ LinkNew(L, n).numEntries = L.numEntries
         /\ CountNew(L, n).pos = [L.pos EXCEPT ![n] = L.numEntries]
         /\ CountNew(L, n).numEntries = L.numEntries + 1
         /\ Unlink(L, n).pos = L.pos /\ Unlink(L, n).numEntries = L.numEntries
         /\ Freed(L, n).pos = [L.pos EXCEPT ![n] = 0] /\ Freed(L, n).numEntries = L.numEntries
<1>1. LinkNew(L, n).pos = L.pos /\ LinkNew(L, n).numEntries = L.numEntries
  BY FieldsOf DEF LinkNew
<1>2. /\ CountNew(L, n).pos = [L.pos EXCEPT ![n] = L.numEntries]
      /\ CountNew(L, n).numEntries = L.numEntries + 1
  BY FieldsOf DEF CountNew
<1>3. Unlink(L, n).pos = L.pos /\ Unlink(L, n).numEntries = L.numEntries
  BY FieldsOf DEF Unlink
<1>4. Freed(L, n).pos = [L.pos EXCEPT ![n] = 0] /\ Freed(L, n).numEntries = L.numEntries
  BY FieldsOf DEF Freed
<1> QED
  BY <1>1, <1>2, <1>3, <1>4

(* What a step does to the order and the numbers, if nothing has been dequeued    *)
(* after it.                                                                *)
Stays ==
  /\ Undequeued /\ order' = order /\ list'.numEntries = list.numEntries
  /\ \A x \in 1..Len(order) : list'.pos[order[x]] = list.pos[order[x]]

Grows ==
  /\ Undequeued /\ pc = "count" /\ calls' = calls /\ entry \in Entry
  /\ order' = Append(order, entry) /\ list'.numEntries = list.numEntries + 1
  /\ list'.pos[entry] = list.numEntries
  /\ \A x \in 1..Len(order) : list'.pos[order[x]] = list.pos[order[x]]

Shrinks ==
  /\ Undequeued /\ calls' = calls /\ list'.numEntries = list.numEntries
  /\ \E k \in 1..Len(order) :
       /\ order' = Dropped(order, k)
       /\ \A x \in 1..Len(order) : x # k => list'.pos[order[x]] = list.pos[order[x]]
       /\ calls = <<>> \/ (pc \in {"name", "display"} /\ k = Len(order))
  /\ pc' \in {"failed", "select"}

Switches ==
  /\ Undequeued /\ calls' = calls /\ list'.numEntries = list.numEntries /\ SortSwap3
  /\ \E i \in 1..(Len(order) - 1) :
       /\ i > Outside /\ order' = Switched(order, i)
       /\ \A x \in 1..Len(order) : list'.pos[order'[x]] = list.pos[order[x]]

Clears == order' = <<>> /\ calls' = <<>>

LEMMA Unfreed ==
  ASSUME NEW L \in Lists, NEW s \in Seq(Entry), NEW n \in Entry, NEW k \in 1..Len(s), s[k] # n
  PROVE  [L.pos EXCEPT ![n] = 0][s[k]] = L.pos[s[k]]
BY EntriesOf, FieldsOf

LEMMA OrderSteps ==
  ASSUME Core, Next, Undequeued'
  PROVE  Stays \/ Grows \/ Shrinks \/ Switches \/ Clears
<1>0. /\ list \in Lists /\ order \in Seq(Entry) /\ Distinct(order) /\ sort \in Sorts /\ Len(order) \in Nat
      /\ list.pos \in [Entry -> Nat] /\ list.numEntries \in Nat
      /\ \A x \in 1..Len(order) : order[x] \in Entry
  BY EntriesOf, FieldsOf DEF Core, TypeOK, MembersOK
<1>1. ASSUME UNCHANGED <<list, order, past>> PROVE Stays
  BY <1>1 DEF Stays, Undequeued
<1>2. CASE PlayerStep
  BY <1>1, <1>2, PlayerKeeps
<1>3. CASE BeginStep \/ FolderStep
  <2>1. UNCHANGED <<list, order, past>>
    BY <1>3 DEF BeginStep, EnqueueFile, EnqueueFolder, Dequeue, DequeueItems, ResetMusic, ListStep,
       FolderStep, SubFolder, OpenAgain, FolderFile, FolderDone
  <2> QED
    BY <1>1, <2>1
<1>4. CASE AddStep
  <2>1. CASE AddLink
    <3>1. entry \in Entry /\ UNCHANGED <<order, past>> /\ (list' = list \/ list' = LinkNew(list, entry))
      BY <2>1, EntryThere DEF AddLink, At, ListStep
    <3>2. LinkNew(list, entry).pos = list.pos /\ LinkNew(list, entry).numEntries = list.numEntries
      BY <1>0, <3>1, NumbersOf
    <3>3. list'.pos = list.pos /\ list'.numEntries = list.numEntries
      BY <3>1, <3>2
    <3> QED
      BY <3>1, <3>3 DEF Stays, Undequeued
  <2>2. CASE AddCount
    <3>1. /\ pc = "count" /\ entry \in Entry /\ UNCHANGED <<calls, past>>
          /\ list' = CountNew(list, entry) /\ order' = Append(order, entry) /\ entry \notin Of(order)
      BY <2>2, EntryThere DEF AddCount, At, ListStep, Core, MembersOK
    <3>2. list'.numEntries = list.numEntries + 1 /\ list'.pos = [list.pos EXCEPT ![entry] = list.numEntries]
      BY <1>0, <3>1, NumbersOf
    <3>3. \A x \in 1..Len(order) : order[x] # entry
      BY <3>1, OfIn
    <3>4. /\ list'.pos[entry] = list.numEntries
          /\ \A x \in 1..Len(order) : list'.pos[order[x]] = list.pos[order[x]]
      BY <1>0, <3>1, <3>2, <3>3
    <3> QED
      BY <3>1, <3>2, <3>4 DEF Grows, Undequeued
  <2>3. CASE AddFile \/ AddDisplay
    <3>1. /\ pc \in {"name", "display"} /\ entry \in Entry /\ UNCHANGED <<past, calls>>
          /\ \/ UNCHANGED <<list, order>>
             \/ /\ list' = Freed(Unlink(list, entry), entry) /\ order' = Without(order, entry)
                /\ pc' = "failed"
      BY <2>3, EntryThere DEF AddFile, AddDisplay, Delete, At, Goto, ListStep
    <3>2. CASE list' = Freed(Unlink(list, entry), entry) /\ order' = Without(order, entry) /\ pc' = "failed"
      <4>1. PICK k \in 1..Len(order) : entry = order[k] /\ Without(order, entry) = Dropped(order, k)
        BY <3>1, EntryPlace
      <4>2. k = Len(order)
        BY <1>0, <3>1, <4>1 DEF Core, MembersOK, Distinct
      <4>3. Unlink(list, entry) \in Lists
        BY <1>0, <3>1, OperationTypes
      <4> DEFINE U == Unlink(list, entry)
      <4>6. U.pos = list.pos /\ U.numEntries = list.numEntries
        BY <1>0, <3>1, NumbersOf
      <4> HIDE DEF U
      <4>7. Freed(U, entry).pos = [U.pos EXCEPT ![entry] = 0] /\ Freed(U, entry).numEntries = U.numEntries
        BY <3>1, <4>3, NumbersOf DEF U
      <4>4. /\ list'.pos = [list.pos EXCEPT ![entry] = 0]
            /\ list'.numEntries = list.numEntries
        BY <3>2, <4>6, <4>7 DEF U
      <4>5. \A x \in 1..Len(order) : x # k => list'.pos[order[x]] = list.pos[order[x]]
        BY <1>0, <4>1, <4>4, Unfreed DEF Distinct
      <4> QED
        BY <3>1, <3>2, <4>1, <4>2, <4>4, <4>5 DEF Shrinks, Undequeued
    <3> QED
      BY <1>1, <3>1, <3>2
  <2>4. CASE NextItem \/ ResetShuffle
    <3>1. UNCHANGED <<list, order, past>>
      BY <2>4 DEF NextItem, ResetShuffle, ListStep
    <3> QED
      BY <1>1, <3>1
  <2>5. CASE EnqueueFails
    <3>1. UNCHANGED <<list, order>> /\ past' = past \union {"failed"}
      BY <2>5 DEF EnqueueFails
    <3> QED
      BY <3>1 DEF Stays, Undequeued
  <2> QED
    BY <1>4, <2>1, <2>2, <2>3, <2>4, <2>5 DEF AddStep
<1>5. CASE SortStep
  <2>1. CASE SortPass
    <3>1. UNCHANGED <<order, past>> /\ (list' = list \/ list' = [list EXCEPT !.first = sort.head, !.last = sort.tail])
      BY <2>1 DEF SortPass, ListStep
    <3>2. list'.pos = list.pos /\ list'.numEntries = list.numEntries
      BY <1>0, <3>1, FieldsOf
    <3> QED
      BY <3>1, <3>2 DEF Stays, Undequeued
  <2>2. CASE SortCompare
    BY <1>1, <2>2 DEF SortCompare, ListStep
  <2>3. CASE SortSwap1 \/ SortSwap2
    <3>1. sort.a \in Entry /\ sort.b \in Entry /\ sort.before \in Link /\ sort.after \in Link
      BY <2>3, SortFacts DEF SortSwap1, SortSwap2, At, Swapping
    <3>2. /\ UNCHANGED <<order, past>>
          /\ list' = Swap1(list, sort.a, sort.b, sort.before) \/ list' = Swap2(list, sort.b, sort.before)
      BY <2>3 DEF SortSwap1, SortSwap2, ListStep
    <3>4. /\ Swap1(list, sort.a, sort.b, sort.before).pos = list.pos
          /\ Swap1(list, sort.a, sort.b, sort.before).numEntries = list.numEntries
          /\ Swap2(list, sort.b, sort.before).pos = list.pos
          /\ Swap2(list, sort.b, sort.before).numEntries = list.numEntries
      <4>1. list \in Lists
        BY <1>0
      <4> QED
        BY <4>1, FieldsOf DEF Swap1, Swap2
    <3>3. list'.pos = list.pos /\ list'.numEntries = list.numEntries
      BY <3>2, <3>4
    <3> QED
      BY <3>2, <3>3 DEF Stays, Undequeued
  <2>4. CASE SortSwap3
    <3>1. sort.a \in Entry /\ sort.b \in Entry /\ sort.before \in Link /\ sort.after \in Link /\ Undequeued
      BY <2>4, SortFacts DEF SortSwap3, At, Swapping, ListStep, Undequeued
    <3>2. PICK i \in 1..(Len(order) - 1) : sort.a = order[i] /\ sort.b = order[i + 1] /\ i > Outside
      BY <2>4, <3>1 DEF Core, SortOK, SortSwap3, At, Swapping
    <3>3. order' = Switched(order, i) /\ UNCHANGED calls
      BY <1>0, <2>4, <3>2, ExchangedIsSwitched DEF SortSwap3, ListStep
    <3>7. list' = Swap3(list, sort.a, sort.b, sort.after)
      BY <2>4 DEF SortSwap3
    <3>8. /\ Swap3(list, sort.a, sort.b, sort.after).pos
               = [list.pos EXCEPT ![sort.a] = list.pos[sort.b], ![sort.b] = list.pos[sort.a]]
          /\ Swap3(list, sort.a, sort.b, sort.after).numEntries = list.numEntries
      <4>1. list \in Lists
        BY <1>0
      <4> QED
        BY <4>1, FieldsOf DEF Swap3
    <3>4. /\ list'.pos = [list.pos EXCEPT ![sort.a] = list.pos[sort.b], ![sort.b] = list.pos[sort.a]]
          /\ list'.numEntries = list.numEntries
      BY <3>7, <3>8
    <3>5. i \in 1..Len(order) /\ i + 1 \in 1..Len(order)
      BY <1>0
    <3>6. ASSUME NEW x \in 1..Len(order) PROVE list'.pos[order'[x]] = list.pos[order[x]]
      <4>1. CASE x = i
        <5>1. order'[x] = sort.b /\ sort.a # sort.b
          BY <1>0, <3>2, <3>3, <3>5, <4>1, SwitchedFacts, SMTT(30) DEF Distinct
        <5> QED
          BY <1>0, <3>1, <3>2, <3>4, <4>1, <5>1
      <4>2. CASE x = i + 1
        <5>1. order'[x] = sort.a /\ sort.a # sort.b
          BY <1>0, <3>2, <3>3, <3>5, <4>2, SwitchedFacts DEF Distinct
        <5> QED
          BY <1>0, <3>1, <3>2, <3>4, <4>2, <5>1
      <4>3. CASE x # i /\ x # i + 1
        <5>1. order'[x] = order[x]
          BY <1>0, <3>3, <4>3, SwitchedFacts
        <5>2. order[x] # sort.a /\ order[x] # sort.b
          BY <1>0, <3>2, <3>5, <4>3 DEF Distinct
        <5> QED
          BY <1>0, <3>1, <3>4, <5>1, <5>2
      <4> QED
        BY <4>1, <4>2, <4>3
    <3> QED
      BY <2>4, <3>1, <3>2, <3>3, <3>4, <3>6 DEF Switches
  <2> QED
    BY <1>5, <2>1, <2>2, <2>3, <2>4 DEF SortStep
<1>6. CASE RemoveStep
  <2>1. CASE RemoveLinks
    <3>1. /\ pc = "unlink" /\ pc' = "select" /\ entry \in Entry /\ UNCHANGED <<past, calls>>
          /\ list' = Unlink(list, entry) /\ order' = Without(order, entry)
      BY <2>1, EntryThere DEF RemoveLinks, At, Goto, ListStep, Removing
    <3>2. PICK k \in 1..Len(order) : Without(order, entry) = Dropped(order, k)
      BY <3>1, EntryPlace
    <3>3. list'.pos = list.pos /\ list'.numEntries = list.numEntries
      BY <1>0, <3>1, NumbersOf
    <3>4. calls = <<>>
      BY <3>1 DEF Core, CallsOK, Sorting, Adding
    <3> QED
      BY <3>1, <3>2, <3>3, <3>4 DEF Shrinks, Undequeued
  <2>2. CASE RemoveCount
    BY <2>2 DEF RemoveCount, Undequeued
  <2>3. CASE RemoveFree
    <3>1. /\ entry \in Entry /\ entry \notin Of(order) /\ UNCHANGED <<past, order>> /\ list' = Freed(list, entry)
      BY <2>3 DEF RemoveFree, At, ListStep, Core, MembersOK, Unlinked
    <3>2. list'.pos = [list.pos EXCEPT ![entry] = 0] /\ list'.numEntries = list.numEntries
      BY <1>0, <3>1, NumbersOf
    <3>3. \A x \in 1..Len(order) : order[x] # entry
      BY <3>1, OfIn
    <3>4. \A x \in 1..Len(order) : list'.pos[order[x]] = list.pos[order[x]]
      BY <1>0, <3>1, <3>2, <3>3, Unfreed
    <3> QED
      BY <3>1, <3>2, <3>4 DEF Stays, Undequeued
  <2>4. CASE Scan \/ ScanItem \/ RemoveTest \/ RemoveDeselect \/ RemoveShuffle
    <3>1. UNCHANGED <<list, order, past>>
      BY <2>4 DEF Scan, ScanItem, RemoveTest, RemoveDeselect, RemoveShuffle, ListStep
    <3> QED
      BY <1>1, <3>1
  <2> QED
    BY <1>6, <2>1, <2>2, <2>3, <2>4 DEF RemoveStep
<1>7. CASE ResetStep
  <2>1. CASE ResetEntry
    BY <1>1, <2>1 DEF ResetEntry
  <2>2. CASE ResetDone
    BY <2>2 DEF ResetDone, At, Clears, Core, CallsOK, Sorting, Adding
  <2> QED
    BY <1>7, <2>1, <2>2 DEF ResetStep
<1> QED
  BY <1>2, <1>3, <1>4, <1>5, <1>6, <1>7, NextGroups

LEMMA PosKept ==
  ASSUME Core, PosOK, Next
  PROVE  PosOK'
<1> SUFFICES ASSUME Undequeued'
             PROVE  /\ \A x \in 1..Len(order') : list'.pos[order'[x]] < list'.numEntries
                    /\ \A x, y \in 1..Len(order') : x < y => list'.pos[order'[x]] < list'.pos[order'[y]]
  BY DEF PosOK
<1>0. /\ list \in Lists /\ order \in Seq(Entry) /\ Len(order) \in Nat
      /\ list.pos \in [Entry -> Nat] /\ list.numEntries \in Nat
      /\ \A x \in 1..Len(order) : order[x] \in Entry /\ list.pos[order[x]] \in Nat
  BY EntriesOf, FieldsOf DEF Core, TypeOK
<1>1. CASE Stays
  BY <1>0, <1>1 DEF Stays, PosOK
<1>2. CASE Grows
  <2>1. /\ Len(order') = Len(order) + 1 /\ order'[Len(order) + 1] = entry
        /\ \A x \in 1..Len(order) : order'[x] = order[x]
    BY <1>0, <1>2, Appended DEF Grows
  <2>2. ASSUME NEW x \in 1..Len(order')
        PROVE  \/ x \in 1..Len(order) /\ list'.pos[order'[x]] = list.pos[order[x]]
               \/ x = Len(order) + 1 /\ list'.pos[order'[x]] = list.numEntries
    BY <1>0, <1>2, <2>1 DEF Grows
  <2>3. \A x \in 1..Len(order) : list.pos[order[x]] < list.numEntries
    BY <1>2 DEF Grows, PosOK
  <2>4. list'.numEntries = list.numEntries + 1
    BY <1>2 DEF Grows
  <2>5. ASSUME NEW x \in 1..Len(order') PROVE list'.pos[order'[x]] < list'.numEntries
    <3>1. CASE x \in 1..Len(order) /\ list'.pos[order'[x]] = list.pos[order[x]]
      <4>1. list.pos[order[x]] \in Nat /\ list.pos[order[x]] < list.numEntries
        BY <1>0, <2>3, <3>1
      <4> QED
        BY <1>0, <2>4, <3>1, <4>1
    <3>2. CASE list'.pos[order'[x]] = list.numEntries
      BY <1>0, <2>4, <3>2
    <3> QED
      BY <2>2, <3>1, <3>2
  <2>6. ASSUME NEW x \in 1..Len(order'), NEW y \in 1..Len(order'), x < y
        PROVE  list'.pos[order'[x]] < list'.pos[order'[y]]
    <3>1. x \in 1..Len(order) /\ list'.pos[order'[x]] = list.pos[order[x]]
      BY <1>0, <2>1, <2>2, <2>6
    <3>2. CASE y \in 1..Len(order)
      <4>1. list'.pos[order'[y]] = list.pos[order[y]]
        BY <1>0, <2>2, <3>2
      <4> QED
        BY <1>2, <2>6, <3>1, <3>2, <4>1 DEF Grows, PosOK
    <3>3. CASE y \notin 1..Len(order)
      BY <2>2, <2>3, <3>1, <3>3
    <3> QED
      BY <3>2, <3>3
  <2> QED
    BY <2>5, <2>6
<1>3. CASE Shrinks
  <2>1. PICK k \in 1..Len(order) :
          /\ order' = Dropped(order, k)
          /\ \A x \in 1..Len(order) : x # k => list'.pos[order[x]] = list.pos[order[x]]
    BY <1>3 DEF Shrinks
  <2>2. Len(order') = Len(order) - 1 /\ \A x \in 1..Len(order') : order'[x] = IF x < k THEN order[x] ELSE order[x + 1]
    BY <1>0, <2>1, DroppedFacts
  <2>3. ASSUME NEW x \in 1..Len(order')
        PROVE  /\ (IF x < k THEN x ELSE x + 1) \in 1..Len(order)
               /\ list'.pos[order'[x]] = list.pos[order[IF x < k THEN x ELSE x + 1]]
    <3> DEFINE z == IF x < k THEN x ELSE x + 1
    <3>1. z \in 1..Len(order) /\ z # k
      BY <1>0, <2>1, <2>2
    <3>2. order'[x] = order[z]
      BY <2>2
    <3> QED
      BY <2>1, <3>1, <3>2
  <2>4. Undequeued /\ list'.numEntries = list.numEntries
    BY <1>3 DEF Shrinks
  <2>5. ASSUME NEW x \in 1..Len(order') PROVE list'.pos[order'[x]] < list'.numEntries
    BY <2>3, <2>4 DEF PosOK
  <2>6. ASSUME NEW x \in 1..Len(order'), NEW y \in 1..Len(order'), x < y
        PROVE  list'.pos[order'[x]] < list'.pos[order'[y]]
    <3> DEFINE u == IF x < k THEN x ELSE x + 1
               v == IF y < k THEN y ELSE y + 1
    <3>1. u \in 1..Len(order) /\ v \in 1..Len(order) /\ u < v
      BY <1>0, <2>1, <2>2, <2>3, <2>6
    <3>2. list.pos[order[u]] < list.pos[order[v]]
      BY <2>4, <3>1 DEF PosOK
    <3> QED
      BY <2>3, <3>2
  <2> QED
    BY <2>5, <2>6
<1>4. CASE Switches
  <2>1. Len(order') = Len(order)
    BY <1>0, <1>4, SwitchedFacts DEF Switches
  <2> QED
    BY <1>0, <1>4, <2>1 DEF Switches, PosOK
<1>5. CASE Clears
  BY <1>5 DEF Clears
<1> QED
  BY <1>1, <1>2, <1>3, <1>4, <1>5, OrderSteps

(* What a step does to the start and the kept songs of the innermost call.      *)
LEMMA TopSteps ==
  ASSUME Core, Next
  PROVE  \/ calls' = <<>> \/ Top'.start = -1
         \/ OpenAgain /\ Top'.start = list.numEntries /\ Top'.kept = order
         \/ calls # <<>> /\ Top'.start = Top.start /\ Top'.kept = Top.kept
<1>0. calls \in Seq(Calls) /\ Len(calls) \in Nat /\ CallsOK
  BY DEF Core, TypeOK
<1>1. ASSUME CloseFolder, calls # <<>> PROVE calls' = <<>> \/ Top'.start = -1
  <2>1. /\ Len(calls) >= 1 /\ Len(calls') = Len(calls) - 1 /\ calls' \in Seq(Calls)
        /\ \A k \in 1..(Len(calls) - 1) : calls'[k] = calls[k]
    BY <1>0, <1>1, CallsFacts DEF CloseFolder
  <2>2. calls' # <<>> => Len(calls') \in 1..(Len(calls) - 1)
    BY <1>0, <2>1
  <2> QED
    BY <1>0, <2>1, <2>2 DEF Top, CallsOK
<1>2. ASSUME NEW c \in Calls, calls # <<>>, calls' = [calls EXCEPT ![Len(calls)] = c] PROVE Top' = c
  <2>1. Len(calls') = Len(calls) /\ Len(calls) \in 1..Len(calls)
    BY <1>0, <1>2
  <2> QED
    BY <1>0, <1>2, <2>1 DEF Top
<1>3. ASSUME calls' = calls PROVE calls' = <<>> \/ (calls # <<>> /\ Top'.start = Top.start /\ Top'.kept = Top.kept)
  BY <1>3 DEF Top
<1>4. CASE PlayerStep
  BY <1>3, <1>4, PlayerKeeps
<1>5. CASE BeginStep
  <2>1. calls' = calls \/ \E d \in Folder : calls' = <<Call(d)>>
    BY <1>5 DEF BeginStep, EnqueueFile, EnqueueFolder, Dequeue, DequeueItems, ResetMusic
  <2>2. ASSUME NEW d \in Folder, calls' = <<Call(d)>> PROVE Top'.start = -1
    <3>1. Top' = Call(d)
      BY <2>2 DEF Top
    <3> QED
      BY <3>1 DEF Call
  <2> QED
    BY <1>3, <2>1, <2>2
<1>6. CASE AddStep
  <2>1. calls' = calls \/ (calls # <<>> /\ calls' = [calls EXCEPT ![Len(calls)].files = <<>>])
    BY <1>6 DEF AddStep, NextItem, AddLink, AddCount, AddFile, AddDisplay, ResetShuffle, EnqueueFails
  <2>2. CASE calls # <<>> /\ calls' = [calls EXCEPT ![Len(calls)].files = <<>>]
    <3> DEFINE c == [Top EXCEPT !.files = <<>>]
    <3>1. c \in Calls /\ calls' = [calls EXCEPT ![Len(calls)] = c] /\ c.start = Top.start /\ c.kept = Top.kept
      BY <1>0, <2>2, TopChanges, CallsFacts DEF Calls
    <3> HIDE DEF c
    <3> QED
      BY <1>2, <2>2, <3>1
  <2> QED
    BY <1>3, <2>1, <2>2
<1>7. CASE FolderStep
  <2>1. calls # <<>> /\ Top \in Calls
    BY <1>0, <1>7, CallsFacts DEF FolderStep, SubFolder, OpenAgain, FolderFile, FolderDone, At, CallsOK
  <2>2. CASE SubFolder
    <3>1. Top.start = -1 /\ Top.subs # <<>>
      BY <2>2 DEF SubFolder
    <3>2. CASE SetTop([Top EXCEPT !.subs = <<>>])
      <4> DEFINE c == [Top EXCEPT !.subs = <<>>]
      <4>1. c \in Calls /\ c.start = -1 /\ calls' = [calls EXCEPT ![Len(calls)] = c]
        BY <1>0, <2>1, <3>1, <3>2, TopChanges DEF SetTop, Calls
      <4> HIDE DEF c
      <4> QED
        BY <1>2, <2>1, <4>1
    <3>3. CASE calls' = Append([calls EXCEPT ![Len(calls)].subs = Tail(@)], Call(Head(Top.subs)))
      <4> DEFINE s == [calls EXCEPT ![Len(calls)].subs = Tail(@)]
                 c == Call(Head(Top.subs))
      <4>1. s = [calls EXCEPT ![Len(calls)] = [Top EXCEPT !.subs = Tail(@)]] /\ c \in Calls /\ c.start = -1
            /\ [Top EXCEPT !.subs = Tail(@)] \in Calls
        BY <1>0, <2>1, <3>1, TopChanges, CallTyped DEF Call
      <4>2. s \in Seq(Calls) /\ Len(s) = Len(calls)
        BY <1>0, <2>1, <4>1, CallsFacts
      <4> HIDE DEF s, c
      <4>3. Len(Append(s, c)) = Len(s) + 1 /\ Append(s, c)[Len(s) + 1] = c
        <5>1. c \in Calls /\ s \in Seq(Calls)
          BY <4>1, <4>2
        <5> QED
          BY <5>1
      <4>4. Top' = c
        BY <3>3, <4>3 DEF Top, s, c
      <4> QED
        BY <4>1, <4>4
    <3> QED
      BY <2>2, <3>2, <3>3 DEF SubFolder
  <2>3. CASE OpenAgain
    <3> DEFINE c == [Top EXCEPT !.start = list.numEntries, !.kept = order]
    <3>1. /\ c \in Calls /\ c.start = list.numEntries /\ c.kept = order
          /\ calls' = [calls EXCEPT ![Len(calls)] = c]
      BY <1>0, <2>1, <2>3, TopChanges, FieldsOf DEF OpenAgain, SetTop, Core, TypeOK, Calls
    <3> HIDE DEF c
    <3> QED
      BY <1>2, <2>1, <2>3, <3>1
  <2>4. CASE FolderFile
    <3> DEFINE c == [Top EXCEPT !.files = Tail(@)]
    <3>1. /\ c \in Calls /\ c.start = Top.start /\ c.kept = Top.kept
          /\ calls' = [calls EXCEPT ![Len(calls)] = c]
      BY <1>0, <2>1, <2>4, TopChanges DEF FolderFile, SetTop, Calls
    <3> HIDE DEF c
    <3> QED
      BY <1>2, <2>1, <3>1
  <2>5. CASE FolderDone
    BY <1>1, <1>3, <2>1, <2>5 DEF FolderDone
  <2> QED
    BY <1>7, <2>2, <2>3, <2>4, <2>5 DEF FolderStep
<1>8. CASE SortStep
  <2>1. calls # <<>>
    BY <1>0, <1>8 DEF SortStep, SortPass, SortCompare, SortSwap1, SortSwap2, SortSwap3, At, CallsOK, Sorting
  <2>2. CloseFolder \/ calls' = calls
    BY <1>8 DEF SortStep, SortPass, SortCompare, SortSwap1, SortSwap2, SortSwap3
  <2> QED
    BY <1>1, <1>3, <2>1, <2>2
<1>9. CASE RemoveStep \/ ResetStep
  <2>1. calls' = calls
    BY <1>9 DEF RemoveStep, Scan, ScanItem, RemoveLinks, RemoveTest, RemoveDeselect, RemoveShuffle, RemoveCount,
       RemoveFree, ResetStep, ResetEntry, ResetDone
  <2> QED
    BY <1>3, <2>1
<1> QED
  BY <1>4, <1>5, <1>6, <1>7, <1>8, <1>9, NextGroups

(* EnqueueFile gets to the name of an entry only by adding it.                 *)
LEMMA NameSteps ==
  ASSUME Next, pc' \in {"name", "display"}
  PROVE  AddCount \/ pc \in {"name", "display"}
<1>1. CASE PlayerStep
  BY <1>1, PlayerKeeps
<1>2. CASE BeginStep
  BY <1>2 DEF BeginStep, EnqueueFile, EnqueueFolder, Dequeue, DequeueItems, ResetMusic, OpenFile, Return, Goto, At
<1>3. CASE AddStep
  BY <1>3 DEF AddStep, NextItem, AddLink, AddFile, AddDisplay, ResetShuffle, EnqueueFails, Return, Goto, At
<1>4. CASE FolderStep
  BY <1>4 DEF FolderStep, SubFolder, OpenAgain, FolderFile, FolderDone, OpenFile, CloseFolder, Return, Goto, At
<1>5. CASE SortStep
  BY <1>5 DEF SortStep, SortPass, SortCompare, SortSwap1, SortSwap2, SortSwap3, CloseFolder, Goto, At
<1>6. CASE RemoveStep \/ ResetStep
  BY <1>6 DEF RemoveStep, Scan, ScanItem, RemoveLinks, RemoveTest, RemoveDeselect, RemoveShuffle, RemoveCount,
     RemoveFree, ResetStep, ResetEntry, ResetDone, Goto, At
<1> QED
  BY <1>1, <1>2, <1>3, <1>4, <1>5, <1>6, NextGroups

LEMMA KeptKept ==
  ASSUME Core, PosOK, KeptOK, Next
  PROVE  KeptOK'
<1> SUFFICES ASSUME calls' # <<>>, Top'.start # -1, Undequeued'
             PROVE  /\ Outside' <= Len(order') /\ Top'.start <= list'.numEntries
                    /\ pc' \in {"name", "display"} => Outside' < Len(order')
                    /\ \A x \in 1..Outside' : order'[x] = Top'.kept[x]
                    /\ \A x \in 1..Len(order') : list'.pos[order'[x]] >= Top'.start <=> x > Outside'
  BY DEF KeptOK
<1>0. /\ list \in Lists /\ order \in Seq(Entry) /\ Len(order) \in Nat
      /\ list.pos \in [Entry -> Nat] /\ list.numEntries \in Nat
      /\ \A x \in 1..Len(order) : order[x] \in Entry /\ list.pos[order[x]] \in Nat
  BY EntriesOf, FieldsOf DEF Core, TypeOK
<1>1. CASE OpenAgain /\ Top'.start = list.numEntries /\ Top'.kept = order
  <2>1. list' = list /\ order' = order /\ past' = past /\ pc' = "folder" /\ Undequeued
    BY <1>1 DEF OpenAgain, ListStep, At, Undequeued
  <2>2. Outside' = Len(order)
    BY <1>1 DEF Outside
  <2>3. \A x \in 1..Len(order) : list.pos[order[x]] < list.numEntries
    BY <2>1 DEF PosOK
  <2> QED
    BY <1>0, <1>1, <2>1, <2>2, <2>3
<1>2. CASE calls # <<>> /\ Top'.start = Top.start /\ Top'.kept = Top.kept
  <2>0. Outside' = Outside /\ Outside \in Nat /\ Top.start \in Nat
    <3>1. Top \in Calls
      BY <1>2, CallsFacts DEF Core, TypeOK
    <3> QED
      BY <1>2, <3>1 DEF Outside, Calls
  <2>1. ASSUME Undequeued
        PROVE  /\ Outside <= Len(order) /\ Top.start <= list.numEntries
               /\ pc \in {"name", "display"} => Outside < Len(order)
               /\ \A x \in 1..Outside : order[x] = Top.kept[x]
               /\ \A x \in 1..Len(order) : list.pos[order[x]] >= Top.start <=> x > Outside
    BY <1>2, <2>1 DEF KeptOK
  <2>2. CASE Stays
    <3>1. Undequeued /\ order' = order /\ list'.numEntries = list.numEntries
      BY <2>2 DEF Stays
    <3>2. pc' \in {"name", "display"} => pc \in {"name", "display"}
      <4>1. ~AddCount
        <5>1. AddCount => entry \in Entry /\ order' = Append(order, entry)
          BY EntryThere DEF AddCount, At
        <5>2. \A n \in Entry : Len(Append(order, n)) = Len(order) + 1
          BY <1>0, Appended
        <5> QED
          BY <1>0, <3>1, <5>1, <5>2
      <4> QED
        BY <4>1, NameSteps
    <3>3. \A x \in 1..Len(order) : list'.pos[order[x]] = list.pos[order[x]]
      BY <2>2 DEF Stays
    <3> QED
      BY <1>0, <1>2, <2>0, <2>1, <3>1, <3>2, <3>3
  <2>3. CASE Grows
    <3>1. /\ Len(order') = Len(order) + 1 /\ order'[Len(order) + 1] = entry
          /\ \A x \in 1..Len(order) : order'[x] = order[x]
      BY <1>0, <2>3, Appended DEF Grows
    <3>2. Undequeued /\ list'.numEntries = list.numEntries + 1
      BY <2>3 DEF Grows
    <3>3. \A x \in 1..Outside' : order'[x] = Top'.kept[x]
      BY <1>0, <1>2, <2>0, <2>1, <3>1, <3>2
    <3>4. ASSUME NEW x \in 1..Len(order') PROVE list'.pos[order'[x]] >= Top'.start <=> x > Outside'
      <4>1. CASE x = Len(order) + 1
        BY <1>0, <1>2, <2>0, <2>1, <2>3, <3>1, <3>2, <4>1 DEF Grows
      <4>2. CASE x # Len(order) + 1
        <5>1. x \in 1..Len(order) /\ list'.pos[order'[x]] = list.pos[order[x]]
          BY <1>0, <2>3, <3>1, <4>2 DEF Grows
        <5> QED
          BY <1>2, <2>0, <2>1, <3>2, <5>1
      <4> QED
        BY <4>1, <4>2
    <3> QED
      BY <1>0, <1>2, <2>0, <2>1, <3>1, <3>2, <3>3, <3>4
  <2>4. CASE Shrinks
    <3>1. Undequeued /\ list'.numEntries = list.numEntries /\ pc' \in {"failed", "select"}
      BY <2>4 DEF Shrinks
    <3>2. PICK k \in 1..Len(order) :
            /\ order' = Dropped(order, k) /\ pc \in {"name", "display"} /\ k = Len(order)
            /\ \A x \in 1..Len(order) : x # k => list'.pos[order[x]] = list.pos[order[x]]
      BY <1>2, <2>4 DEF Shrinks
    <3>6. /\ Len(Dropped(order, k)) = Len(order) - 1
          /\ \A x \in 1..(Len(order) - 1) : Dropped(order, k)[x] = IF x < k THEN order[x] ELSE order[x + 1]
      BY <1>0, DroppedFacts
    <3>7. order' = Dropped(order, k) /\ k = Len(order)
      BY <3>2
    <3>3. Len(order') = Len(order) - 1 /\ \A x \in 1..(Len(order) - 1) : order'[x] = order[x]
      BY <1>0, <3>6, <3>7
    <3>4. Outside' <= Len(order') /\ \A x \in 1..Outside' : order'[x] = Top'.kept[x]
      BY <1>0, <1>2, <2>0, <2>1, <3>1, <3>2, <3>3
    <3>5. ASSUME NEW x \in 1..Len(order') PROVE list'.pos[order'[x]] >= Top'.start <=> x > Outside'
      <4>2. x \in 1..(Len(order) - 1) /\ x \in 1..Len(order) /\ x # k
        <5>1. Len(order) \in Nat /\ Len(order') = Len(order) - 1 /\ k = Len(order)
          BY <1>0, <3>3, <3>7
        <5> QED
          BY <5>1
      <4>3. order'[x] = order[x] /\ list'.pos[order[x]] = list.pos[order[x]]
        BY <3>2, <3>3, <4>2, Zenon
      <4>1. x \in 1..Len(order) /\ list'.pos[order'[x]] = list.pos[order[x]]
        BY <4>2, <4>3
      <4> QED
        BY <1>2, <2>0, <2>1, <3>1, <4>1
    <3> QED
      BY <1>2, <2>0, <2>1, <3>1, <3>4, <3>5
  <2>5. CASE Switches
    <3>1. PICK i \in 1..(Len(order) - 1) :
            /\ i > Outside /\ order' = Switched(order, i)
            /\ \A x \in 1..Len(order) : list'.pos[order'[x]] = list.pos[order[x]]
      BY <2>5 DEF Switches
    <3>2. Undequeued /\ list'.numEntries = list.numEntries /\ pc' = "compare"
      BY <2>5 DEF Switches, SortSwap3, Goto
    <3>5. /\ Len(Switched(order, i)) = Len(order)
          /\ \A j \in 1..Len(order) : j # i /\ j # i + 1 => Switched(order, i)[j] = order[j]
      BY <1>0, SwitchedFacts
    <3>6. order' = Switched(order, i)
      BY <3>1
    <3>3. Len(order') = Len(order) /\ \A x \in 1..Len(order) : x < i => order'[x] = order[x]
      BY <1>0, <3>5, <3>6
    <3>4. \A x \in 1..Outside' : order'[x] = Top'.kept[x]
      BY <1>0, <1>2, <2>0, <2>1, <3>1, <3>2, <3>3
    <3> QED
      BY <1>0, <1>2, <2>0, <2>1, <3>1, <3>2, <3>3, <3>4
  <2> QED
    BY <2>2, <2>3, <2>4, <2>5, OrderSteps DEF Clears
<1> QED
  BY <1>1, <1>2, TopSteps

-----------------------------------------------------------------------------
(* The rounds of SortBrowser.                                               *)
LEMMA WindowIs ==
  ASSUME Core, PosOK, KeptOK, pc = "compare", Undequeued
  PROVE  Outside \in Nat /\ \A x \in 1..Len(order) : InWindow(order[x]) <=> x > Outside
<1>1. calls # <<>> /\ Top.start # -1 /\ Top \in Calls /\ Outside \in Nat
  <2>1. calls # <<>> /\ Top.start # -1
    BY DEF Core, CallsOK, Sorting
  <2>2. Top \in Calls
    BY <2>1, CallsFacts DEF Core, TypeOK
  <2> QED
    BY <2>1, <2>2 DEF Outside, Calls
<1>2. Top.start \in Nat
  BY <1>1 DEF Calls
<1>3. /\ list.numEntries \in Nat
      /\ \A x \in 1..Len(order) : list.pos[order[x]] \in Nat /\ list.pos[order[x]] < list.numEntries
  BY EntriesOf, FieldsOf DEF Core, TypeOK, PosOK
<1>4. \A x \in 1..Len(order) : list.pos[order[x]] >= Top.start <=> x > Outside
  BY <1>1 DEF KeptOK
<1> QED
  BY <1>1, <1>2, <1>3, <1>4 DEF InWindow

(* The entry at a place tells the place.                                     *)
LEMMA PlaceOf ==
  ASSUME order \in Seq(Entry), Distinct(order),
         NEW i \in 1..(Len(order) + 1), NEW j \in 1..(Len(order) + 1), NEW m, NEW n,
         IsAt(i, m), IsAt(j, n)
  PROVE  m = n <=> i = j
<1>1. Len(order) \in Nat /\ \A x \in 1..Len(order) : order[x] # Null
  BY EntriesOf
<1>2. i <= Len(order) => i \in 1..Len(order)
  BY <1>1
<1>3. j <= Len(order) => j \in 1..Len(order)
  BY <1>1
<1> QED
  BY <1>1, <1>2, <1>3 DEF IsAt, Distinct

LEMMA OnwardFields ==
  ASSUME NEW a, NEW b
  PROVE  Onward(a, b).a = a /\ Onward(a, b).e = IF b = sort.e THEN a ELSE sort.e
BY DEF Onward, NoSort

(* Where the sort is, as the invariant says it.                              *)
Compares(i, j) ==
  /\ i \in 1..Len(order) /\ j \in 2..(Len(order) + 1)
  /\ sort.a = order[i] /\ IsAt(j, sort.e) /\ (i = j \/ i + 2 <= j)
  /\ Undequeued => Highest(i) /\ Settles(j)

Swaps(i, j) ==
  /\ i \in 1..(Len(order) - 1) /\ j \in 3..(Len(order) + 1)
  /\ sort.a = order[i] /\ sort.b = order[i + 1] /\ IsAt(i + 2, sort.after)
  /\ sort.before = (IF i > 1 THEN order[i - 1] ELSE Null)
  /\ i + 2 <= j /\ IsAt(j, sort.e)
  /\ Undequeued => /\ i > Outside /\ Highest(i) /\ Settles(j)
                   /\ Name[order[i + 1]] < Name[order[i]]

LEMMA SortKept ==
  ASSUME Core, PosOK, KeptOK, Next
  PROVE  SortOK'
<1>0. /\ list \in Lists /\ order \in Seq(Entry) /\ Distinct(order) /\ sort \in Sorts /\ Len(order) \in Nat
      /\ Name \in [Entry -> Nat] /\ SortOK
      /\ \A x \in 1..Len(order) : order[x] \in Entry /\ order[x] # Null /\ Name[order[x]] \in Nat
  BY EntriesOf, MusicAssumption DEF Core, TypeOK, MembersOK
<1>6. pc \in Sorting => Outside \in Nat
  <2>1. pc \in Sorting => Top \in Calls
    BY CallsFacts DEF Core, TypeOK, CallsOK
  <2> QED
    BY <2>1 DEF Outside, Calls
<1>1. ASSUME pc' \notin Sorting PROVE SortOK'
  BY <1>1 DEF SortOK, Sorting, Swapping
<1>2. CASE PlayerStep
  <2>1. UNCHANGED <<order, sort, calls, past>> /\ (pc' = pc \/ pc' \in {"idle", "load"})
    BY <1>2, PlayerKeeps
  <2>2. CASE pc' = pc
    <3>1. UNCHANGED <<pc, order, sort>> /\ Outside' = Outside /\ Undequeued' = Undequeued
      BY <2>1, <2>2 DEF Outside, Top, Undequeued
    <3>2. SortOK' = SortOK
      BY <3>1 DEF SortOK, Swapping, IsAt, Settles, Highest
    <3> QED
      BY <1>0, <3>2
  <2>3. CASE pc' \in {"idle", "load"}
    BY <1>1, <2>3 DEF Sorting
  <2> QED
    BY <2>1, <2>2, <2>3
<1>3. CASE BeginStep \/ AddStep \/ RemoveStep \/ ResetStep
  <2>1. pc' \notin Sorting
    <3>1. CASE BeginStep \/ AddStep
      BY <3>1 DEF BeginStep, EnqueueFile, EnqueueFolder, Dequeue, DequeueItems, ResetMusic, OpenFile,
         AddStep, NextItem, AddLink, AddCount, AddFile, AddDisplay, Delete, ResetShuffle, EnqueueFails,
         Return, Goto, At, Sorting
    <3>2. CASE RemoveStep \/ ResetStep
      BY <3>2 DEF RemoveStep, Scan, ScanItem, RemoveLinks, RemoveTest, RemoveDeselect, RemoveShuffle, RemoveCount,
         RemoveFree, ResetStep, ResetEntry, ResetDone, Goto, At, Sorting
    <3> QED
      BY <1>3, <3>1, <3>2
  <2> QED
    BY <1>1, <2>1
<1>4. CASE FolderStep
  <2>1. pc' \notin Sorting \/ (pc' = "pass" /\ sort' = [NoSort EXCEPT !.head = list.first, !.tail = list.last])
    BY <1>4 DEF FolderStep, SubFolder, OpenAgain, FolderFile, FolderDone, OpenFile, CloseFolder, Return, Goto, At, Sorting
  <2>2. CASE pc' = "pass" /\ sort' = [NoSort EXCEPT !.head = list.first, !.tail = list.last]
    <3>1. sort'.e = Null
      BY <2>2 DEF NoSort
    <3> QED
      BY <2>2, <3>1 DEF SortOK, Swapping
  <2> QED
    BY <1>1, <2>1, <2>2
<1>5. CASE SortStep
  <2>0. past' = past /\ (Undequeued' <=> Undequeued)
    BY <1>5 DEF SortStep, SortPass, SortCompare, SortSwap1, SortSwap2, SortSwap3, ListStep, Undequeued
  <2>1. CASE SortPass
    <3>1. pc = "pass" /\ order' = order /\ Represents(SortEnds(list), order)
      BY <1>0, <2>1 DEF SortPass, At, ListStep, Core, Linked, Sorting
    <3>2. CASE pc' \notin Sorting
      BY <1>1, <3>2
    <3>3. CASE pc' \in Sorting
      <4>1. /\ pc' = "compare" /\ sort.head # Null /\ sort.e # list.next[sort.head] /\ calls' = calls
            /\ sort' = [sort EXCEPT !.a = sort.head]
        BY <2>1, <3>3 DEF SortPass, CloseFolder, Goto, Sorting
      <4>2. sort'.a = sort.head /\ sort'.e = sort.e
        BY <1>0, <4>1 DEF Sorts
      <4>3. /\ Len(order) > 0 /\ sort.head = order[1]
            /\ list.next[order[1]] = IF 1 < Len(order) THEN order[2] ELSE Null
        <5>1. sort.head = IF Len(order) > 0 THEN order[1] ELSE Null
          BY <1>0, <3>1, LinksLead, EndsFields
        <5>2. Len(order) > 0
          BY <1>0, <4>1, <5>1
        <5>3. 1 \in 1..Len(order)
          BY <1>0, <5>2
        <5> QED
          BY <1>0, <3>1, <5>1, <5>2, <5>3, LinksLead, EndsFields
      <4>4. PICK j \in 2..(Len(order) + 1) : IsAt(j, sort.e) /\ (Undequeued => Settles(j))
        <5>1. CASE sort.e = Null
          <6>1. IsAt(Len(order) + 1, sort.e) /\ Settles(Len(order) + 1)
            BY <1>0, <5>1 DEF IsAt, Settles
          <6> QED
            BY <1>0, <4>3, <6>1
        <5>2. CASE sort.e # Null
          BY <1>0, <3>1, <5>2 DEF SortOK, IsAt
        <5> QED
          BY <5>1, <5>2
      <4>5. j >= 3
        BY <1>0, <4>1, <4>3, <4>4 DEF IsAt
      <4>6. Undequeued => Highest(1)
        <5>1. Outside \in Nat
          BY <1>6, <3>1 DEF Sorting
        <5> QED
          BY <1>0, <4>3, <5>1 DEF Highest
      <4>7. Outside' = Outside
        BY <4>1 DEF Outside, Top
      <4>8. Compares(1, j)'
        BY <1>0, <2>0, <3>1, <4>2, <4>3, <4>4, <4>5, <4>6, <4>7 DEF Compares, IsAt, Settles, Highest
      <4> QED
        BY <4>1, <4>8 DEF SortOK, Compares, Swapping
    <3> QED
      BY <3>2, <3>3
  <2>2. CASE SortCompare
    <3>1. pc = "compare" /\ order' = order /\ calls' = calls /\ list' = list
      BY <2>2 DEF SortCompare, At, ListStep
    <3>2. PICK i, j : Compares(i, j)
      BY <1>0, <3>1 DEF SortOK, Compares
    <3>3. Outside' = Outside /\ Outside \in Nat
      BY <1>6, <3>1 DEF Outside, Top, Sorting
    <3>4. /\ i \in 1..Len(order) /\ j \in 2..(Len(order) + 1) /\ sort.a = order[i] /\ IsAt(j, sort.e)
          /\ i = j \/ i + 2 <= j
          /\ Undequeued => Highest(i) /\ Settles(j)
      BY <3>2 DEF Compares
    <3>5. sort.a = sort.e <=> i = j
      <4>1. IsAt(i, sort.a) /\ i \in 1..(Len(order) + 1) /\ j \in 1..(Len(order) + 1)
        BY <1>0, <3>4 DEF IsAt
      <4> QED
        BY <1>0, <3>4, <4>1, PlaceOf
    <3>6. CASE i = j
      <4>1. pc' = "pass" /\ sort' = sort
        BY <2>2, <3>5, <3>6 DEF SortCompare, Goto
      <4>2. j \in 2..Len(order) /\ sort.e = order[j]
        BY <1>0, <3>4, <3>6 DEF IsAt
      <4>3. Undequeued' => Settles(j)'
        BY <2>0, <3>1, <3>3, <3>4 DEF Settles
      <4> QED
        BY <3>1, <4>1, <4>2, <4>3 DEF SortOK, Swapping
    <3>7. CASE i # j
      <4> DEFINE b == list.next[sort.a]
      <4>1. i + 2 <= j /\ i + 1 \in 1..Len(order) /\ i \in 1..(Len(order) - 1)
        BY <1>0, <3>4, <3>7, SMTT(30)
      <4>2. /\ b = order[i + 1] /\ IsAt(i + 2, list.next[b])
            /\ list.prior[sort.a] = IF i > 1 THEN order[i - 1] ELSE Null
        <5>1. Represents(SortEnds(list), order) /\ SortEnds(list) \in Lists
              /\ SortEnds(list).next = list.next /\ SortEnds(list).prior = list.prior
          BY <1>0, <3>1, EndsFields DEF Core, Linked
        <5>2. \A k \in 1..Len(order) : /\ list.next[order[k]] = IF k < Len(order) THEN order[k + 1] ELSE Null
                                       /\ list.prior[order[k]] = IF k > 1 THEN order[k - 1] ELSE Null
          BY <1>0, <5>1, LinksLead, SMTT(30)
        <5>3. b = order[i + 1] /\ list.prior[sort.a] = IF i > 1 THEN order[i - 1] ELSE Null
          BY <1>0, <3>4, <4>1, <5>2
        <5>4. list.next[order[i + 1]] = IF i + 1 < Len(order) THEN order[(i + 1) + 1] ELSE Null
          BY <4>1, <5>2
        <5> QED
          BY <1>0, <3>4, <4>1, <5>3, <5>4 DEF IsAt
      <4> HIDE DEF b
      <4>3. CASE Exchanges(sort.a, b)
        <5>1. /\ pc' = "swap1"
              /\ sort' = [sort EXCEPT !.b = b, !.before = list.prior[sort.a], !.after = list.next[b]]
          BY <2>2, <3>5, <3>7, <4>3 DEF SortCompare, Goto, b
        <5>2. /\ sort'.a = sort.a /\ sort'.b = b /\ sort'.before = list.prior[sort.a]
              /\ sort'.after = list.next[b] /\ sort'.e = sort.e
          BY <1>0, <5>1 DEF Sorts
        <5>3. Undequeued => i > Outside /\ Name[order[i + 1]] < Name[order[i]]
          <6>1. InWindow(order[i]) /\ Name[order[i]] > Name[order[i + 1]]
            BY <3>4, <4>2, <4>3 DEF Exchanges
          <6> QED
            BY <1>0, <3>1, <3>4, <4>1, <6>1, WindowIs
        <5>4. j \in 3..(Len(order) + 1)
          BY <1>0, <3>4, <4>1
        <5>5. Swaps(i, j)'
          BY <2>0, <3>1, <3>3, <3>4, <4>1, <4>2, <5>2, <5>3, <5>4 DEF Swaps, IsAt, Settles, Highest
        <5> QED
          BY <5>1, <5>5 DEF SortOK, Swaps, Swapping
      <4>4. CASE ~Exchanges(sort.a, b)
        <5>1. pc' = "compare" /\ sort' = Onward(b, list.next[b])
          BY <2>2, <3>1, <3>5, <3>7, <4>4 DEF SortCompare, Goto, b
        <5>2. sort'.a = b /\ sort'.e = IF list.next[b] = sort.e THEN b ELSE sort.e
          BY <5>1, OnwardFields
        <5>3. list.next[b] = sort.e <=> i + 2 = j
          <6>1. i + 2 \in 1..(Len(order) + 1) /\ j \in 1..(Len(order) + 1)
            BY <1>0, <3>4, <4>1
          <6> QED
            BY <1>0, <3>4, <4>2, <6>1, PlaceOf, SMTT(30)
        <5>4. Undequeued => Highest(i + 1)
          <6> SUFFICES ASSUME Undequeued, NEW x \in (Outside + 1)..(i + 1)
                       PROVE  Name[order[x]] <= Name[order[i + 1]]
            BY DEF Highest
          <6>1. CASE x = i + 1
            BY <1>0, <4>1, <6>1
          <6>2. CASE x # i + 1
            <7>1. x \in (Outside + 1)..i /\ i > Outside /\ i + 1 > Outside /\ x \in 1..Len(order)
              <8>1. Outside \in Nat /\ i \in 1..Len(order) /\ Len(order) \in Nat
                BY <1>0, <3>3, <3>4
              <8> QED
                BY <6>2, <8>1
            <7>2. InWindow(order[i]) /\ InWindow(order[i + 1])
              BY <3>1, <3>4, <4>1, <7>1, WindowIs
            <7>3. ~(Name[order[i]] > Name[order[i + 1]])
              BY <3>4, <4>2, <4>4, <7>2 DEF Exchanges
            <7>4. Name[order[x]] <= Name[order[i]]
              BY <3>4, <7>1 DEF Highest
            <7> QED
              BY <1>0, <3>4, <4>1, <7>1, <7>3, <7>4
          <6> QED
            BY <6>1, <6>2
        <5>5. CASE i + 2 = j
          <6>1. sort'.e = order[i + 1] /\ sort'.a = order[i + 1]
            BY <4>2, <5>2, <5>3, <5>5
          <6>2. Undequeued => Settles(i + 1)
            <7> SUFFICES ASSUME Undequeued, NEW x \in (Outside + 1)..Len(order), NEW y \in (i + 1)..Len(order), x < y
                         PROVE  Name[order[x]] <= Name[order[y]]
              BY DEF Settles
            <7>1. CASE y = i + 1
              <8>1. x \in (Outside + 1)..(i + 1)
                BY <1>0, <3>3, <3>4, <7>1
              <8> QED
                BY <5>4, <7>1, <8>1 DEF Highest
            <7>2. CASE y # i + 1
              <8>1. y \in j..Len(order)
                BY <1>0, <3>4, <5>5, <7>2
              <8> QED
                BY <3>4, <8>1 DEF Settles
            <7> QED
              BY <7>1, <7>2
          <6>3. i + 1 \in 2..(Len(order) + 1) /\ i + 1 <= Len(order)
            BY <1>0, <3>4, <4>1
          <6>4. Compares(i + 1, i + 1)'
            BY <2>0, <3>1, <3>3, <4>1, <5>4, <6>1, <6>2, <6>3 DEF Compares, IsAt, Settles, Highest
          <6> QED
            BY <5>1, <6>4 DEF SortOK, Compares, Swapping
        <5>6. CASE i + 2 # j
          <6>1. sort'.e = sort.e /\ sort'.a = order[i + 1]
            BY <4>2, <5>2, <5>3, <5>6
          <6>2. (i + 1) + 2 <= j
            BY <1>0, <3>4, <4>1, <5>6
          <6>3. Compares(i + 1, j)'
            BY <2>0, <3>1, <3>3, <3>4, <4>1, <5>4, <6>1, <6>2 DEF Compares, IsAt, Settles, Highest
          <6> QED
            BY <5>1, <6>3 DEF SortOK, Compares, Swapping
        <5> QED
          BY <5>5, <5>6
      <4> QED
        BY <4>3, <4>4
    <3> QED
      BY <3>6, <3>7
  <2>3. CASE SortSwap1 \/ SortSwap2
    <3>1. pc \in Swapping /\ pc' \in Swapping /\ UNCHANGED <<order, calls, sort>>
      BY <2>3 DEF SortSwap1, SortSwap2, At, Goto, ListStep, Swapping
    <3>2. Outside' = Outside
      BY <3>1 DEF Outside, Top
    <3>3. PICK i, j : Swaps(i, j)
      BY <1>0, <3>1 DEF SortOK, Swaps
    <3>4. Swaps(i, j)'
      BY <2>0, <3>1, <3>2, <3>3 DEF Swaps, IsAt, Settles, Highest
    <3> QED
      BY <3>1, <3>4 DEF SortOK, Swaps, Swapping
  <2>4. CASE SortSwap3
    <3>1. /\ pc = "swap3" /\ pc' = "compare" /\ calls' = calls
          /\ order' = Exchanged(order, sort.a, sort.b)
          /\ sort' = [Onward(sort.a, sort.after) EXCEPT
                        !.head = IF sort.before = Null THEN sort.b ELSE @,
                        !.tail = IF sort.after = Null THEN sort.a ELSE @]
      BY <2>4 DEF SortSwap3, At, Goto, ListStep
    <3>2. PICK i, j : Swaps(i, j)
      BY <1>0, <3>1 DEF SortOK, Swaps, Swapping
    <3>3. Outside' = Outside /\ Outside \in Nat
      BY <1>6, <3>1 DEF Outside, Top, Sorting
    <3>4. /\ i \in 1..(Len(order) - 1) /\ j \in 3..(Len(order) + 1)
          /\ sort.a = order[i] /\ sort.b = order[i + 1] /\ IsAt(i + 2, sort.after)
          /\ i + 2 <= j /\ IsAt(j, sort.e)
          /\ Undequeued => /\ i > Outside /\ Highest(i) /\ Settles(j)
                           /\ Name[order[i + 1]] < Name[order[i]]
      BY <3>2 DEF Swaps
    <3>5. /\ Len(order') = Len(order) /\ order'[i] = order[i + 1] /\ order'[i + 1] = order[i]
          /\ \A x \in 1..Len(order) : x # i /\ x # i + 1 => order'[x] = order[x]
      <4>1. order' = Switched(order, i)
        BY <1>0, <3>1, <3>4, ExchangedIsSwitched
      <4>2. /\ Len(Switched(order, i)) = Len(order)
            /\ Switched(order, i)[i] = order[i + 1] /\ Switched(order, i)[i + 1] = order[i]
            /\ \A x \in 1..Len(order) : x # i /\ x # i + 1 => Switched(order, i)[x] = order[x]
        BY <1>0, <3>4, SwitchedFacts
      <4> QED
        BY <4>1, <4>2
    <3>6. sort'.a = order[i] /\ sort'.e = IF sort.after = sort.e THEN order[i] ELSE sort.e
      <4> DEFINE o == Onward(sort.a, sort.after)
      <4>1. o.a = sort.a /\ o.e = IF sort.after = sort.e THEN sort.a ELSE sort.e
        BY OnwardFields
      <4>2. sort' = [o EXCEPT !.head = IF sort.before = Null THEN sort.b ELSE @,
                              !.tail = IF sort.after = Null THEN sort.a ELSE @]
        BY <3>1
      <4> HIDE DEF o
      <4>3. sort'.a = o.a /\ sort'.e = o.e
        BY <4>2
      <4> QED
        BY <3>4, <4>1, <4>3
    <3>7. sort.after = sort.e <=> i + 2 = j
      <4>1. i + 2 \in 1..(Len(order) + 1) /\ j \in 1..(Len(order) + 1)
        BY <1>0, <3>4
      <4> QED
        BY <1>0, <3>4, <4>1, PlaceOf
    <3>8. i \in 1..Len(order) /\ i + 1 \in 1..Len(order) /\ i + 1 \in 2..(Len(order) + 1)
      BY <1>0, <3>4
    <3>9. Undequeued => Highest(i + 1)'
      <4> SUFFICES ASSUME Undequeued, NEW x \in (Outside + 1)..(i + 1)
                   PROVE  Name[order'[x]] <= Name[order'[i + 1]]
        BY <3>3 DEF Highest
      <4>1. CASE x = i + 1
        BY <1>0, <3>5, <3>8, <4>1
      <4>2. CASE x = i
        BY <1>0, <3>4, <3>5, <3>8, <4>2, SMTT(30)
      <4>3. CASE x # i /\ x # i + 1
        <5>1. x \in (Outside + 1)..i /\ x \in 1..Len(order) /\ order'[x] = order[x]
          BY <1>0, <3>3, <3>4, <3>5, <4>3
        <5> QED
          BY <3>4, <3>5, <5>1 DEF Highest
      <4> QED
        BY <4>1, <4>2, <4>3
    <3>10. Undequeued => Settles(j)'
      <4> SUFFICES ASSUME Undequeued, NEW x \in (Outside + 1)..Len(order), NEW y \in j..Len(order), x < y
                   PROVE  Name[order'[x]] <= Name[order'[y]]
        BY <3>3, <3>5 DEF Settles
      <4>1. order'[y] = order[y] /\ y \in 1..Len(order) /\ i < y /\ i + 1 < y
        BY <1>0, <3>4, <3>5, SMTT(30)
      <4>2. \E z \in (Outside + 1)..Len(order) : z < y /\ order'[x] = order[z]
        <5>1. CASE x = i
          BY <1>0, <3>3, <3>4, <3>5, <3>8, <4>1, <5>1
        <5>2. CASE x = i + 1
          BY <1>0, <3>3, <3>4, <3>5, <3>8, <4>1, <5>2
        <5>3. CASE x # i /\ x # i + 1
          BY <1>0, <3>3, <3>5, <4>1, <5>3
        <5> QED
          BY <5>1, <5>2, <5>3
      <4> QED
        BY <3>4, <4>1, <4>2 DEF Settles
    <3>11. CASE i + 2 = j
      <4>1. Undequeued => Settles(i + 1)'
        <5> SUFFICES ASSUME Undequeued, NEW x \in (Outside + 1)..Len(order), NEW y \in (i + 1)..Len(order), x < y
                     PROVE  Name[order'[x]] <= Name[order'[y]]
          BY <3>3, <3>5 DEF Settles
        <5>1. CASE y = i + 1
          <6>1. x \in (Outside + 1)..(i + 1) /\ x \in (Outside' + 1)..(i + 1)
            BY <1>0, <3>3, <3>4, <5>1
          <6> QED
            BY <3>9, <5>1, <6>1 DEF Highest
        <5>2. CASE y # i + 1
          <6>1. y \in j..Len(order) /\ y \in j..Len(order') /\ x \in (Outside' + 1)..Len(order')
            BY <1>0, <3>3, <3>4, <3>5, <3>11, <5>2
          <6> QED
            BY <3>10, <6>1 DEF Settles
        <5> QED
          BY <5>1, <5>2
      <4>2. sort'.e = order[i]
        BY <3>6, <3>7, <3>11
      <4>3. IsAt(i + 1, sort.e)'
        BY <3>5, <3>8, <4>2 DEF IsAt
      <4>4. Compares(i + 1, i + 1)'
        BY <2>0, <3>5, <3>6, <3>8, <3>9, <4>1, <4>3 DEF Compares
      <4> QED
        BY <3>1, <4>4 DEF SortOK, Compares, Swapping
    <3>12. CASE i + 2 # j
      <4>1. sort'.e = sort.e /\ (i + 1) + 2 <= j
        BY <1>0, <3>4, <3>6, <3>7, <3>12
      <4>2. IsAt(j, sort.e)'
        <5>1. j <= Len(order) => j \in 1..Len(order) /\ j # i /\ j # i + 1
          <6>1. Len(order) \in Nat /\ i \in 1..(Len(order) - 1) /\ j \in 3..(Len(order) + 1) /\ i + 2 <= j
            BY <1>0, <3>4
          <6> QED
            BY <6>1
        <5> QED
          BY <3>4, <3>5, <4>1, <5>1 DEF IsAt
      <4>3. j \in 2..(Len(order) + 1)
        BY <1>0, <3>4
      <4>4. Compares(i + 1, j)'
        BY <2>0, <3>5, <3>6, <3>8, <3>9, <3>10, <4>1, <4>2, <4>3 DEF Compares
      <4> QED
        BY <3>1, <4>4 DEF SortOK, Compares, Swapping
    <3> QED
      BY <3>11, <3>12
  <2> QED
    BY <1>5, <2>1, <2>2, <2>3, <2>4 DEF SortStep
<1> QED
  BY <1>2, <1>3, <1>4, <1>5, NextGroups

-----------------------------------------------------------------------------
(* The theorems.                                                            *)
Inv == Core /\ PosOK /\ KeptOK

LEMMA InitHolds == Init => Inv
<1> SUFFICES ASSUME Init PROVE Inv
  OBVIOUS
<1>1. /\ list = EmptyList /\ mem = [n \in Entry |-> "free"] /\ order = <<>> /\ past = {}
      /\ pc = "idle" /\ calls = <<>> /\ drop = {} /\ sort = NoSort
  BY DEF Init
<1>2. TypeOK
  <2>1. EmptyList \in Lists /\ NoSort \in Sorts
    BY DEF EmptyList, Lists, Link, NoSort, Sorts
  <2>2. list \in Lists /\ sort \in Sorts /\ MemTypes
    BY <1>1, <2>1 DEF MemTypes
  <2>3. <<>> \in Seq(Entry) /\ <<>> \in Seq(Nat) /\ <<>> \in Seq(Calls)
    OBVIOUS
  <2>4. EditTypes /\ ChosenTypes /\ playOrder \in PlayOrders /\ calls \in Seq(Calls)
    BY <2>3 DEF Init, EditTypes, ChosenTypes, Labels, Link
  <2>5. FALSE \in BOOLEAN
    OBVIOUS
  <2>6. Flags
    BY <2>5, Zenon DEF Init, Flags
  <2> QED
    BY <2>2, <2>4, <2>6, TypeParts
<1>3. Linked
  <2>1. Represents(EmptyList, <<>>)
    BY DEF EmptyList, Represents
  <2> QED
    BY <1>1, <2>1 DEF Linked, Sorting
<1>4. MembersOK
  <2>1. Members = {} /\ Of(order) = {} /\ Distinct(order) /\ \A n \in Entry : mem[n] = "free"
    BY <1>1 DEF Members, Of, Distinct
  <2> QED
    BY <1>1, <2>1 DEF MembersOK, Unlinked
<1>5. CursorOK /\ CallsOK /\ SortOK
  BY <1>1 DEF CursorOK, CallsOK, SortOK, Removing, Unlinked, Sorting, Swapping
<1>6. PosOK /\ KeptOK
  BY <1>1 DEF PosOK, KeptOK
<1> QED
  BY <1>2, <1>3, <1>4, <1>5, <1>6 DEF Inv, Core

LEMMA NextHolds ==
  ASSUME Inv, Next
  PROVE  Inv'
BY Typed, LinkedKept, MembersKept, CursorKept, CallsKept, SortKept, PosKept, KeptKept, Zenon DEF Inv, Core

LEMMA StutterHolds ==
  ASSUME Inv, UNCHANGED vars
  PROVE  Inv'
<1> USE DEF vars, chosen, edit
<1>1. TypeOK'
  <2>1. playing' = playing /\ fault' = fault
    OBVIOUS
  <2>2. Flags'
    BY <2>1, Zenon DEF Flags, Inv, Core, TypeOK
  <2>3. /\ list' \in Lists /\ MemTypes' /\ EditTypes' /\ ChosenTypes' /\ playOrder' \in PlayOrders
        /\ calls' \in Seq(Calls) /\ sort' \in Sorts
    BY TypeParts DEF Inv, Core, MemTypes, EditTypes, ChosenTypes
  <2> QED
    BY <2>2, <2>3, Zenon DEF TypeOK, MemTypes, EditTypes, ChosenTypes, Flags
<1>2. Members' = Members /\ (Undequeued' <=> Undequeued) /\ Top' = Top /\ Outside' = Outside
  BY DEF Members, Undequeued, Top, Outside
<1>3. Linked'
  BY DEF Inv, Core, Linked, SortEnds, SwapEnds
<1>4. MembersOK'
  BY <1>2 DEF Inv, Core, MembersOK
<1>5. CursorOK' /\ CallsOK'
  BY <1>2 DEF Inv, Core, CursorOK, CallsOK
<1>6. SortOK'
  BY <1>2 DEF Inv, Core, SortOK, IsAt, Settles, Highest
<1>7. PosOK' /\ KeptOK'
  BY <1>2 DEF Inv, PosOK, KeptOK
<1> QED
  BY <1>1, <1>3, <1>4, <1>5, <1>6, <1>7, Zenon DEF Inv, Core

LEMMA InvAlways == Spec => []Inv
<1>1. Inv /\ [Next]_vars => Inv'
  BY NextHolds, StutterHolds
<1> QED
  BY <1>1, InitHolds, PTL DEF Spec

LEMMA LinksRepresent ==
  ASSUME Inv
  PROVE  ListInvariant
<1> SUFFICES ASSUME pc # "clear" PROVE Represents(Ends(Settled), SettledOrder)
  BY DEF ListInvariant
<1>1. Linked
  BY DEF Inv, Core
<1>2. CASE pc = "count"
  BY <1>1, <1>2 DEF Linked, Ends, Settled, SettledOrder, Sorting
<1>3. CASE pc \in {"pass", "compare", "swap1"}
  <2>1. Ends(Settled) = SortEnds(list) /\ SettledOrder = order
    BY <1>3 DEF Ends, Settled, SettledOrder, SortEnds
  <2> QED
    BY <1>1, <1>3, <2>1 DEF Linked
<1>4. CASE pc = "swap2"
  <2>1. /\ Ends(Settled) = SwapEnds(Swap3(Swap2(list, sort.b, sort.before), sort.a, sort.b, sort.after))
        /\ SettledOrder = Exchanged(order, sort.a, sort.b)
    BY <1>4 DEF Ends, Settled, SettledOrder, SwapEnds
  <2> QED
    BY <1>1, <1>4, <2>1 DEF Linked
<1>5. CASE pc = "swap3"
  <2>1. /\ Ends(Settled) = SwapEnds(Swap3(list, sort.a, sort.b, sort.after))
        /\ SettledOrder = Exchanged(order, sort.a, sort.b)
    BY <1>5 DEF Ends, Settled, SettledOrder, SwapEnds
  <2> QED
    BY <1>1, <1>5, <2>1 DEF Linked
<1>6. CASE pc \notin Sorting \union {"count"}
  <2>1. Ends(Settled) = list /\ SettledOrder = order
    BY <1>6 DEF Ends, Settled, SettledOrder, Sorting
  <2> QED
    BY <1>1, <1>6, <2>1 DEF Linked
<1> QED
  BY <1>2, <1>3, <1>4, <1>5, <1>6 DEF Sorting

(* However the playlist is edited, and wherever in an edit the main thread is,   *)
(* its links read forwards and backwards give the entries that the edits so far  *)
(* have left, once each, for any songs, folders and playlist files, with and     *)
(* without memory running out and with the player coming between any two steps. *)
THEOREM ListTheorem == Spec => []IInv
<1>1. Inv => IInv
  BY LinksRepresent DEF IInv, Inv, Core
<1> QED
  BY <1>1, InvAlways, PTL

(* When a folder has been added, the songs that were in the list before stay     *)
(* where they were and the folder's own are in alphabetical order, unless        *)
(* something has been dequeued since the list was last reset.                  *)
THEOREM SortedTheorem == Spec => SortedPerFolder
<1> DEFINE A == Len(calls') < Len(calls) /\ Undequeued =>
                  /\ SubSeq(order', 1, Len(Top.kept)) = Top.kept
                  /\ \A i, j \in (Len(Top.kept) + 1)..Len(order') :
                       i < j => Name[order'[i]] <= Name[order'[j]]
<1>1. ASSUME Inv, Next, Len(calls') < Len(calls), Undequeued
      PROVE  /\ SubSeq(order', 1, Len(Top.kept)) = Top.kept
             /\ \A i, j \in (Len(Top.kept) + 1)..Len(order') :
                  i < j => Name[order'[i]] <= Name[order'[j]]
  <2>1. Core /\ PosOK /\ KeptOK
    BY <1>1 DEF Inv
  <2>0. /\ calls \in Seq(Calls) /\ Len(calls) \in Nat /\ order \in Seq(Entry) /\ Len(order) \in Nat
        /\ list \in Lists /\ list.numEntries \in Nat /\ sort \in Sorts
        /\ Name \in [Entry -> Nat]
        /\ \A x \in 1..Len(order) : order[x] \in Entry /\ order[x] # Null /\ list.pos[order[x]] \in Nat
    BY <2>1, EntriesOf, FieldsOf, MusicAssumption DEF Core, TypeOK
  <2>2. \/ FolderDone /\ ~(list.numEntries - Top.start > 1)
        \/ SortPass /\ (sort.head = Null \/ sort.e = list.next[sort.head])
    <3>1. ASSUME calls' = calls PROVE FALSE
      BY <1>1, <2>0, <3>1
    <3>2. CASE PlayerStep
      BY <3>1, <3>2, PlayerKeeps
    <3>3. CASE BeginStep
      <4>1. calls = <<>>
        BY <2>1, <3>3 DEF BeginStep, EnqueueFile, EnqueueFolder, Dequeue, DequeueItems, ResetMusic, At, Core, CallsOK, Sorting, Adding
      <4>2. calls' \in Seq(Calls)
        BY <1>1, <2>1, CallsTyped
      <4> QED
        BY <1>1, <4>1, <4>2
    <3>4. CASE AddStep
      <4>1. calls' = calls \/ (calls # <<>> /\ calls' = [calls EXCEPT ![Len(calls)] = [Top EXCEPT !.files = <<>>]])
        BY <2>0, <3>4, TopChanges DEF AddStep, NextItem, AddLink, AddCount, AddFile, AddDisplay, ResetShuffle, EnqueueFails
      <4> QED
        <5> DEFINE c == [Top EXCEPT !.files = <<>>]
        <5>1. calls # <<>> => c \in Calls
          BY <2>0, TopChanges
        <5> HIDE DEF c
        <5>2. calls # <<>> => Len([calls EXCEPT ![Len(calls)] = c]) = Len(calls)
          BY <2>0, <5>1, CallsFacts
        <5>3. calls' = calls \/ (calls # <<>> /\ calls' = [calls EXCEPT ![Len(calls)] = c])
          BY <4>1 DEF c
        <5> QED
          BY <1>1, <2>0, <3>1, <5>2, <5>3
    <3>5. CASE FolderStep
      <4>1. calls # <<>>
        BY <2>1, <3>5 DEF FolderStep, SubFolder, OpenAgain, FolderFile, FolderDone, At, Core, CallsOK
      <4>2. ASSUME NEW c \in Calls, SetTop(c) PROVE FALSE
        <5>1. Len([calls EXCEPT ![Len(calls)] = c]) = Len(calls)
          BY <2>0, <4>1, CallsFacts
        <5> QED
          BY <1>1, <2>0, <4>2, <5>1 DEF SetTop
      <4>3. CASE SubFolder
        <5>1. Top.subs # <<>>
          BY <4>3 DEF SubFolder
        <5> DEFINE s == [calls EXCEPT ![Len(calls)].subs = Tail(@)]
                   c == Call(Head(Top.subs))
        <5>2. s \in Seq(Calls) /\ Len(s) = Len(calls) /\ c \in Calls
          BY <2>0, <4>1, <5>1, CallsFacts, TopChanges, CallTyped
        <5>3. calls' = Append(s, c) \/ SetTop([Top EXCEPT !.subs = <<>>])
          BY <4>3 DEF SubFolder
        <5> HIDE DEF s, c
        <5>4. Len(Append(s, c)) = Len(s) + 1
          BY <5>2
        <5>5. [Top EXCEPT !.subs = <<>>] \in Calls
          BY <2>0, <4>1, TopChanges
        <5>6. calls' # Append(s, c)
          BY <1>1, <2>0, <5>2, <5>4
        <5> QED
          BY <4>2, <5>3, <5>5, <5>6
      <4>4. CASE OpenAgain
        BY <2>0, <4>1, <4>2, <4>4, TopChanges DEF OpenAgain
      <4>5. CASE FolderFile
        BY <2>0, <4>1, <4>2, <4>5, TopChanges DEF FolderFile
      <4>6. CASE FolderDone
        BY <3>1, <4>6 DEF FolderDone
      <4> QED
        BY <3>5, <4>3, <4>4, <4>5, <4>6 DEF FolderStep
    <3>6. CASE SortStep
      BY <3>1, <3>6 DEF SortStep, SortPass, SortCompare, SortSwap1, SortSwap2, SortSwap3
    <3>7. CASE RemoveStep \/ ResetStep
      <4>1. calls' = calls
        BY <3>7 DEF RemoveStep, Scan, ScanItem, RemoveLinks, RemoveTest, RemoveDeselect, RemoveShuffle, RemoveCount,
           RemoveFree, ResetStep, ResetEntry, ResetDone
      <4> QED
        BY <3>1, <4>1
    <3> QED
      BY <1>1, <3>2, <3>3, <3>4, <3>5, <3>6, <3>7, NextGroups
  <2>3. order' = order /\ pc \in {"folder", "pass"} /\ calls # <<>> /\ Top.start # -1
    BY <2>1, <2>2 DEF FolderDone, SortPass, At, ListStep, Core, CallsOK, Sorting
  <2>4. Top.kept \in Seq(Entry) /\ Outside \in Nat /\ Outside = Len(Top.kept) /\ Top.start \in Nat
    <3>1. Top \in Calls
      BY <2>0, <2>3, CallsFacts
    <3> QED
      BY <2>3, <3>1 DEF Calls, Outside
  <2>5. /\ Outside <= Len(order) /\ \A x \in 1..Outside : order[x] = Top.kept[x]
        /\ \A x \in 1..Len(order) : list.pos[order[x]] >= Top.start <=> x > Outside
    BY <1>1, <2>1, <2>3 DEF KeptOK
  <2>6. SubSeq(order', 1, Outside) = Top.kept
    <3> DEFINE w == SubSeq(order, 1, Outside)
    <3>1. \A k \in 1..Outside : order[k] \in Entry
      BY <2>0, <2>4, <2>5
    <3>2. w \in Seq(Entry) /\ Len(w) = Outside /\ \A x \in 1..Outside : w[x] = order[x]
      BY <2>0, <2>4, <2>5, <3>1, SubSeqProperties
    <3> HIDE DEF w
    <3>3. w = Top.kept
      BY <2>4, <2>5, <3>2
    <3> QED
      BY <2>3, <3>3 DEF w
  <2>7. ASSUME NEW i \in (Outside + 1)..Len(order), NEW j \in (Outside + 1)..Len(order), i < j
        PROVE  Name[order[i]] <= Name[order[j]]
    <3>1. i \in 1..Len(order) /\ j \in 1..Len(order)
      BY <2>0, <2>4
    <3>2. CASE FolderDone /\ ~(list.numEntries - Top.start > 1)
      <4>1. list.pos[order[i]] >= Top.start /\ list.pos[order[i]] < list.pos[order[j]]
            /\ list.pos[order[j]] < list.numEntries
        BY <1>1, <2>1, <2>4, <2>5, <2>7, <3>1 DEF PosOK
      <4>2. /\ list.pos[order[i]] \in Nat /\ list.pos[order[j]] \in Nat
            /\ list.numEntries \in Nat /\ Top.start \in Nat
        BY <2>0, <2>4, <3>1
      <4> DEFINE start == Top.start
                 own   == list.numEntries
                 low   == list.pos[order[i]]
                 high  == list.pos[order[j]]
      <4>3. /\ start \in Nat /\ own \in Nat /\ low \in Nat /\ high \in Nat
            /\ low >= start /\ low < high /\ high < own /\ ~(own - start > 1)
        BY <3>2, <4>1, <4>2, Zenon
      <4> HIDE DEF start, own, low, high
      <4> QED
        BY <4>3
    <3>3. CASE SortPass /\ (sort.head = Null \/ sort.e = list.next[sort.head])
      <4>1. pc = "pass" /\ Represents(SortEnds(list), order) /\ SortOK
        BY <2>1, <3>3 DEF SortPass, At, Core, Linked
      <4>2. sort.head = order[1] /\ list.next[order[1]] = IF 1 < Len(order) THEN order[2] ELSE Null
        <5>1. 1 \in 1..Len(order)
          BY <2>0, <3>1
        <5>2. sort.head = IF Len(order) > 0 THEN order[1] ELSE Null
          BY <2>0, <4>1, LinksLead, EndsFields
        <5> QED
          BY <2>0, <4>1, <5>1, <5>2, LinksLead, EndsFields
      <4>3. sort.e = order[2] /\ 2 \in 1..Len(order)
        BY <2>0, <2>7, <3>1, <3>3, <4>2
      <4>4. Settles(2)
        <5>1. PICK k \in 2..Len(order) : sort.e = order[k] /\ Settles(k)
          BY <1>1, <2>0, <4>1, <4>3 DEF SortOK
        <5>2. k = 2
          <6>1. Distinct(order) /\ k \in 1..Len(order) /\ order[k] = order[2]
            BY <2>0, <2>1, <4>3, <5>1 DEF Core, MembersOK
          <6> QED
            BY <4>3, <6>1 DEF Distinct
        <5> QED
          BY <5>1, <5>2
      <4>5. j \in 2..Len(order)
        BY <2>0, <2>4, <2>7, <3>1
      <4> QED
        BY <2>7, <4>4, <4>5 DEF Settles
    <3> QED
      BY <2>2, <3>2, <3>3
  <2> QED
    BY <2>3, <2>4, <2>6, <2>7
<1>2. Inv /\ [Next]_vars => [A]_vars
  BY <1>1
<1>3. Undequeued <=> "dequeued" \notin past
  BY DEF Undequeued
<1> QED
  BY <1>2, <1>3, InvAlways, PTL DEF Spec, SortedPerFolder

-----------------------------------------------------------------------------
(* The count.                                                               *)
Reliable == "failed" \notin past

Counted == list.numEntries = Len(order) + IF pc \in Unlinked \ {"free"} THEN 1 ELSE 0

(* An entry is counted before its name is known, and is not uncounted when that   *)
(* fails.  Remove uncounts the entry some steps after it has left the list.       *)
CountOK == Reliable /\ pc # "failed" => Counted

LEMMA CountKept ==
  ASSUME Core, CountOK, Next
  PROVE  CountOK'
<1>0. /\ list \in Lists /\ order \in Seq(Entry) /\ Distinct(order) /\ sort \in Sorts /\ Len(order) \in Nat
      /\ list.numEntries \in Nat
  BY EntriesOf, FieldsOf DEF Core, TypeOK, MembersOK
<1> USE DEF CountOK, Counted, Reliable, Unlinked
<1>1. ASSUME Len(order') = Len(order), list'.numEntries = list.numEntries, past' = past,
             pc \notin Unlinked, pc' \notin Unlinked, pc # "failed"
      PROVE  CountOK'
  BY <1>1
<1>2. CASE PlayerStep
  BY <1>2, PlayerKeeps
<1>3. CASE BeginStep \/ FolderStep
  <2>1. UNCHANGED <<list, order, past>> /\ pc \in {"idle", "folder"} /\ pc' \notin Unlinked
    BY <1>3 DEF BeginStep, EnqueueFile, EnqueueFolder, Dequeue, DequeueItems, ResetMusic, ListStep,
       FolderStep, SubFolder, OpenAgain, FolderFile, FolderDone, OpenFile, Return, CloseFolder, At, Goto
  <2> QED
    BY <1>1, <2>1
<1>4. CASE AddStep
  <2>1. CASE NextItem \/ ResetShuffle
    <3>1. UNCHANGED <<list, order, past>> /\ pc \in {"item", "reshuffle"} /\ pc' \notin Unlinked
      BY <2>1 DEF NextItem, ResetShuffle, Return, At, Goto, ListStep
    <3> QED
      BY <1>1, <3>1
  <2>2. CASE AddLink
    <3>1. /\ entry \in Entry /\ UNCHANGED <<order, past>> /\ pc = "link"
          /\ \/ pc' = "count" /\ list' = LinkNew(list, entry)
             \/ pc' = "failed"
      BY <2>2, EntryThere DEF AddLink, At, Goto, ListStep
    <3>2. LinkNew(list, entry).numEntries = list.numEntries
      BY <1>0, <3>1, NumbersOf
    <3> QED
      BY <1>1, <3>1, <3>2
  <2>3. CASE AddCount
    <3>1. /\ pc = "count" /\ pc' = "name" /\ entry \in Entry /\ past' = past
          /\ list' = CountNew(list, entry) /\ order' = Append(order, entry)
      BY <2>3, EntryThere DEF AddCount, At, Goto, ListStep
    <3>2. list'.numEntries = list.numEntries + 1 /\ Len(order') = Len(order) + 1
      BY <1>0, <3>1, NumbersOf, Appended
    <3> QED
      BY <1>0, <3>1, <3>2
  <2>4. CASE AddFile \/ AddDisplay
    <3>1. /\ pc \in {"name", "display"} /\ past' = past
          /\ (UNCHANGED <<list, order>> /\ pc' \in {"display", "item"}) \/ pc' = "failed"
      BY <2>4 DEF AddFile, AddDisplay, Delete, At, Goto, ListStep
    <3> QED
      BY <1>1, <3>1
  <2>5. CASE EnqueueFails
    BY <2>5 DEF EnqueueFails
  <2> QED
    BY <1>4, <2>1, <2>2, <2>3, <2>4, <2>5 DEF AddStep
<1>5. CASE SortStep
  <2>1. /\ pc \in Sorting /\ past' = past /\ pc' \notin Unlinked /\ pc # "failed"
    BY <1>5 DEF SortStep, SortPass, SortCompare, SortSwap1, SortSwap2, SortSwap3, CloseFolder, At, Goto,
       ListStep, Sorting
  <2>2. Len(order') = Len(order)
    <3>1. order' = order \/ SortSwap3
      BY <1>5 DEF SortStep, SortPass, SortCompare, SortSwap1, SortSwap2
    <3>2. CASE SortSwap3
      <4>1. PICK i \in 1..(Len(order) - 1) : sort.a = order[i] /\ sort.b = order[i + 1]
        BY <3>2 DEF Core, SortOK, SortSwap3, At, Swapping
      <4>2. order' = Switched(order, i)
        BY <1>0, <3>2, <4>1, ExchangedIsSwitched DEF SortSwap3
      <4> QED
        BY <1>0, <4>2, SwitchedFacts
    <3> QED
      BY <3>1, <3>2
  <2>3. list'.numEntries = list.numEntries
    <3>1. list \in Lists
      BY <1>0
    <3>2. \/ list' = list \/ list' = [list EXCEPT !.first = sort.head, !.last = sort.tail]
          \/ list' = Swap1(list, sort.a, sort.b, sort.before) \/ list' = Swap2(list, sort.b, sort.before)
          \/ list' = Swap3(list, sort.a, sort.b, sort.after)
      BY <1>5 DEF SortStep, SortPass, SortCompare, SortSwap1, SortSwap2, SortSwap3
    <3>3. /\ [list EXCEPT !.first = sort.head, !.last = sort.tail].numEntries = list.numEntries
          /\ Swap1(list, sort.a, sort.b, sort.before).numEntries = list.numEntries
          /\ Swap2(list, sort.b, sort.before).numEntries = list.numEntries
          /\ Swap3(list, sort.a, sort.b, sort.after).numEntries = list.numEntries
      BY <3>1, FieldsOf DEF Swap1, Swap2, Swap3
    <3> QED
      BY <3>2, <3>3
  <2> QED
    BY <1>1, <2>1, <2>2, <2>3 DEF Sorting
<1>6. CASE RemoveStep
  <2>1. CASE Scan \/ ScanItem
    <3>1. UNCHANGED <<list, order, past>> /\ pc \in {"scan", "items"} /\ pc' \notin Unlinked
      BY <2>1 DEF Scan, ScanItem, At, Goto
    <3> QED
      BY <1>1, <3>1
  <2>2. CASE RemoveLinks
    <3>1. /\ pc = "unlink" /\ pc' = "select" /\ entry \in Entry /\ UNCHANGED past
          /\ list' = Unlink(list, entry) /\ order' = Without(order, entry)
      BY <2>2, EntryThere DEF RemoveLinks, At, Goto, ListStep, Removing
    <3>2. PICK k \in 1..Len(order) : Without(order, entry) = Dropped(order, k)
      BY <3>1, EntryPlace
    <3>3. list'.numEntries = list.numEntries /\ Len(order') = Len(order) - 1
      BY <1>0, <3>1, <3>2, NumbersOf, DroppedFacts
    <3> QED
      BY <1>0, <3>1, <3>3
  <2>3. CASE RemoveTest \/ RemoveDeselect \/ RemoveShuffle
    <3>1. /\ UNCHANGED <<list, order, past>>
          /\ pc \in {"select", "deselect", "unshuffle"} /\ pc' \in {"deselect", "unshuffle", "uncount"}
      BY <2>3 DEF RemoveTest, RemoveDeselect, RemoveShuffle, ListStep, At, Goto
    <3> QED
      BY <3>1
  <2>4. CASE RemoveCount
    <3>1. /\ pc = "uncount" /\ pc' = "free" /\ order' = order /\ (Reliable' => Reliable)
          /\ list' = IF list.numEntries > 0 THEN [list EXCEPT !.numEntries = @ - 1] ELSE list
      BY <2>4 DEF RemoveCount, At, Goto
    <3>2. list.numEntries > 0 => list'.numEntries = list.numEntries - 1
      BY <1>0, <3>1, FieldsOf
    <3> QED
      BY <1>0, <3>1, <3>2
  <2>5. CASE RemoveFree
    <3>1. /\ pc = "free" /\ pc' \in {"items", "scan"} /\ UNCHANGED <<order, past>>
          /\ list' = Freed(list, entry) /\ entry \in Entry
      BY <2>5 DEF RemoveFree, At, Goto, ListStep, Core, MembersOK
    <3>2. list'.numEntries = list.numEntries
      BY <1>0, <3>1, NumbersOf
    <3> QED
      BY <3>1, <3>2
  <2> QED
    BY <1>6, <2>1, <2>2, <2>3, <2>4, <2>5 DEF RemoveStep
<1>7. CASE ResetStep
  <2>1. CASE ResetEntry
    <3>1. UNCHANGED <<list, order, past, pc>>
      BY <2>1 DEF ResetEntry
    <3> QED
      BY <3>1
  <2>2. CASE ResetDone
    <3>1. list' = EmptyList /\ order' = <<>> /\ pc' = "idle"
      BY <2>2 DEF ResetDone, Goto
    <3>2. list'.numEntries = 0 /\ Len(order') = 0
      BY <3>1 DEF EmptyList
    <3> QED
      BY <3>1, <3>2
  <2> QED
    BY <1>7, <2>1, <2>2 DEF ResetStep
<1> QED
  BY <1>2, <1>3, <1>4, <1>5, <1>6, <1>7, NextGroups

LEMMA CountAlways == Spec => []CountOK
<1>1. Init => CountOK
  BY DEF Init, EmptyList, CountOK, Counted, Unlinked
<1>2. Core /\ CountOK /\ [Next]_vars => CountOK'
  <2>1. ASSUME CountOK, UNCHANGED vars PROVE CountOK'
    BY <2>1 DEF CountOK, Counted, Reliable, vars, edit
  <2> QED
    BY <2>1, CountKept
<1>3. Inv => Core
  BY DEF Inv
<1> QED
  BY <1>1, <1>2, <1>3, InvAlways, PTL DEF Spec

(* Between edits numEntries is the number of entries, unless an allocation has   *)
(* failed: the entry counted by AddEntryMusic is not uncounted then.          *)
THEOREM CountTheorem == Spec => []CountAgrees
<1>1. CountOK => CountAgrees
  BY DEF CountOK, Counted, Reliable, CountAgrees, Unlinked
<1> QED
  BY <1>1, CountAlways, PTL

-----------------------------------------------------------------------------
(* A set of numbers that is not empty has a least one.                        *)
LEMMA Least ==
  ASSUME NEW T \in SUBSET Nat, T # {}
  PROVE  \E x \in T : \A y \in T : x <= y
<1> DEFINE R == OpToRel(<, Nat)
<1>1. IsWellFoundedOn(R, Nat)
  BY NatLessThanWellFounded
<1>2. \A x \in Nat, y \in Nat : y < x => <<y, x>> \in R
  BY DEF OpToRel
<1> HIDE DEF R
<1>3. PICK x \in T : \A y \in T : ~(<<y, x>> \in R)
  BY <1>1, WFMin
<1>4. \A y \in T : ~(y < x)
  BY <1>2, <1>3, Zenon
<1>5. x \in Nat /\ \A y \in T : y \in Nat
  BY Zenon
<1> QED
  BY <1>4, <1>5

(* Walking along the links from the first entry, FindNextFile comes to the       *)
(* entries in their order, and stays at the null pointer behind the last one.  *)
Place(k) == IF k < Len(order) THEN order[k + 1] ELSE Null

LEMMA WalkIsPlace ==
  ASSUME list \in Lists, order \in Seq(Entry), Represents(list, order), Of(order) \subseteq Members,
         NEW k \in Nat
  PROVE  Walk(k) = Place(k)
<1> DEFINE body(f) == [i \in 0..k |-> IF i = 0 THEN list.first
                                      ELSE IF f[i - 1] \in Members THEN list.next[f[i - 1]] ELSE f[i - 1]]
           g == [i \in 0..k |-> Place(i)]
           from == CHOOSE f : f = body(f)
<1>1. Walk(k) = from[k]
  BY DEF Walk
<1>2. ASSUME NEW i \in 0..k, i # 0
      PROVE  Place(i) = IF Place(i - 1) \in Members THEN list.next[Place(i - 1)] ELSE Place(i - 1)
  <2>1. i - 1 \in Nat /\ i - 1 \in 0..k /\ Len(order) \in Nat
    BY <1>2
  <2>2. CASE i - 1 < Len(order)
    <3>1. i \in 1..Len(order) /\ Place(i - 1) = order[i] /\ order[i] \in Members
      BY <2>1, <2>2, OfIn DEF Place
    <3>2. list.next[order[i]] = IF i < Len(order) THEN order[i + 1] ELSE Null
      BY <3>1, LinksLead
    <3> QED
      BY <3>1, <3>2 DEF Place
  <2>3. CASE ~(i - 1 < Len(order))
    <3>1. Place(i) = Null /\ Place(i - 1) = Null
      BY <2>1, <2>3 DEF Place
    <3> QED
      BY <3>1, NullAssumption DEF Members
  <2> QED
    BY <2>2, <2>3
<1>3. Place(0) = list.first
  BY LinksLead DEF Place
<1>4. g = body(g)
  <2>1. ASSUME NEW i \in 0..k
        PROVE  Place(i) = IF i = 0 THEN list.first
                          ELSE IF g[i - 1] \in Members THEN list.next[g[i - 1]] ELSE g[i - 1]
    <3>1. CASE i = 0
      BY <1>3, <3>1
    <3>2. CASE i # 0
      <4>1. i - 1 \in 0..k
        BY <3>2
      <4>2. g[i - 1] = Place(i - 1)
        BY <4>1
      <4> HIDE DEF g
      <4> QED
        BY <1>2, <3>2, <4>2
    <3> QED
      BY <3>1, <3>2
  <2> QED
    BY <2>1, Zenon
<1>5. from = body(from)
  <2> HIDE DEF g, body
  <2>1. \E f : f = body(f)
    BY <1>4
  <2> QED
    BY <2>1
<1> HIDE DEF from, g
<1>6. \A i \in 0..k : from[i] = IF i = 0 THEN list.first
                                ELSE IF from[i - 1] \in Members THEN list.next[from[i - 1]] ELSE from[i - 1]
  BY <1>5, Zenon
<1>7. from[k] = Place(k)
  <2> DEFINE T == {i \in 0..k : from[i] # Place(i)}
  <2> SUFFICES ASSUME T # {} PROVE FALSE
    OBVIOUS
  <2>1. PICK x \in T : \A y \in T : x <= y
    <3>1. T \in SUBSET Nat
      OBVIOUS
    <3> HIDE DEF T
    <3> QED
      BY <3>1, Least
  <2>2. x \in 0..k /\ from[x] # Place(x)
    BY <2>1
  <2>3. x # 0
    BY <1>3, <1>6, <2>2
  <2>4. x - 1 \in 0..k /\ ~(x <= x - 1)
    BY <2>2, <2>3
  <2>5. from[x - 1] = Place(x - 1)
    BY <2>1, <2>4
  <2> QED
    BY <1>2, <1>6, <2>2, <2>3, <2>5
<1> QED
  BY <1>1, <1>7

-----------------------------------------------------------------------------
(* The player's choice.  With nothing freed under the player's eyes (an entry      *)
(* whose display name finds no memory, or those of a list being reset), it is   *)
(* an entry, and never the one Remove is about to free.                        *)
Secure == Preempt => "reset" \notin Edits /\ ~Shortage

SelectOK ==
  /\ pc # "clear" => selIndex \in Members \union {Null}
  /\ pc \in {"unshuffle", "uncount", "free"} => selIndex # entry
  /\ pc = "clear" => "reset" \in Edits
  /\ ~Preempt /\ pc \in {"link", "count", "name", "display"} => selIndex # entry

(* FindNextFile finds an entry there is ...                                   *)
LEMMA FindsMember ==
  ASSUME list \in Lists, ChosenTypes, FindNextFile
  PROVE  selIndex' \in Members \union {Null, selIndex}
BY Finds, FieldsOf DEF FindsLinear, FindsShuffled, ReadsShuffle, NoNext, Load, Fault

(* ... and one that is linked, if it has not chosen another before.            *)
LEMMA FindsLinked ==
  ASSUME list \in Lists, order \in Seq(Entry), Represents(list, order), Of(order) \subseteq Members,
         ChosenTypes, selIndex \in Of(order) \union {Null}, FindNextFile
  PROVE  selIndex' \in Of(order) \union {Null}
<1>1. Len(order) \in Nat /\ list.numEntries \in Nat /\ \A k \in 1..Len(order) : order[k] \in Of(order)
  BY EntriesOf, FieldsOf, OfIn
<1>2. list.first \in Of(order) \union {Null}
  BY <1>1, LinksLead
<1>3. selIndex # Null => list.next[selIndex] \in Of(order) \union {Null}
  <2> SUFFICES ASSUME selIndex # Null PROVE list.next[selIndex] \in Of(order) \union {Null}
    OBVIOUS
  <2>1. PICK k \in 1..Len(order) : order[k] = selIndex
    BY OfIn
  <2>2. k < Len(order) => k + 1 \in 1..Len(order)
    BY <1>1
  <2> QED
    BY <1>1, <2>1, <2>2, LinksLead
<1>4. ASSUME NEW k \in Nat PROVE Walk(k) \in Of(order) \union {Null}
  <2>1. k < Len(order) => k + 1 \in 1..Len(order)
    BY <1>1
  <2> QED
    BY <1>1, <2>1, WalkIsPlace DEF Place
<1>5. ASSUME NEW n \in Of(order) \union {Null}, Load(n) PROVE selIndex' \in Of(order) \union {Null}
  BY <1>5 DEF Load, Fault
<1>6. ASSUME Fault \/ NoNext PROVE selIndex' \in Of(order) \union {Null}
  BY <1>6 DEF Fault, NoNext
<1>7. CASE GetNextShuffle
  <2>1. ASSUME NEW p \in Seq(Nat), NEW k \in Nat, NEW since, ReadsShuffle(p, k, since)
        PROVE  selIndex' \in Of(order) \union {Null}
    <3>1. CASE Fault
      BY <1>6, <3>1
    <3>2. CASE k < Len(p) /\ Load(Walk(p[k + 1]))
      <4>1. k + 1 \in 1..Len(p)
        BY <3>2
      <4>2. p[k + 1] \in Nat
        BY <4>1
      <4> QED
        BY <1>4, <1>5, <3>2, <4>2
    <3> QED
      BY <2>1, <3>1, <3>2 DEF ReadsShuffle
  <2>2. FindsShuffled
    BY <1>1, <1>7, ShuffleFinds
  <2>3. ASSUME NEW p \in Shuffles(list.numEntries) PROVE p \in Seq(Nat)
    <3>1. p \in [1..list.numEntries -> 0..(list.numEntries - 1)]
      BY DEF Shuffles
    <3>2. p \in [1..list.numEntries -> Nat]
      BY <3>1
    <3> QED
      BY <1>1, <3>2
  <2>4. shuffleList \in Seq(Nat) /\ (shuffleIndex # -1 => shuffleIndex \in Nat)
    BY DEF ChosenTypes
  <2>5. CASE \E p \in Shuffles(list.numEntries) : ReadsShuffle(p, 0, {})
    BY <2>1, <2>3, <2>5
  <2>6. CASE shuffleIndex # -1 /\ ReadsShuffle(shuffleList, shuffleIndex, heard)
    BY <2>1, <2>4, <2>6
  <2> QED
    BY <2>2, <2>5, <2>6 DEF FindsShuffled
<1>8. CASE ~GetNextShuffle
  <2>1. \/ NoNext \/ Fault
        \/ Load(list.first)
        \/ selIndex # Null /\ (Load(list.next[selIndex]) \/ Load(selIndex))
    BY <1>8, Zenon DEF FindNextFile
  <2>2. CASE Load(list.first)
    BY <1>2, <1>5, <2>2
  <2>3. CASE selIndex # Null /\ Load(list.next[selIndex])
    BY <1>3, <1>5, <2>3
  <2>4. CASE selIndex # Null /\ Load(selIndex)
    BY <1>5, <2>4
  <2> QED
    BY <1>6, <2>1, <2>2, <2>3, <2>4
<1> QED
  BY <1>7, <1>8

LEMMA SelectKept ==
  ASSUME Core, SelectOK, Secure, Next
  PROVE  SelectOK'
<1>0. /\ list \in Lists /\ order \in Seq(Entry) /\ MemTypes /\ ChosenTypes /\ calls \in Seq(Calls)
      /\ Members \subseteq Entry /\ Null \notin Members
      /\ todo # <<>> => Head(todo) \in Entry
  <2>1. /\ list \in Lists /\ order \in Seq(Entry) /\ MemTypes /\ ChosenTypes /\ calls \in Seq(Calls)
        /\ todo \in Seq(Entry)
    BY TypeParts DEF Core, EditTypes
  <2>2. Members \subseteq Entry /\ Null \notin Members
    BY NullAssumption DEF Members
  <2> QED
    BY <2>1, <2>2, HeadTailProperties
<1> USE DEF SelectOK, Unlinked
(* An entry that is about to be added is not there yet.                      *)
<1>1. ASSUME NEW n \in Entry, mem[n] # "named", pc \notin {"count", "name", "clear"}, selIndex' = selIndex
      PROVE  selIndex' # n
  BY <1>0, <1>1, NotNamed, NullAssumption DEF Members
<1>2. ASSUME UNCHANGED <<mem, selIndex>>, pc \notin {"clear", "unshuffle", "uncount", "free"}
      PROVE  Members' = Members /\ selIndex' \in Members' \union {Null}
  BY <1>2 DEF Members
<1>3. CASE PlayerStep
  <2>1. /\ UNCHANGED <<mem, entry>> /\ Members' = Members
        /\ pc' = pc \/ (pc \in {"idle", "load"} /\ pc' \in {"idle", "load"})
    BY <1>3, PlayerKeeps DEF Members
  <2>2. CASE SongEnds \/ StartPlaylist
    <3>1. FindNextFile /\ (pc = "idle" \/ Preempt) /\ pc # "clear"
      BY <2>2 DEF SongEnds, StartPlaylist, At, Secure
    <3>2. selIndex' \in Members \union {Null}
      BY <1>0, <3>1, FindsMember
    <3>3. pc \in {"unshuffle", "uncount", "free"} => selIndex' # entry
      <4> SUFFICES ASSUME pc \in {"unshuffle", "uncount", "free"} PROVE selIndex' # entry
        OBVIOUS
      <4>1. /\ entry \in Entry /\ entry \notin Of(order) /\ Members = Of(order) \union {entry}
            /\ Represents(list, order)
        BY DEF Core, MembersOK, Linked, Sorting
      <4>2. selIndex' \in Of(order) \union {Null}
        BY <1>0, <3>1, <4>1, FindsLinked
      <4> QED
        BY <4>1, <4>2, NullAssumption
    <3>4. pc' # "clear" /\ (~Preempt => pc' \notin {"link", "count", "name", "display"})
      BY <2>1, <3>1
    <3> QED
      BY <2>1, <3>2, <3>3, <3>4
  <2>3. CASE (\E n \in Entry : Select(n)) \/ LoadNewFile \/ ModeButton
    <3>1. pc \in {"idle", "load"} /\ pc' \in {"idle", "load"}
      BY <2>1, <2>3 DEF Select, LoadNewFile, ModeButton, At
    <3>2. selIndex' \in {selIndex, Null} \/ (\E n \in Entry : selIndex' = n /\ mem[n] = "named")
      BY <2>3 DEF Select, LoadNewFile, ModeButton, chosen
    <3>3. selIndex' \in Members \union {Null}
      BY <3>1, <3>2 DEF Members
    <3> QED
      BY <2>1, <3>1, <3>3
  <2> QED
    BY <1>3, <2>2, <2>3 DEF PlayerStep
<1>4. ASSUME NEW f \in Entry \union File, OpenFile(f), UNCHANGED <<mem, selIndex>>, pc \in {"idle", "folder"}
      PROVE  SelectOK'
  <2>1. selIndex' \in Members' \union {Null}
    BY <1>2, <1>4
  <2>2. CASE pc' = "link"
    <3>1. f \in Entry /\ mem[f] # "named" /\ entry' = f
      BY <1>4, <2>2 DEF OpenFile, Goto, Return
    <3> QED
      BY <1>1, <1>4, <2>1, <2>2, <3>1
  <2>3. CASE pc' # "link"
    <3>1. pc' \in {"item", "idle", "folder"}
      BY <1>4, <2>3 DEF OpenFile, Goto, Return
    <3> QED
      BY <2>1, <3>1
  <2> QED
    BY <2>2, <2>3
<1>5. CASE BeginStep
  <2>1. CASE \E f \in Entry \union File : EnqueueFile(f)
    BY <1>4, <2>1 DEF EnqueueFile, ListStep, At, chosen
  <2>2. CASE \/ \E d \in Folder : EnqueueFolder(d)
             \/ \E x \in Entry \union Folder : Dequeue(x)
             \/ \E f \in File : DequeueItems(f)
             \/ ResetMusic
    <3>1. /\ UNCHANGED <<mem, selIndex>> /\ pc = "idle"
          /\ pc' \in {"folder", "scan", "items"} \/ (pc' = "clear" /\ "reset" \in Edits)
      BY <2>2 DEF EnqueueFolder, Dequeue, DequeueItems, ResetMusic, ListStep, At, Goto, chosen
    <3> QED
      BY <1>2, <3>1
  <2> QED
    BY <1>5, <2>1, <2>2 DEF BeginStep
<1>6. CASE AddStep
  <2>1. CASE NextItem
    <3>1. /\ UNCHANGED <<mem, selIndex>> /\ pc = "item"
          /\ pc' \in {"reshuffle", "item"}
             \/ (pc' = "link" /\ entry' = Head(todo) /\ todo # <<>> /\ mem[Head(todo)] # "named")
      BY <2>1 DEF NextItem, ListStep, At, Goto, chosen
    <3> QED
      BY <1>0, <1>1, <1>2, <3>1
  <2>2. CASE AddLink
    <3>1. /\ UNCHANGED <<selIndex, entry>> /\ pc = "link" /\ entry \in Entry
          /\ \/ pc' = "count" /\ mem' = [mem EXCEPT ![entry] = "new"]
             \/ pc' = "failed" /\ UNCHANGED mem
      BY <2>2, EntryThere DEF AddLink, ListStep, At, Goto, chosen
    <3>2. Members \subseteq Members'
      BY <1>0, <3>1 DEF Members, MemTypes
    <3> QED
      BY <3>1, <3>2
  <2>3. CASE AddCount
    <3>1. UNCHANGED <<mem, selIndex, entry>> /\ pc = "count" /\ pc' = "name"
      BY <2>3 DEF AddCount, ListStep, At, Goto, chosen
    <3> QED
      BY <1>2, <3>1
  <2>4. CASE AddFile \/ AddDisplay
    <3>1. /\ UNCHANGED selIndex /\ pc \in {"name", "display"} /\ entry \in Entry
          /\ \/ pc' = "display" /\ mem' = [mem EXCEPT ![entry] = "named"] /\ UNCHANGED entry
             \/ pc' = "item" /\ UNCHANGED mem
             \/ Shortage /\ pc' = "failed" /\ mem' = [mem EXCEPT ![entry] = "free"]
      BY <2>4, EntryThere DEF AddFile, AddDisplay, Delete, ListStep, At, Goto, chosen
    <3>2. CASE pc' = "display" /\ mem' = [mem EXCEPT ![entry] = "named"] /\ UNCHANGED entry
      <4>1. Members \subseteq Members'
        BY <1>0, <3>1, <3>2 DEF Members, MemTypes
      <4> QED
        BY <3>1, <3>2, <4>1
    <3>3. CASE pc' = "item" /\ UNCHANGED mem
      BY <1>2, <3>1, <3>3
    <3>4. CASE Shortage /\ pc' = "failed" /\ mem' = [mem EXCEPT ![entry] = "free"]
      <4>1. Members' = Members \ {entry}
        BY <1>0, <3>1, <3>4, MemSteps
      <4>2. ~Preempt
        BY <3>4 DEF Secure
      <4> QED
        BY <3>1, <3>4, <4>1, <4>2
    <3> QED
      BY <3>1, <3>2, <3>3, <3>4
  <2>5. CASE ResetShuffle \/ EnqueueFails
    <3>1. UNCHANGED <<mem, selIndex>> /\ pc \in {"reshuffle", "failed"} /\ pc' \in {"idle", "folder"}
      BY <2>5 DEF ResetShuffle, EnqueueFails, Return, At, Goto, chosen
    <3> QED
      BY <1>2, <3>1
  <2> QED
    BY <1>6, <2>1, <2>2, <2>3, <2>4, <2>5 DEF AddStep
<1>7. CASE FolderStep \/ SortStep
  <2>1. CASE FolderFile
    <3>1. Head(Top.files) \in Entry \union File
      BY <1>0, <2>1, TopChanges DEF FolderFile, At, Core, CallsOK
    <3>2. OpenFile(Head(Top.files)) /\ UNCHANGED <<mem, selIndex>> /\ pc = "folder"
      BY <2>1 DEF FolderFile, ListStep, At, chosen
    <3> QED
      BY <1>4, <3>1, <3>2
  <2>2. CASE SubFolder \/ OpenAgain \/ FolderDone \/ SortStep
    <3>1. UNCHANGED <<mem, selIndex>> /\ pc \in Sorting \union {"folder"} /\ pc' \in Sorting \union {"folder", "idle"}
      BY <2>2 DEF SubFolder, OpenAgain, FolderDone, SortStep, SortPass, SortCompare, SortSwap1, SortSwap2, SortSwap3,
         CloseFolder, ListStep, At, Goto, chosen, Sorting
    <3> QED
      BY <1>2, <3>1 DEF Sorting
  <2> QED
    BY <1>7, <2>1, <2>2 DEF FolderStep
<1>8. CASE RemoveStep
  <2>1. CASE Scan \/ ScanItem \/ RemoveLinks
    <3>1. /\ UNCHANGED <<mem, selIndex>> /\ pc \in {"scan", "items", "unlink"}
          /\ pc' \in {"idle", "scan", "items", "unlink", "select"}
      BY <2>1 DEF Scan, ScanItem, RemoveLinks, ListStep, At, Goto, chosen
    <3> QED
      BY <1>2, <3>1
  <2>2. CASE RemoveTest
    <3>1. /\ UNCHANGED <<mem, selIndex, entry>> /\ pc = "select"
          /\ pc' = "deselect" \/ (pc' = "unshuffle" /\ selIndex # entry)
      BY <2>2 DEF RemoveTest, ListStep, At, Goto, chosen
    <3> QED
      BY <1>2, <3>1
  <2>3. CASE RemoveDeselect
    <3>1. UNCHANGED <<mem, entry>> /\ selIndex' = Null /\ pc' = "unshuffle" /\ entry \in Entry
      BY <2>3, EntryThere DEF RemoveDeselect, At, Goto, Removing
    <3> QED
      BY <3>1, NullAssumption
  <2>4. CASE RemoveShuffle \/ RemoveCount
    <3>1. /\ UNCHANGED <<mem, selIndex, entry>>
          /\ pc \in {"unshuffle", "uncount"} /\ pc' \in {"uncount", "free"}
      BY <2>4 DEF RemoveShuffle, RemoveCount, At, Goto, chosen
    <3>2. Members' = Members
      BY <3>1 DEF Members
    <3> QED
      BY <3>1, <3>2
  <2>5. CASE RemoveFree
    <3>1. /\ UNCHANGED selIndex /\ pc = "free" /\ pc' \in {"items", "scan"} /\ entry \in Entry
          /\ mem' = [mem EXCEPT ![entry] = "free"]
      BY <2>5, EntryThere DEF RemoveFree, ListStep, At, Goto, chosen, Removing
    <3>2. Members' = Members \ {entry}
      BY <1>0, <3>1, MemSteps
    <3> QED
      BY <3>1, <3>2
  <2> QED
    BY <1>8, <2>1, <2>2, <2>3, <2>4, <2>5 DEF RemoveStep
<1>9. CASE ResetStep
  <2>1. ResetEntry => pc = "clear" /\ pc' = pc
    BY DEF ResetEntry, At
  <2>2. ResetDone => pc' = "idle" /\ selIndex' = Null
    BY DEF ResetDone, Goto
  <2> QED
    BY <1>9, <2>1, <2>2 DEF ResetStep
<1> QED
  BY <1>3, <1>5, <1>6, <1>7, <1>8, <1>9, NextGroups

LEMMA SelectAlways ==
  ASSUME Secure
  PROVE  Spec => []SelectOK
<1>0. Secure
  OBVIOUS
<1>1. Init => SelectOK
  BY DEF Init, SelectOK
<1>2. Core /\ SelectOK /\ [Next]_vars => SelectOK'
  <2>1. ASSUME SelectOK, UNCHANGED vars PROVE SelectOK'
    BY <2>1 DEF SelectOK, Members, vars, chosen, edit
  <2> QED
    BY <1>0, <2>1, SelectKept
<1>3. Inv => Core
  BY DEF Inv
<1> QED
  BY <1>1, <1>2, <1>3, InvAlways, PTL DEF Spec

(* Whatever is enqueued and dequeued, the player never continues from an entry    *)
(* that has been freed: not between edits, and not in the middle of one if the  *)
(* song may end there.                                                      *)
THEOREM SelectionTheorem ==
  ASSUME Secure
  PROVE  Spec => []SelectionInList
<1>1. SelectOK => SelectionInList
  BY DEF SelectOK, SelectionInList, Secure
<1> QED
  BY <1>1, SelectAlways, PTL

-----------------------------------------------------------------------------
(* The shuffled order.  Unless an entry has just been added or taken out, it is   *)
(* one of the positions that the list has now, or is to be made anew.          *)
Chosen(j) == order[shuffleList[j] + 1]

ShuffleOK ==
  \/ shuffleIndex = -1 \/ list.numEntries = 0
  \/ /\ shuffleList \in Shuffles(list.numEntries) /\ shuffleIndex \in 1..list.numEntries
     /\ heard = {Chosen(j) : j \in 1..shuffleIndex}

ShuffleInv ==
  Reliable =>
    /\ pc \notin Adding \union {"select", "deselect", "unshuffle"} => ShuffleOK
    /\ calls # <<>> /\ Top.start # -1 /\ list.numEntries > Top.start /\ pc \notin Adding => shuffleIndex = -1
    /\ pc \in Sorting \union {"uncount", "free"} => shuffleIndex = -1
    /\ ~fault

(* Between edits FindNextFile reads only what is there.                        *)
LEMMA FindsSound ==
  ASSUME Core, Counted, pc = "idle", selIndex \in Members \union {Null}, ShuffleOK,
         FindNextFile, UNCHANGED <<list, order>>
  PROVE  fault' = fault /\ ShuffleOK'
<1> DEFINE n == list.numEntries
<1>1. /\ list \in Lists /\ order \in Seq(Entry) /\ ChosenTypes /\ Represents(list, order)
      /\ Members = Of(order) /\ n = Len(order) /\ n \in Nat /\ Null \notin Members
      /\ \A m \in Members : mem[m] = "named"
  <2>1. list \in Lists /\ order \in Seq(Entry) /\ ChosenTypes /\ MemTypes
    BY TypeParts DEF Core, EditTypes
  <2>2. Represents(list, order) /\ Members = Of(order) /\ \A m \in Entry : mem[m] # "new"
    BY DEF Core, Linked, MembersOK, Sorting, Unlinked
  <2>3. \A m \in Members : mem[m] = "named"
    BY <2>1, <2>2 DEF Members, MemTypes
  <2>4. n = Len(order) /\ n \in Nat
    BY <2>1, FieldsOf DEF Counted, Unlinked
  <2> QED
    BY <2>1, <2>2, <2>3, <2>4, NullAssumption DEF Members
<1> HIDE DEF n
<1>2. ASSUME NEW m \in Members, Load(m) PROVE fault' = fault /\ selIndex' = m
  BY <1>1, <1>2 DEF Load
<1>3. \A k \in 1..n : order[k] \in Members
  BY <1>1, OfIn
<1>4. n > 0 => list.first \in Members
  <2>1. n > 0 => 1 \in 1..n
    BY <1>1
  <2> QED
    BY <1>1, <1>3, <2>1, LinksLead
<1>5. selIndex \in Members => list.next[selIndex] \in Members \union {Null}
  <2> SUFFICES ASSUME selIndex \in Members PROVE list.next[selIndex] \in Members \union {Null}
    OBVIOUS
  <2>1. PICK k \in 1..n : order[k] = selIndex
    BY <1>1, OfIn
  <2>2. k < n => k + 1 \in 1..n
    BY <1>1
  <2> QED
    BY <1>1, <1>3, <2>1, <2>2, LinksLead
<1>6. ASSUME NEW k \in 0..(n - 1) PROVE Walk(k) = order[k + 1] /\ k + 1 \in 1..n
  BY <1>1, WalkIsPlace DEF Place
<1>7. CASE GetNextShuffle /\ n > 0
  <2>1. ASSUME NEW p \in Shuffles(n), NEW k \in 0..(n - 1), NEW since,
               ReadsShuffle(p, k, since), since = {order[p[j] + 1] : j \in 1..k}
        PROVE  fault' = fault /\ ShuffleOK'
    <3>1. p \in [1..n -> 0..(n - 1)] /\ Len(p) = n /\ k + 1 \in 1..n
      BY <1>1 DEF Shuffles
    <3>2. p[k + 1] \in 0..(n - 1)
      BY <3>1
    <3>3. Walk(p[k + 1]) = order[p[k + 1] + 1] /\ order[p[k + 1] + 1] \in Members
      BY <1>3, <1>6, <3>2
    <3>4. Load(Walk(p[k + 1])) /\ heard' = since \union ({selIndex'} \intersect Entry)
      BY <1>1, <2>1, <3>1 DEF ReadsShuffle
    <3>5. fault' = fault /\ selIndex' = order[p[k + 1] + 1] /\ selIndex' \in Entry
      BY <1>2, <3>3, <3>4 DEF Members
    <3>6. heard' = {order[p[j] + 1] : j \in 1..(k + 1)}
      <4>1. 1..(k + 1) = 1..k \union {k + 1}
        OBVIOUS
      <4>2. heard' = {order[p[j] + 1] : j \in 1..k} \union {order[p[k + 1] + 1]}
        BY <2>1, <3>4, <3>5
      <4> QED
        BY <4>1, <4>2
    <3>7. shuffleList' = p /\ shuffleIndex' = k + 1 /\ list'.numEntries = n /\ order' = order
      BY <2>1 DEF ReadsShuffle, n
    <3>8. heard' = {order'[shuffleList'[j] + 1] : j \in 1..shuffleIndex'}
      BY <3>6, <3>7
    <3> QED
      BY <3>1, <3>5, <3>7, <3>8 DEF ShuffleOK, Chosen
  <2>2. FindsShuffled
    BY <1>1, <1>7, ShuffleFinds DEF n
  <2>3. CASE \E p \in Shuffles(n) : ReadsShuffle(p, 0, {})
    <3>1. PICK p \in Shuffles(n) : ReadsShuffle(p, 0, {})
      BY <2>3
    <3>2. {} = {order[p[j] + 1] : j \in 1..0} /\ 0 \in 0..(n - 1)
      BY <1>1, <1>7
    <3> QED
      BY <2>1, <3>1, <3>2
  <2>4. CASE shuffleIndex # -1 /\ shuffleIndex < n /\ ReadsShuffle(shuffleList, shuffleIndex, heard)
    <3>1. /\ shuffleList \in Shuffles(n) /\ shuffleIndex \in 1..n
          /\ heard = {order[shuffleList[j] + 1] : j \in 1..shuffleIndex}
      BY <1>7, <2>4 DEF ShuffleOK, Chosen, n
    <3>2. shuffleIndex \in 0..(n - 1)
      BY <1>1, <2>4, <3>1
    <3> QED
      BY <2>1, <2>4, <3>1, <3>2
  <2> QED
    BY <2>2, <2>3, <2>4 DEF FindsShuffled, n
<1>8. CASE ~(GetNextShuffle /\ n > 0)
  <2>1. Unshuffled
    BY <1>8, Zenon DEF FindNextFile, n
  <2>2. \/ NoNext
        \/ n > 0 /\ Load(list.first)
        \/ selIndex \in Members /\ list.next[selIndex] # Null /\ Load(list.next[selIndex])
        \/ selIndex \in Members /\ Load(selIndex)
    BY <1>8, Zenon DEF FindNextFile, n
  <2>3. fault' = fault
    BY <1>2, <1>4, <1>5, <2>2 DEF NoNext
  <2> QED
    BY <2>1, <2>3 DEF Unshuffled, ShuffleOK, Chosen
<1> QED
  BY <1>7, <1>8

(* What must be shown of a step's result, if the step changes no list.           *)
LEMMA ShuffleSame ==
  ASSUME ShuffleInv, list.numEntries \in Nat, ~fault, fault' = fault, (Reliable' => Reliable),
         UNCHANGED <<list, order, shuffleIndex, shuffleList, heard>>,
         pc \notin Adding \union {"select", "deselect", "unshuffle"},
         pc' \in Sorting \union {"uncount", "free"} /\ Reliable' => shuffleIndex = -1,
         \/ pc' \in Adding \/ calls' = <<>> \/ Top'.start = -1 \/ Top'.start = list.numEntries
         \/ calls # <<>> /\ Top'.start = Top.start
  PROVE  ShuffleInv'
<1> SUFFICES ASSUME Reliable'
             PROVE  /\ pc' \notin Adding \union {"select", "deselect", "unshuffle"} => ShuffleOK'
                    /\ /\ calls' # <<>> /\ Top'.start # -1 /\ list'.numEntries > Top'.start /\ pc' \notin Adding
                       => shuffleIndex' = -1
                    /\ pc' \in Sorting \union {"uncount", "free"} => shuffleIndex' = -1
                    /\ ~fault'
  BY DEF ShuffleInv
<1>1. ShuffleOK'
  BY DEF ShuffleInv, ShuffleOK, Chosen
<1>2. calls' # <<>> /\ Top'.start # -1 /\ Top'.start # list.numEntries /\ pc' \notin Adding
        => calls # <<>> /\ Top'.start = Top.start
  OBVIOUS
<1> QED
  BY <1>1, <1>2 DEF ShuffleInv

LEMMA ShuffleKept ==
  ASSUME Core, CountOK, SelectOK, ShuffleInv, ~Preempt, Next
  PROVE  ShuffleInv'
<1>0. list.numEntries \in Nat /\ ~fault
  <2>1. list \in Lists
    BY DEF Core, TypeOK
  <2> QED
    BY <2>1, FieldsOf, Zenon DEF Next, EditStep
<1>1. ASSUME shuffleIndex' = -1, fault' = fault PROVE ShuffleInv'
  BY <1>0, <1>1, Zenon DEF ShuffleInv, ShuffleOK
<1>2. ASSUME fault' = fault, calls' = <<>> \/ pc' \in Adding,
             pc' \in Adding \union {"select", "deselect", "unshuffle"}
      PROVE  ShuffleInv'
  BY <1>0, <1>2 DEF ShuffleInv, Adding, Sorting
<1>3. \/ calls' = <<>> \/ Top'.start = -1 \/ Top'.start = list.numEntries
      \/ calls # <<>> /\ Top'.start = Top.start
  BY TopSteps
<1>4. CASE PlayerStep
  <2>1. UNCHANGED <<list, order, past, calls>>
    BY <1>4, PlayerKeeps
  <2>2. CASE SongEnds \/ StartPlaylist
    <3>1. pc = "idle" /\ pc' \in {"idle", "load"} /\ FindNextFile
      BY <2>2 DEF SongEnds, StartPlaylist, At, Goto, edit
    <3>2. calls = <<>> /\ selIndex \in Members \union {Null}
      BY <3>1 DEF Core, CallsOK, Sorting, Adding, SelectOK
    <3>3. ASSUME Reliable PROVE fault' = fault /\ ShuffleOK'
      <4>1. Counted /\ ShuffleOK
        BY <3>1, <3>3 DEF CountOK, ShuffleInv, Adding
      <4> QED
        BY <2>1, <3>1, <3>2, <4>1, FindsSound
    <3>4. Reliable' => Reliable
      BY <2>1 DEF Reliable
    <3> QED
      BY <1>0, <2>1, <3>1, <3>2, <3>3, <3>4 DEF ShuffleInv, Sorting
  <2>3. CASE (\E m \in Entry : Select(m)) \/ LoadNewFile \/ ModeButton
    <3>1. pc \in {"idle", "load"}
      BY <2>3 DEF Select, LoadNewFile, ModeButton, At
    <3>2. UNCHANGED <<shuffleIndex, shuffleList, heard>>
      BY <2>3, Zenon DEF Select, LoadNewFile, ModeButton, chosen
    <3>3. fault' = fault
      BY <2>3, Zenon DEF Select, LoadNewFile, ModeButton, chosen
    <3>4. (Reliable' => Reliable) /\ pc' \in {"idle", "load"}
      BY <1>4, <2>1, <3>1, PlayerKeeps DEF Reliable
    <3> QED
      BY <1>0, <1>3, <2>1, <3>1, <3>2, <3>3, <3>4, ShuffleSame DEF Adding, Sorting
  <2> QED
    BY <1>4, <2>2, <2>3 DEF PlayerStep
<1>5. CASE BeginStep \/ FolderStep
  <2>1. UNCHANGED <<list, order, past, shuffleIndex, shuffleList, heard>> /\ pc \in {"idle", "folder"}
    BY <1>5 DEF BeginStep, EnqueueFile, EnqueueFolder, Dequeue, DequeueItems, ResetMusic, ListStep,
       FolderStep, SubFolder, OpenAgain, FolderFile, FolderDone, At, chosen
  <2>2. fault' = fault
    BY <1>5, Zenon DEF BeginStep, EnqueueFile, EnqueueFolder, Dequeue, DequeueItems, ResetMusic, ListStep,
       FolderStep, SubFolder, OpenAgain, FolderFile, FolderDone, chosen
  <2>3. pc' \in Sorting \union {"uncount", "free"} => FolderDone /\ list.numEntries - Top.start > 1
    BY <1>5 DEF BeginStep, EnqueueFile, EnqueueFolder, Dequeue, DequeueItems, ResetMusic, OpenFile, Return,
       FolderStep, SubFolder, OpenAgain, FolderFile, FolderDone, CloseFolder, At, Goto, Sorting
  <2>4. ASSUME FolderDone, list.numEntries - Top.start > 1, Reliable PROVE shuffleIndex = -1
    <3>1. pc = "folder" /\ Top.start # -1 /\ calls # <<>> /\ calls \in Seq(Calls)
      BY <2>4 DEF FolderDone, At, Core, CallsOK, TypeOK
    <3>2. Top.start \in Nat
      BY <3>1, CallsFacts DEF Calls
    <3>3. list.numEntries > Top.start
      BY <1>0, <2>4, <3>2
    <3> QED
      BY <2>4, <3>1, <3>3 DEF ShuffleInv, Adding
  <2>5. Reliable' => Reliable
    BY <2>1 DEF Reliable
  <2>6. pc \notin Adding \union {"select", "deselect", "unshuffle"}
    BY <2>1 DEF Adding
  <2> QED
    BY <1>0, <1>3, <2>1, <2>2, <2>3, <2>4, <2>5, <2>6, ShuffleSame
<1>6. CASE AddStep
  <2>1. CASE ResetShuffle
    <3>1. shuffleIndex' = -1
      BY <2>1 DEF ResetShuffle, Reshuffle
    <3>2. fault' = fault
      BY <2>1, Zenon DEF ResetShuffle
    <3> QED
      BY <1>1, <3>1, <3>2
  <2>2. CASE EnqueueFails
    BY <2>2 DEF EnqueueFails, ShuffleInv, Reliable
  <2>3. CASE NextItem \/ AddLink \/ AddCount \/ AddFile \/ AddDisplay
    <3>1. pc' \in Adding
      BY <2>3 DEF NextItem, AddLink, AddCount, AddFile, AddDisplay, Delete, At, Goto, Adding
    <3>2. fault' = fault
      BY <2>3, Zenon DEF NextItem, AddLink, AddCount, AddFile, AddDisplay, ListStep, chosen
    <3> QED
      BY <1>2, <3>1, <3>2
  <2> QED
    BY <1>6, <2>1, <2>2, <2>3 DEF AddStep
<1>7. CASE SortStep
  <2>1. pc \in Sorting /\ past' = past /\ shuffleIndex' = shuffleIndex
    BY <1>7 DEF SortStep, SortPass, SortCompare, SortSwap1, SortSwap2, SortSwap3, At, ListStep, chosen, Sorting
  <2>2. fault' = fault
    BY <1>7, Zenon DEF SortStep, SortPass, SortCompare, SortSwap1, SortSwap2, SortSwap3, ListStep, chosen
  <2>3. Reliable => shuffleIndex' = -1
    BY <2>1 DEF ShuffleInv
  <2>4. ~Reliable => ~Reliable'
    BY <2>1 DEF Reliable
  <2> QED
    BY <1>1, <2>2, <2>3, <2>4 DEF ShuffleInv
<1>8. CASE RemoveStep
  <2>0. pc \in Removing \union {"scan", "items"} /\ calls' = calls /\ calls = <<>>
    <3>1. pc \in Removing \union {"scan", "items"} /\ calls' = calls
      BY <1>8 DEF RemoveStep, Scan, ScanItem, RemoveLinks, RemoveTest, RemoveDeselect, RemoveShuffle, RemoveCount,
         RemoveFree, At, Removing, Unlinked
    <3> QED
      BY <3>1 DEF Core, CallsOK, Sorting, Adding, Removing, Unlinked
  <2>1. CASE Scan \/ ScanItem
    <3>1. /\ UNCHANGED <<list, order, past, shuffleIndex, shuffleList, heard>>
          /\ pc \in {"scan", "items"} /\ pc' \in {"idle", "scan", "items", "unlink"}
      BY <2>1 DEF Scan, ScanItem, At, Goto, chosen
    <3>2. fault' = fault
      BY <2>1, Zenon DEF Scan, ScanItem, chosen
    <3>3. Reliable' => Reliable
      BY <3>1 DEF Reliable
    <3> QED
      BY <1>0, <1>3, <3>1, <3>2, <3>3, ShuffleSame DEF Adding, Sorting
  <2>2. CASE RemoveLinks \/ RemoveTest \/ RemoveDeselect
    <3>1. pc' \in {"select", "deselect", "unshuffle"}
      BY <2>2 DEF RemoveLinks, RemoveTest, RemoveDeselect, Goto
    <3>2. fault' = fault
      BY <2>2, Zenon DEF RemoveLinks, RemoveTest, RemoveDeselect, ListStep, chosen
    <3> QED
      BY <1>2, <2>0, <3>1, <3>2
  <2>3. CASE RemoveShuffle
    <3>1. shuffleIndex' = -1
      BY <2>3 DEF RemoveShuffle, Reshuffle
    <3>2. fault' = fault
      BY <2>3, Zenon DEF RemoveShuffle
    <3> QED
      BY <1>1, <3>1, <3>2
  <2>4. CASE RemoveCount \/ RemoveFree
    <3>1. pc \in {"uncount", "free"} /\ shuffleIndex' = shuffleIndex /\ (past' = past \/ past' = past \union {"dequeued"})
      BY <2>4 DEF RemoveCount, RemoveFree, At, ListStep, chosen
    <3>2. fault' = fault
      BY <2>4, Zenon DEF RemoveCount, RemoveFree, ListStep, chosen
    <3>3. Reliable => shuffleIndex' = -1
      BY <3>1 DEF ShuffleInv
    <3>4. ~Reliable => ~Reliable'
      BY <3>1 DEF Reliable
    <3> QED
      BY <1>1, <3>2, <3>3, <3>4 DEF ShuffleInv
  <2> QED
    BY <1>8, <2>1, <2>2, <2>3, <2>4 DEF RemoveStep
<1>9. CASE ResetStep
  <2>1. CASE ResetEntry
    <3>1. UNCHANGED <<list, order, past, calls, pc, shuffleIndex, shuffleList, heard>> /\ pc = "clear"
      BY <2>1 DEF ResetEntry, At, chosen
    <3>2. fault' = fault
      BY <2>1, Zenon DEF ResetEntry, chosen
    <3>3. Reliable' => Reliable
      BY <3>1 DEF Reliable
    <3> QED
      BY <1>0, <1>3, <3>1, <3>2, <3>3, ShuffleSame DEF Adding, Sorting
  <2>2. CASE ResetDone
    <3>1. list' = EmptyList /\ pc' = "idle" /\ calls' = calls /\ pc = "clear"
      BY <2>2 DEF ResetDone, At, Goto
    <3>2. fault' = fault
      BY <2>2, Zenon DEF ResetDone
    <3>3. calls' = <<>> /\ list'.numEntries = 0
      BY <3>1 DEF Core, CallsOK, Sorting, Adding, EmptyList
    <3> QED
      BY <1>0, <3>1, <3>2, <3>3 DEF ShuffleInv, ShuffleOK, Sorting
  <2> QED
    BY <1>9, <2>1, <2>2 DEF ResetStep
<1> QED
  BY <1>4, <1>5, <1>6, <1>7, <1>8, <1>9, NextGroups

LEMMA ShuffleAlways ==
  ASSUME ~Preempt
  PROVE  Spec => []ShuffleInv
<1>0. Secure /\ ~Preempt
  BY DEF Secure
<1>1. Init => ShuffleInv
  BY DEF Init, ShuffleInv, ShuffleOK, Sorting
<1>2. Core /\ CountOK /\ SelectOK /\ ShuffleInv /\ [Next]_vars => ShuffleInv'
  <2>1. ASSUME ShuffleInv, UNCHANGED vars PROVE ShuffleInv'
    <3>1. UNCHANGED <<list, order, past, pc, calls, shuffleIndex, shuffleList, heard>>
      BY <2>1 DEF vars, chosen, edit
    <3>2. fault' = fault
      BY <2>1, Zenon DEF vars, chosen
    <3>3. (Reliable' <=> Reliable) /\ (ShuffleOK' <=> ShuffleOK) /\ Top' = Top
      BY <3>1 DEF Reliable, ShuffleOK, Chosen, Top
    <3> QED
      BY <2>1, <3>1, <3>2, <3>3 DEF ShuffleInv
  <2> QED
    BY <1>0, <2>1, ShuffleKept
<1>3. Inv => Core
  BY DEF Inv
<1> QED
  BY <1>0, <1>1, <1>2, <1>3, InvAlways, CountAlways, SelectAlways, PTL DEF Spec

(* FindNextFile never follows a null pointer, never reads an entry that has been    *)
(* freed and never reads beyond shuffleList, unless an allocation has failed, if  *)
(* it comes between edits.                                                   *)
THEOREM NoFaultTheorem ==
  ASSUME ~Preempt
  PROVE  Spec => []NoFault
<1>1. ShuffleInv => NoFault
  BY DEF ShuffleInv, NoFault, Reliable
<1> QED
  BY <1>1, ShuffleAlways, PTL

(* The songs chosen so far are as many as the positions read.                  *)
LEMMA HeardCounted ==
  ASSUME order \in Seq(Entry), Distinct(order), NEW p \in Shuffles(Len(order)), NEW k \in 0..Len(order)
  PROVE  /\ IsFiniteSet({order[p[j] + 1] : j \in 1..k})
         /\ Cardinality({order[p[j] + 1] : j \in 1..k}) = k
<1> DEFINE S == {order[p[j] + 1] : j \in 1..k}
           f == [j \in 1..k |-> order[p[j] + 1]]
<1>1. Len(order) \in Nat /\ k \in Nat /\ \A j \in 1..k : j \in 1..Len(order) /\ p[j] + 1 \in 1..Len(order)
  BY DEF Shuffles
<1>2. \A i, j \in 1..k : f[i] = f[j] => i = j
  <2> SUFFICES ASSUME NEW i \in 1..k, NEW j \in 1..k, f[i] = f[j] PROVE i = j
    OBVIOUS
  <2>1. order[p[i] + 1] = order[p[j] + 1]
    OBVIOUS
  <2>2. p[i] + 1 = p[j] + 1
    BY <1>1, <2>1 DEF Distinct
  <2>3. p[i] = p[j]
    <3>1. p \in [1..Len(order) -> 0..(Len(order) - 1)] /\ i \in 1..Len(order) /\ j \in 1..Len(order)
      BY <1>1 DEF Shuffles
    <3>2. p[i] \in 0..(Len(order) - 1) /\ p[j] \in 0..(Len(order) - 1)
      BY <3>1, Zenon
    <3> QED
      BY <1>1, <2>2, <3>2
  <2> QED
    BY <1>1, <2>3 DEF Shuffles
<1>3. f \in Bijection(1..k, S)
  <2>1. f \in [1..k -> S] /\ \A t \in S : \E j \in 1..k : f[j] = t
    OBVIOUS
  <2> HIDE DEF f, S
  <2> QED
    BY <1>2, <2>1 DEF Bijection, Injection, Surjection, IsInjective
<1>4. IsFiniteSet(1..k) /\ Cardinality(1..k) = k
  BY <1>1, FS_Interval
<1>5. ExistsBijection(1..k, S)
  BY <1>3 DEF ExistsBijection
<1> HIDE DEF S
<1>6. IsFiniteSet(S) /\ Cardinality(S) = k
  BY <1>4, <1>5, FS_Bijection
<1> QED
  BY <1>6 DEF S

(* In shuffle order, whatever was added and dequeued in between, the songs chosen in *)
(* a round are all different, and at its end they are all the songs there are.    *)
THEOREM RoundTheorem ==
  ASSUME ~Preempt
  PROVE  Spec => []RoundHearsAll
<1>1. Core /\ CountOK /\ ShuffleInv => RoundHearsAll
  <2> SUFFICES ASSUME Core, CountOK, ShuffleInv, pc = "idle", Reliable, list.numEntries > 0, shuffleIndex # -1
               PROVE  /\ Cardinality(heard) = shuffleIndex
                      /\ shuffleIndex >= list.numEntries => heard = Members
    BY DEF RoundHearsAll, Reliable
  <2>1. /\ order \in Seq(Entry) /\ Distinct(order) /\ Members = Of(order) /\ list.numEntries = Len(order)
        /\ Len(order) \in Nat
    BY DEF Core, TypeOK, MembersOK, CountOK, Counted, Unlinked
  <2>2. /\ shuffleList \in Shuffles(Len(order)) /\ shuffleIndex \in 1..Len(order)
        /\ heard = {order[shuffleList[j] + 1] : j \in 1..shuffleIndex}
    BY <2>1 DEF ShuffleInv, ShuffleOK, Chosen, Adding
  <2>3. shuffleIndex \in 0..Len(order) /\ Len(order) \in 0..Len(order)
    BY <2>1, <2>2
  <2>4. Cardinality(heard) = shuffleIndex
    BY <2>1, <2>2, <2>3, HeardCounted
  <2>5. ASSUME shuffleIndex >= list.numEntries PROVE heard = Members
    <3>1. shuffleIndex = Len(order)
      BY <2>1, <2>2, <2>5
    <3>2. IsFiniteSet(Of(order)) /\ Cardinality(Of(order)) = Len(order)
      <4> DEFINE n == Len(order)
      <4>1. order \in Bijection(1..n, Of(order))
        <5>1. order = [k \in 1..n |-> order[k]] /\ \A k \in 1..n : order[k] \in Of(order)
          BY <2>1, OfIn
        <5>2. order \in [1..n -> Of(order)]
          BY <5>1
        <5> QED
          BY <2>1, <5>2, OfIn DEF Distinct, Bijection, Injection, Surjection, IsInjective
      <4>2. ExistsBijection(1..n, Of(order))
        BY <4>1 DEF ExistsBijection
      <4>3. IsFiniteSet(1..n) /\ Cardinality(1..n) = n
        BY <2>1, FS_Interval
      <4> QED
        BY <4>2, <4>3, FS_Bijection
    <3>3. heard \subseteq Of(order)
      <4>1. \A j \in 1..shuffleIndex : shuffleList[j] + 1 \in 1..Len(order)
        BY <2>1, <2>2 DEF Shuffles
      <4> QED
        BY <2>2, <4>1, OfIn
    <3> QED
      BY <2>1, <2>4, <3>1, <3>2, <3>3, FS_Subset
  <2> QED
    BY <2>4, <2>5
<1>2. Inv => Core
  BY DEF Inv
<1> QED
  BY <1>1, <1>2, InvAlways, CountAlways, ShuffleAlways, PTL
=============================================================================
