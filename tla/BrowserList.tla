---------------------------- MODULE BrowserList ----------------------------
(***************************************************************************)
(* The doubly linked list of filebrowser.cpp (struct BROWSER), which holds  *)
(* a folder, the playlists and the subtitles.  A list is a record with the  *)
(* fields of the struct that its operations use; an operation is split      *)
(* where another thread sees the list in between.                           *)
(***************************************************************************)
EXTENDS Integers, Sequences

CONSTANTS Entry,     \* the entries that can be allocated
          Null       \* the null pointer

ASSUME NullAssumption == Null \notin Entry

Link == Entry \union {Null}

Lists == [first: Link, last: Link, next: [Entry -> Link], prior: [Entry -> Link],
          pos: [Entry -> Nat], numEntries: Nat]

(* BrowserInit and the end of Reset. *)
EmptyList == [first |-> Null, last |-> Null, numEntries |-> 0,
              next |-> [n \in Entry |-> Null], prior |-> [n \in Entry |-> Null],
              pos |-> [n \in Entry |-> 0]]

(* AddEntry: the new entry is linked behind the last one ...               *)
LinkNew(L, n) ==
  IF L.last = Null THEN [L EXCEPT !.first = n, !.next[n] = Null]
                   ELSE [L EXCEPT !.next = [@ EXCEPT ![n] = Null, ![L.last] = n]]

(* ... and then becomes the last one and is numbered and counted.          *)
CountNew(L, n) == [L EXCEPT !.prior[n] = L.last, !.last = n,
                            !.pos[n] = L.numEntries, !.numEntries = @ + 1]

AddEntry(L, n) == CountNew(LinkNew(L, n), n)

(* Mutant: the last entry is taken out without giving the list a new one.    *)
UnlinkNoLast(L, i) ==
  LET n == L.next[i]
      p == L.prior[i]
  IN  [L EXCEPT !.first = IF @ = i THEN n ELSE @,
                !.next  = IF p # Null THEN [@ EXCEPT ![p] = n] ELSE @,
                !.prior = IF n # Null THEN [@ EXCEPT ![n] = p] ELSE @]

(* The part DeleteEntry and the playlist's Remove have in common: entry i   *)
(* is taken out of the links.  Neither renumbers the others, and           *)
(* DeleteEntry leaves numEntries alone.                                    *)
Unlink(L, i) ==
  LET n == L.next[i]
      p == L.prior[i]
  IN  [L EXCEPT !.first = IF @ = i THEN n ELSE @,
                !.last  = IF @ = i THEN p ELSE @,
                !.next  = IF p # Null THEN [@ EXCEPT ![p] = n] ELSE @,
                !.prior = IF n # Null THEN [@ EXCEPT ![n] = p] ELSE @]

(* SortBrowser exchanges a with the entry b behind it; before and after are *)
(* their neighbours, head and tail the ends, which the sort keeps to itself  *)
(* until it is done.  The three parts are the three stores to next.         *)
Swap1(L, a, b, before) == [L EXCEPT !.next[b] = a, !.prior[b] = before]
Swap2(L, b, before) == IF before = Null THEN L ELSE [L EXCEPT !.next[before] = b]
Swap3(L, a, b, after) ==
  [L EXCEPT !.next[a] = after,
            !.prior = IF after = Null THEN [@ EXCEPT ![a] = b]
                                      ELSE [@ EXCEPT ![a] = b, ![after] = a],
            !.pos = [@ EXCEPT ![a] = L.pos[b], ![b] = L.pos[a]]]

Swap(L, a) == LET b == L.next[a]
              IN  Swap3(Swap2(Swap1(L, a, b, L.prior[a]), b, L.prior[a]), a, b, L.next[b])

(* The links of L, read from first to last and from last to first, are the  *)
(* entries of s, once each.                                                 *)
Represents(L, s) ==
  /\ \A i, j \in 1..Len(s) : s[i] = s[j] => i = j
  /\ L.first = IF s = <<>> THEN Null ELSE s[1]
  /\ L.last = IF s = <<>> THEN Null ELSE s[Len(s)]
  /\ \A i \in 1..Len(s) :
       /\ L.next[s[i]] = IF i < Len(s) THEN s[i + 1] ELSE Null
       /\ L.prior[s[i]] = IF i > 1 THEN s[i - 1] ELSE Null
=============================================================================
