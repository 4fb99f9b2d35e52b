------------------------------- MODULE Clamp --------------------------------
(***************************************************************************)
(* Worker.clampWorkerErrorMessage (workers/worker.go): an error message    *)
(* over the byte limit is cut where a rune starts, and a marker appended.  *)
(* A message is its length and the set of positions at which a rune        *)
(* starts; bytes that are no UTF-8 have runes that start nowhere, or far   *)
(* apart.  A result is the number of bytes kept of it and of the marker.   *)
(* The function keeps nothing, so there is no behaviour to run: what it    *)
(* promises is proved.                                                     *)
(***************************************************************************)
EXTENDS Integers, TLAPS, WellFoundedInduction

\* The bytes of the budget left for the message.
Budget(limit, marker) == IF marker <= limit THEN limit - marker ELSE 0

\* The last position within the budget at which a rune starts, or 0.
IsCut(cut, budget, starts) ==
    /\ cut \in 0..budget
    /\ cut = 0 \/ cut \in starts
    /\ \A p \in starts : p <= budget => p <= cut

Cut(budget, starts) == CHOOSE cut \in Nat : IsCut(cut, budget, starts)

\* A limit of 0 or less is none.
Clamped(limit, length, starts, marker) ==
    IF limit <= 0 \/ length <= limit
    THEN [kept |-> length, marked |-> 0]
    ELSE [kept |-> Cut(Budget(limit, marker), starts), marked |-> marker]

\* In UTF-8 a rune starts in any four bytes.
ValidUTF8(length, starts) ==
    /\ starts \subseteq 0..length - 1
    /\ \A p \in 0..length - 1 : \E s \in starts : s <= p /\ p < s + 4

-----------------------------------------------------------------------------
\* The loop that moves the cut back ends at a cut, whatever the bytes.
LEMMA CutExists ==
    ASSUME NEW budget \in Nat, NEW starts \in SUBSET Nat
    PROVE  IsCut(Cut(budget, starts), budget, starts)
<1> DEFINE Backwards ==
        {b \in Nat : b <= budget /\ (b = budget \/ budget - b \in starts)}
<1>1. Backwards \subseteq Nat /\ Backwards # {}
  <2>1. budget \in Backwards
    OBVIOUS
  <2> QED
    BY <2>1
<1>2. PICK b \in Backwards :
          \A c \in Backwards : ~ (<<c, b>> \in OpToRel(<, Nat))
  <2> HIDE DEF Backwards
  <2> QED
    BY <1>1, NatLessThanWellFounded, WFMin
<1>3. \A c \in Backwards : c >= b
  <2>1. \A c \in Backwards : ~ (c < b)
    <3> HIDE DEF Backwards
    <3>1. ASSUME NEW c \in Backwards  PROVE ~ (c < b)
      <4>1. <<c, b>> \in Nat \X Nat
        BY <1>1
      <4> QED
        BY <1>2, <4>1, Zenon DEF OpToRel
    <3> QED
      BY <3>1
  <2> QED
    BY <2>1
<1>4. IsCut(budget - b, budget, starts)
  <2>1. budget - b \in 0..budget /\ (budget - b = 0 \/ budget - b \in starts)
    OBVIOUS
  <2>2. ASSUME NEW p \in starts, p <= budget
        PROVE  p <= budget - b
    <3>1. budget - p \in Nat /\ budget - (budget - p) = p
      BY <2>2
    <3>2. budget - p \in Backwards
      BY <2>2, <3>1
    <3> QED
      BY <1>3, <2>2, <3>1, <3>2
  <2> QED
    BY <2>1, <2>2 DEF IsCut
<1>5. budget - b \in Nat
  OBVIOUS
<1> QED
  BY <1>4, <1>5 DEF Cut

\* "Caps the byte length": if the limit leaves room for the marker, what is
\* sent is no longer than the limit.  (With a smaller limit it is the marker,
\* which is longer.)
THEOREM ClampFits ==
    ASSUME NEW limit \in Nat \ {0}, NEW length \in Nat, NEW marker \in Nat,
           NEW starts \in SUBSET (0..length - 1),
           marker <= limit
    PROVE  LET c == Clamped(limit, length, starts, marker)
           IN  c.kept + c.marked <= limit
<1> DEFINE budget == Budget(limit, marker)
           cut    == Cut(budget, starts)
<1>1. budget \in Nat /\ budget + marker = limit
  BY DEF Budget
<1>2. cut \in 0..budget
  <2>1. starts \in SUBSET Nat
    OBVIOUS
  <2> HIDE DEF budget
  <2> QED
    BY <1>1, <2>1, CutExists DEF IsCut
<1> QED
  BY <1>1, <1>2 DEF Clamped

\* "UTF-8 safe (cuts on rune boundary)": what is kept is the whole message, or
\* ends where the next rune starts, and the index never leaves the message.
THEOREM ClampOnRune ==
    ASSUME NEW limit \in Nat, NEW length \in Nat, NEW marker \in Nat,
           NEW starts \in SUBSET (0..length - 1)
    PROVE  LET c == Clamped(limit, length, starts, marker)
           IN  /\ c.kept \in 0..length
               /\ c.kept = length \/ c.kept = 0 \/ c.kept \in starts
<1> DEFINE budget == Budget(limit, marker)
           cut    == Cut(budget, starts)
<1>1. budget \in Nat /\ budget <= limit
  BY DEF Budget
<1>2. cut \in 0..budget /\ (cut = 0 \/ cut \in starts)
  <2>1. starts \in SUBSET Nat
    OBVIOUS
  <2> HIDE DEF budget
  <2> QED
    BY <1>1, <2>1, CutExists DEF IsCut
<1> QED
  BY <1>1, <1>2 DEF Clamped

\* Cutting at a rune costs at most three bytes of the limit.
THEOREM ClampKeepsMost ==
    ASSUME NEW limit \in Nat \ {0}, NEW length \in Nat, NEW marker \in Nat,
           NEW starts, ValidUTF8(length, starts),
           marker <= limit, limit < length
    PROVE  LET c == Clamped(limit, length, starts, marker)
           IN  limit < c.kept + c.marked + 4
<1> DEFINE budget == Budget(limit, marker)
           cut    == Cut(budget, starts)
<1>1. budget \in 0..length - 1 /\ budget + marker = limit
  BY DEF Budget
<1>2. starts \subseteq 0..length - 1
  BY DEF ValidUTF8
<1>3. PICK s \in starts : s <= budget /\ budget < s + 4
  BY <1>1 DEF ValidUTF8
<1>4. cut \in 0..budget /\ s <= cut
  <2>1. starts \in SUBSET Nat /\ budget \in Nat /\ s <= budget
    BY <1>1, <1>2, <1>3
  <2> HIDE DEF budget
  <2> QED
    BY <2>1, CutExists DEF IsCut
<1> QED
  BY <1>1, <1>2, <1>3, <1>4 DEF Clamped
=============================================================================
