------------------------------ MODULE Normalizer ------------------------------
(***************************************************************************)
(* What the normaliser of the parser reads in the price of a lot.  A text  *)
(* is what is left of it when its spaces and letters are gone: groups of   *)
(* digits, and the separators that stand between them.                     *)
(***************************************************************************)
EXTENDS Integers, Sequences, FiniteSets, SequencesExt

None == "none"
Separators == {",", "."}

(***************************************************************************)
(* parse_price: text.minus is "front" for a number that begins with the    *)
(* sign, "inside" for any other place of it, None without one.  The price  *)
(* is the digits before and after the decimal point.                       *)
(***************************************************************************)
Places(text, sep) == {k \in 1..Len(text.seps) : text.seps[k] = sep}
Concat(groups, first, last) == FlattenSeq(SubSeq(groups, first, last))

\* The price whose decimal point is separator k; 0 when all of them group.
CutAt(text, k) ==
  LET end == Len(text.groups)
      before == IF k = 0 THEN end ELSE k
  IN  [minus |-> text.minus = "front",
       whole |-> Concat(text.groups, 1, before),
       fraction |-> Concat(text.groups, before + 1, end)]

\* Mutation: three digits after a comma are a fraction, too.
LooseTail(digits) == Len(digits) \in 1..3
FractionTail(digits) == Len(digits) \in 1..2

parse_price(text) ==
  LET last == Len(text.seps)
      commas == Places(text, ",")
      dots == Places(text, ".")
      tail == Last(text.groups)
      alone == Places(text, text.seps[last]) = {last}
      rule ==
        IF last = 0 THEN 0
        ELSE IF commas # {} /\ dots # {} THEN last
        ELSE IF commas # {} THEN IF last = 1 /\ FractionTail(tail) THEN last ELSE 0
        ELSE IF last > 1 /\ Len(tail) = 3 THEN 0
        ELSE last
      readable == \/ last = 0 \/ commas = {} \/ dots = {} \/ alone
  IN  IF FlattenSeq(text.groups) = <<>> \/ text.minus = "inside" \/ ~readable
      THEN None ELSE CutAt(text, rule)

-----------------------------------------------------------------------------
(***************************************************************************)
(* The reference: how a price is written.  Digits are counted off from the *)
(* right in threes; group is the separator of the groups, None where it is *)
(* a space or nothing, which the text has lost.                            *)
(***************************************************************************)
Groups[digits \in Seq(0..9)] ==
  IF Len(digits) <= 3 THEN <<digits>>
  ELSE Append(Groups[SubSeq(digits, 1, Len(digits) - 3)],
              SubSeq(digits, Len(digits) - 2, Len(digits)))

Written(whole, fraction, group, point) ==
  LET parts == IF group = None THEN <<whole>> ELSE Groups[whole]
      tail == IF fraction = <<>> THEN <<>> ELSE <<fraction>>
  IN  [minus |-> None, groups |-> parts \o tail,
       seps |-> [k \in 1..Len(parts) - 1 |-> group] \o [k \in 1..Len(tail) |-> point]]

Price(whole, fraction) == [minus |-> FALSE, whole |-> whole, fraction |-> fraction]

\* One dot and three digits after it.
LooksLikeFraction(whole, fraction, group) ==
  group = "." /\ fraction = <<>> /\ Len(whole) \in 4..6

=============================================================================
