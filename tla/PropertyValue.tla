--------------------------- MODULE PropertyValue ---------------------------
(***************************************************************************)
(* Property values and the checks on them (src/property_accessor.cpp).     *)
(* A string is the sequence of its words, which blanks separate; a few     *)
(* words read as a number.  An integer is the set of its one bits, so that *)
(* & is intersection and << moves the bits and loses those past the width. *)
(***************************************************************************)
EXTENDS Integers, Sequences, SequencesExt, FiniteSets, Folds, Functions, TLC

CONSTANTS
    Words,
    Number,     \* what std::stoll and the spellings of true and false read
    Width       \* bits of an integer

Bits == 0 .. Width - 1
Integer == SUBSET Bits
Strings == Seq(Words)

toBits(n) == {b \in Bits : (n \div 2 ^ b) % 2 = 1}

toNumber(bits) == FoldFunction(+, 0, [b \in Bits |-> IF b \in bits THEN 2 ^ b ELSE 0])

shiftLeft(bits, n) == {b + n : b \in bits} \cap Bits

Values == [state : {"Empty", "Integer", "StringOnly"}, value64 : Integer, strValue : Strings]

emptyValue == [state |-> "Empty", value64 |-> {}, strValue |-> <<>>]

isEmptyValue(v) == v.state = "Empty"
isValidInteger(v) == v.state = "Integer"

PropertyString(s) == [state |-> "StringOnly", value64 |-> {}, strValue |-> s]

\* string2Uint64: one word that reads as a signed number of the width.
string2Uint64(s) ==
    IF Len(s) = 1 /\ s[1] \in DOMAIN Number
       /\ Number[s[1]] \in -(2 ^ (Width - 1)) .. 2 ^ (Width - 1) - 1
    THEN [state |-> "Integer", value64 |-> toBits(Number[s[1]]), strValue |-> s]
    ELSE PropertyString(s)

\* getPropertyDataFromVariant: an invalid variant, or a type that is not
\* handled, leaves the value empty.
fromVariant(variant) ==
    CASE variant.type = "string" -> PropertyString(variant.value)
      [] variant.type = "integer" ->
            [state |-> "Integer", value64 |-> variant.value,
             strValue |-> <<ToString(toNumber(variant.value))>>]
      [] variant.type = "boolean" ->
            [state |-> "Integer", value64 |-> IF variant.value THEN {0} ELSE {},
             strValue |-> <<ToString(variant.value)>>]
      [] OTHER -> emptyValue

invalidVariant == [type |-> "none", value |-> {}]
isValidVariant(variant) == variant.type # "none"

\* Two integers compare as numbers, anything else by its string.
equal(a, b) == IF isValidInteger(a) /\ isValidInteger(b) THEN a.value64 = b.value64
                                                         ELSE a.strValue = b.strValue

bitmask(v, other) == /\ isValidInteger(other) /\ isValidInteger(v)
                     /\ other.value64 \subseteq v.value64

bitset(v, other) == /\ isValidInteger(other) /\ isValidInteger(v)
                    /\ other.value64 \cap v.value64 # {}

\* The negations ask the mask, and not the value, to be an integer.
notBitmask(v, other) == isValidInteger(other) /\ ~bitmask(v, other)
notBitset(v, other) == isValidInteger(other) /\ ~bitset(v, other)

lookup(v, s) == \E i, j \in 0 .. Len(v.strValue) : SubSeq(v.strValue, i + 1, j) = s

\* criteria::getValueFromCriteria, getStringFromCriteria
criterion(redef, s) == IF isValidVariant(redef) THEN fromVariant(redef) ELSE string2Uint64(s)

\* One pair of the "check" map.
passes(v, key, redef, s) ==
    LET c == criterion(redef, s)
    IN CASE key \in {"bitmask", "bitmap"} -> bitmask(v, c)
         [] key = "bitset" -> bitset(v, c)
         [] key = "not_bitmask" -> notBitmask(v, c)
         [] key = "not_bitset" -> notBitset(v, c)
         [] key = "lookup" -> lookup(v, IF isValidVariant(redef) THEN c.strValue ELSE s)
         [] key = "equal" -> equal(v, c)
         [] key = "not_equal" -> ~equal(v, c)

\* PropertyValue::check: every pair of the map must pass, and there must be one.
check(v, map, redef) ==
    DOMAIN map # {} /\ \A key \in DOMAIN map : passes(v, key, redef, map[key])

=============================================================================
