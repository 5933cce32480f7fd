------------------------------ MODULE DeviceId ------------------------------
(***************************************************************************)
(* Device id patterns (src/device_id.cpp): "GPU_[0-3]/NVLink_[1|0-1:4-5]"  *)
(* stands for a family of strings, one for every tuple of indexes.  A      *)
(* pattern is its texts and, between them, its brackets; a bracket maps a  *)
(* range of indexes to a range of numbers and takes its index from the     *)
(* input position written before the bar, or from its own place.           *)
(* A string is a sequence of tokens, a number in decimal being one and "/" *)
(* another.  Input positions count from 0, as in the code.                 *)
(***************************************************************************)
EXTENDS Integers, Sequences, SequencesExt, FiniteSets, FiniteSetsExt, TLC

Implicit == -1      \* indexPosImplicit
unspecified == -1   \* PatternIndex::unspecified

-----------------------------------------------------------------------------
(* Index tuples: no trailing unspecified index, at most one negative value. *)

isPatternIndex(pi) ==
    /\ \A i \in DOMAIN pi : pi[i] \in Nat \cup {unspecified}
    /\ pi # <<>> => pi[Len(pi)] # unspecified

normalize(is) ==
    LET used == {i \in DOMAIN is : is[i] >= 0}
    IN [i \in 1 .. (IF used = {} THEN 0 ELSE Max(used)) |->
          IF is[i] >= 0 THEN is[i] ELSE unspecified]

at(pi, i) == IF i < Len(pi) THEN pi[i + 1] ELSE unspecified

set(pi, i, value) ==
    IF i < Len(pi)
    THEN normalize([pi EXCEPT ![i + 1] = value])
    ELSE IF value < 0 THEN pi
    ELSE [k \in 1 .. i + 1 |-> IF k = i + 1 THEN value ELSE at(pi, k - 1)]

\* Positional order; an index that is missing is smaller than any other.
less(a, b) ==
    \E i \in 0 .. Len(a) + Len(b) :
        /\ at(a, i) < at(b, i)
        /\ \A j \in 0 .. i - 1 : at(a, j) = at(b, j)

-----------------------------------------------------------------------------
(* Parsed patterns *)

Ranges == [left : Nat, right : Nat]

Brackets == [pos : Nat \cup {Implicit}, from : Ranges, to : Ranges]

Patterns == {p \in [texts : Seq(Seq(STRING)), brackets : Seq(Brackets)] :
                Len(p.texts) = Len(p.brackets) + 1}

\* BracketRange, BracketRangeMap: what the constructors accept.
validRange(r) == 0 <= r.left /\ r.left <= r.right

size(r) == r.right - r.left + 1

validBracket(b) ==
    /\ validRange(b.from) /\ validRange(b.to)
    /\ size(b.from) = size(b.to) \/ size(b.to) = 1

validPattern(p) == \A i \in DOMAIN p.brackets : validBracket(p.brackets[i])

BracketMap(b) ==
    [k \in b.from.left .. b.from.right |->
        IF size(b.to) = 1 THEN b.to.left ELSE b.to.left + (k - b.from.left)]

\* fillImplicitInputPositions
inputPos(p, i) == IF p.brackets[i].pos = Implicit THEN i - 1 ELSE p.brackets[i].pos

dim(p) == IF p.brackets = <<>> THEN 0
          ELSE 1 + Max({inputPos(p, i) : i \in DOMAIN p.brackets})

bracketsOf(p, pos) == {i \in DOMAIN p.brackets : inputPos(p, i) = pos}

\* calcInputDomain: the indexes all brackets of a position accept, in order;
\* each accepts a range.  A position without a bracket has the single value
\* unspecified.
inputDomain(p, pos) ==
    IF bracketsOf(p, pos) = {} THEN <<unspecified>>
    ELSE LET first == Max({p.brackets[i].from.left : i \in bracketsOf(p, pos)})
             last == Min({p.brackets[i].from.right : i \in bracketsOf(p, pos)})
         IN [k \in 1 .. last - first + 1 |-> first + k - 1]

contains(p, pos, index) ==
    bracketsOf(p, pos) = {} \/ index \in Range(inputDomain(p, pos))

existsRange(p) == dim(p) > 0

-----------------------------------------------------------------------------
(* The product of the input domains *)

\* The sizes of the input domains from a position on, multiplied.
product(p, first) ==
    LET sizes[n \in 0 .. dim(p)] ==
          IF n = 0 THEN 1 ELSE sizes[n - 1] * Len(inputDomain(p, dim(p) - n))
    IN sizes[dim(p) - first]

domainSize(p) == product(p, 0)

\* CartesianProductRange::iterator_t::operator*: the digits of the master index
\* in the mixed radix of the domains' sizes.
nth(p, masterIndex) ==
    normalize([k \in 1 .. dim(p) |->
        LET dom == inputDomain(p, k - 1)
        IN dom[1 + ((masterIndex \div product(p, k)) % Len(dom))]])

domainVec(p) == [n \in 1 .. domainSize(p) |-> nth(p, n - 1)]

checkIsInDomain(p, pi) == \A pos \in 0 .. dim(p) - 1 : contains(p, pos, at(pi, pos))

\* The texts and, between them, the number of each bracket.
eval(p, pi) ==
    p.texts[1] \o
    FlattenSeq([i \in DOMAIN p.brackets |->
        <<ToString(BracketMap(p.brackets[i])[at(pi, inputPos(p, i))])>> \o p.texts[i + 1]])

valuesVec(p) == [n \in 1 .. domainSize(p) |-> eval(p, nth(p, n - 1))]

\* The indexes with that value, by their places in the domain.
match(p, str) == {n \in 1 .. domainSize(p) : eval(p, nth(p, n - 1)) = str}

matches(p, str) == match(p, str) # {}

\* A pattern without brackets is a plain string.
isString(p) == p.brackets = <<>>
asString(p) == eval(p, <<>>)
asPattern(str) == [texts |-> <<str>>, brackets |-> <<>>]

-----------------------------------------------------------------------------
(* src/device_util.cpp *)

\* The first index that gives the path; none when there is none.
determineDeviceIndex(objPattern, path) ==
    LET indexes == match(objPattern, path)
    IN IF indexes = {} THEN <<>> ELSE nth(objPattern, Min(indexes) - 1)

\* The tokens before the first "/".
getFirstDeviceTypePattern(str) ==
    LET slashes == {i \in DOMAIN str : str[i] = "/"}
    IN IF slashes = {} THEN str ELSE SubSeq(str, 1, Min(slashes) - 1)

\* The name of the first device of a device type; none when the dimensions
\* differ.  With equal dimensions the evaluation throws outside the domain.
determineDeviceName(deviceType, pi) ==
    IF dim(deviceType) = Len(pi) THEN getFirstDeviceTypePattern(eval(deviceType, pi)) ELSE <<>>

\* Mutant: the name is evaluated whatever the dimensions.
nameThrowsAnyDim(deviceType, pi) == ~checkIsInDomain(deviceType, pi)

nameThrows(deviceType, pi) == dim(deviceType) = Len(pi) /\ ~checkIsInDomain(deviceType, pi)

\* The keys of expandDeviceRange: the first index, and counting from there.
expandDeviceRange(p) ==
    [key \in {(IF dim(p) > 0 THEN at(nth(p, 0), 0) ELSE 0) + n - 1 : n \in 1 .. domainSize(p)} |->
        valuesVec(p)[key - (IF dim(p) > 0 THEN at(nth(p, 0), 0) ELSE 0) + 1]]

=============================================================================
