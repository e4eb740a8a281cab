------------------------------- MODULE Exercises -------------------------------
(***************************************************************************)
(* The exercises of src/leetcode/1-100 as functions of their inputs, and   *)
(* the test of IPv6 connectivity in src/resolve6.c.                        *)
(*                                                                         *)
(* A character or digit is a number; for 8-String2Integer the characters   *)
(* that are no digits are negative.                                        *)
(***************************************************************************)
EXTENDS Integers, Sequences, FiniteSets, SequencesExt, FiniteSetsExt

CONSTANTS IMax,        \* bound: the largest int, 2147483647 in the code
          DigitMax,    \* bound: 9 in the code, one digit less than IMax has
          ZigZagMax,   \* bound: characters, and rows, of 6-ZigZagConversion
          StringMax,   \* bound: characters of 3-lengthOfLongestSubstring
          AtoiLen      \* bound: characters of 8-String2Integer

VARIABLES exercise,    \* the function and its arguments
          result       \* the set of what it has returned

exerciseVars == <<exercise, result>>

Upto(n) == [i \in 1..n |-> i]
Strings(set, n) == UNION {[1..k -> set] : k \in 0..n}

-----------------------------------------------------------------------------
(* convert() of 6-ZigZagConversion.c: the characters of s row by row, from *)
(* the number of columns that have one.                                    *)
NumCols(siz, rows) ==
    LET p == rows * 2 - 2
    IN IF rows = 2 THEN (siz \div 2) + (siz % 2)
       ELSE LET rest == siz % p
            IN 2 * (siz \div p) + (IF rest > rows THEN 2 ELSE IF rest > 0 THEN 1 ELSE 0)

SlipOddColumn(m, n, rows) == m + (rows * 2 - 2) * (n \div 2)

(* The place in s of what stands in row m, column n.                       *)
PlaceIn(m, n, rows) ==
    LET p == rows * 2 - 2
    IN IF n % 2 = 1 THEN m + p * ((n - 1) \div 2) + (rows - m - 1) * 2 ELSE m + p * (n \div 2)

Convert(s, rows) ==
    LET siz == Len(s)
        p == rows * 2 - 2
        cols == [n \in 1..NumCols(siz, rows) |-> n - 1]
        outer(m) == [i \in DOMAIN cols |-> m + p * cols[i]]
        inner(m) == [i \in DOMAIN cols |-> PlaceIn(m, cols[i], rows)]
        places == outer(0) \o FlattenSeq([m \in 1..rows - 2 |-> inner(m)]) \o outer(rows - 1)
    IN IF rows <= 1 THEN s
       ELSE LET there == SelectSeq(places, LAMBDA k : k < siz)
            IN [i \in DOMAIN there |-> s[there[i] + 1]]

(* The characters by the row they are in, going down and up again.         *)
ZigZag(s, rows) ==
    LET p == rows * 2 - 2
        row(i) == IF (i - 1) % p < rows THEN (i - 1) % p ELSE p - ((i - 1) % p)
    IN IF rows <= 1 THEN s
       ELSE SortSeq(s, LAMBDA i, j : row(i) < row(j) \/ (row(i) = row(j) /\ i < j))

-----------------------------------------------------------------------------
(* addTwoNumbers of 2-add-two-numbers.cc, least digit first.               *)
DigitAt(l, i) == IF i \in DOMAIN l THEN l[i] ELSE 0

AddTwoNumbers(l1, l2) ==
    LET longest == IF Len(l1) > Len(l2) THEN Len(l1) ELSE Len(l2)
        sums == FoldLeft(LAMBDA acc, i :
                    LET add == DigitAt(l1, i) + DigitAt(l2, i) + acc.cflag
                    IN [cflag |-> add \div 10, list |-> Append(acc.list, add % 10)],
                    [cflag |-> 0, list |-> <<>>], Upto(longest))
    IN IF sums.cflag > 0 THEN Append(sums.list, sums.cflag) ELSE sums.list

NumberOf(l) == FoldRight(LAMBDA digit, acc : digit + 10 * acc, l, 0)

-----------------------------------------------------------------------------
(* lengthOfLongestSubstring of 3-*.cc and 3-*.c: a window that begins at   *)
(* pos, and the set of the characters in it.                               *)
Window(acc, s, i) ==
    IF s[i] \notin acc.bits THEN acc
    ELSE IF s[i] = s[acc.pos] THEN [acc EXCEPT !.pos = @ + 1]
    ELSE LET j == CHOOSE k \in acc.pos..Len(s) :
                    s[k] = s[i] /\ \A l \in acc.pos..k - 1 : s[l] # s[i]
         IN [acc EXCEPT !.bits = @ \ {s[l] : l \in acc.pos..j}, !.pos = j + 1,
                        !.len = @ - (j - acc.pos + 1)]

LongestInCpp(s) ==
    FoldLeft(LAMBDA acc, i :
        LET window == Window(acc, s, i)
            bits == window.bits \cup {s[i]}
            len == Cardinality(bits)
        IN [window EXCEPT !.bits = bits, !.len = len, !.max = IF @ < len THEN len ELSE @],
        [bits |-> {}, pos |-> 1, len |-> 0, max |-> 0], Upto(Len(s))).max

(* The C version counts, and stops early.                                  *)
LongestInC(s) ==
    FoldLeft(LAMBDA acc, i :
        LET window == Window(acc, s, i)
            len == IF s[i] \in window.bits THEN window.len ELSE window.len + 1
            max == IF window.max < len THEN len ELSE window.max
        IN IF acc.done THEN acc
           ELSE [window EXCEPT !.bits = @ \cup {s[i]}, !.len = len, !.max = max,
                               !.done = max >= Len(s) - (i - 1) + len],
        [bits |-> {}, pos |-> 1, len |-> 0, max |-> 0, done |-> FALSE], Upto(Len(s))).max

Longest(s) ==
    Max({0} \cup {j - i + 1 : <<i, j>> \in
                    {w \in (DOMAIN s) \X (DOMAIN s) :
                        w[1] <= w[2] /\ \A k, l \in w[1]..w[2] : s[k] = s[l] => k = l}})

-----------------------------------------------------------------------------
(* twoSum of 1-two-sum.cc: a pair of the sorted values, then where they    *)
(* stand.                                                                  *)
TwoSum(nums, target) ==
    LET lst == SortSeq(nums, <)
        pairs == {w \in (DOMAIN lst) \X (DOMAIN lst) : w[1] < w[2] /\ lst[w[1]] + lst[w[2]] = target}
    IN IF pairs = {} THEN <<0, 0>>
       ELSE LET first == Min({w[1] : w \in pairs})
                value == {lst[first], target - lst[first]}
            IN SubSeq(SelectSeq(Upto(Len(nums)), LAMBDA i : nums[i] \in value), 1, 2)

Solutions(nums, target) ==
    {w \in (DOMAIN nums) \X (DOMAIN nums) : w[1] < w[2] /\ nums[w[1]] + nums[w[2]] = target}

-----------------------------------------------------------------------------
(* myAtoi of 8-String2Integer.c.                                           *)
Space == -1
Minus == -2
Plus == -3
Letter == -4

(* The digits of str, behind spaces and one sign, up to what is no digit.  *)
Parsed(str) ==
    LET from == Min({i \in DOMAIN str : str[i] # Space} \cup {Len(str) + 1})
        signed == from <= Len(str) /\ str[from] \in {Minus, Plus}
        begin == IF signed THEN from + 1 ELSE from
        end == Min({i \in begin..Len(str) : str[i] < 0} \cup {Len(str) + 1})
    IN [positive |-> ~(signed /\ str[from] = Minus), digits |-> SubSeq(str, begin, end - 1)]

(* The last digit of the largest number with this sign.                    *)
LastDigit(positive) == IF positive THEN 7 ELSE 8

(* From the tenth digit on tmp is compared with the limit before the digit *)
(* is added; a tmp that has just reached it is the last one looked at.     *)
MyAtoi(str) ==
    LET in == Parsed(str)
        limit == IF in.positive THEN IMax ELSE IMax + 1
        sign(n) == IF in.positive THEN n ELSE -n
        read == FoldLeft(LAMBDA acc, i :
                    LET digit == in.digits[i]
                    IN IF acc.done THEN acc
                       ELSE IF i > DigitMax /\ (acc.tmp > limit \div 10 \/
                            (acc.tmp = limit \div 10 /\ digit > LastDigit(in.positive)))
                       THEN [tmp |-> limit, done |-> TRUE]
                       ELSE [tmp |-> digit + acc.tmp * 10,
                             done |-> i > DigitMax /\ acc.tmp = limit \div 10],
                    [tmp |-> 0, done |-> FALSE], Upto(Len(in.digits)))
    IN sign(read.tmp)

(* The number, or the nearest int.                                         *)
Atoi(str) ==
    LET in == Parsed(str)
        limit == IF in.positive THEN IMax ELSE IMax + 1
        n == FoldLeft(LAMBDA acc, digit : digit + acc * 10, 0, in.digits)
        clipped == IF n > limit THEN limit ELSE n
    IN IF in.positive THEN clipped ELSE -clipped

(* A number that is in the last decade of the ints, and goes on.           *)
GoesOn(str) ==
    LET in == Parsed(str)
    IN \E i \in DigitMax + 1..Len(in.digits) - 1 :
          FoldLeft(LAMBDA acc, d : d + acc * 10, 0, SubSeq(in.digits, 1, i)) \div 10 = IMax \div 10

-----------------------------------------------------------------------------
(* _resolvev6 of resolve6.c.  host is what getaddrinfo says of it: IPv6 is *)
(* tried if the last of its IPv4 addresses is 0, or if it has none.        *)
IPv4Of(host) ==
    LET v4 == SelectSeq(host, LAMBDA address : address # "v6")
    IN IF v4 = <<>> \/ Last(v4) = "v4 zero" THEN {} ELSE {Last(v4)}

(* The turns of try_again with free descriptors, when the first fails of   *)
(* the connects fail: a failed one keeps its socket open, and without a    *)
(* descriptor socket() fails.                                              *)
TryIPv4(free, fails) ==
    LET turn[left \in 0..free] ==
            IF left = 0 THEN [ret |-> -1, open |-> free]
            ELSE IF free - left = fails THEN [ret |-> -1, open |-> fails]
            ELSE turn[left - 1]
    IN turn[free]

Resolvev6(host, free, fails, connects) ==
    IF host = <<>> THEN [ret |-> -1, open |-> 0]
    ELSE IF IPv4Of(host) # {} THEN TryIPv4(free, fails)
    ELSE [ret |-> IF free > 0 /\ connects THEN 0 ELSE -1, open |-> 0]

-----------------------------------------------------------------------------

Inputs ==
    [of : {"convert"}, s : {Upto(n) : n \in 0..ZigZagMax}, rows : 0..ZigZagMax]
    \cup [of : {"addTwoNumbers"}, l1 : Strings({0, 1, 9}, 3) \ {<<>>},
                                  l2 : Strings({0, 1, 9}, 3) \ {<<>>}]
    \cup [of : {"longest in C++", "longest in C"}, s : Strings({1, 2, 3}, StringMax)]
    \cup [of : {"twoSum"}, nums : Strings(1..3, 4), target : 2..6]
    \cup [of : {"myAtoi"}, str : Strings({Space, Minus, Plus, Letter, 0, 2, 3, 8}, AtoiLen)]
    \cup [of : {"resolve"}, host : Strings({"v4", "v4 zero", "v6"}, 3),
                            free : 0..3, fails : 0..4, connects : BOOLEAN]

ExerciseInit == exercise \in Inputs /\ result = {}

Returned(in) ==
    CASE in.of = "convert" -> Convert(in.s, in.rows)
      [] in.of = "addTwoNumbers" -> AddTwoNumbers(in.l1, in.l2)
      [] in.of = "longest in C++" -> LongestInCpp(in.s)
      [] in.of = "longest in C" -> LongestInC(in.s)
      [] in.of = "twoSum" -> TwoSum(in.nums, in.target)
      [] in.of = "myAtoi" -> MyAtoi(in.str)
      [] in.of = "resolve" -> Resolvev6(in.host, in.free, in.fails, in.connects)

Solve ==
    /\ result = {}
    /\ result' = {Returned(exercise)}
    /\ UNCHANGED exercise

-----------------------------------------------------------------------------
(* Properties.                                                             *)

(* Each function returns what its exercise asks for: twoSum if there is    *)
(* one answer, and myAtoi unless a number that is within the last ten      *)
(* before the limit goes on behind it.  _resolvev6 returns whatever fails, *)
(* has closed its sockets but those of failed IPv4 connects, and says 0    *)
(* just if the socket it connected is one of IPv6.                         *)
RightAnswers ==
    \A in \in {exercise}, out \in result :
        CASE in.of = "convert" -> out = ZigZag(in.s, in.rows)
          [] in.of = "addTwoNumbers" -> NumberOf(out) = NumberOf(in.l1) + NumberOf(in.l2)
          [] in.of \in {"longest in C++", "longest in C"} -> out = Longest(in.s)
          [] in.of = "twoSum" -> Cardinality(Solutions(in.nums, in.target)) = 1
                                   => out \in Solutions(in.nums, in.target)
          [] in.of = "myAtoi" -> GoesOn(in.str) \/ out = Atoi(in.str)
          [] in.of = "resolve" ->
               LET usable == \E i \in DOMAIN in.host :
                                in.host[i] = "v4" /\ \A j \in i..Len(in.host) : in.host[j] # "v4 zero"
               IN /\ out.open = IF usable THEN Min({in.free, in.fails}) ELSE 0
                  /\ out.ret = 0 <=> in.host # <<>> /\ ~usable /\ in.free > 0 /\ in.connects
=============================================================================
